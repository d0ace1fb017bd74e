--------------------------- MODULE SeatingProofs ---------------------------
(***************************************************************************)
(* What module Seating guarantees for every house, every crowd and every   *)
(* size of lines and queues, as long as the manager is first.              *)
(*                                                                         *)
(* The argument: facts about sequences, so that queues and lines may be    *)
(* seen as sets without duplicates; the types, with what the service holds *)
(* in each of its places (Control); where each group is (Places) and what  *)
(* it is told (AnswersAreTrue); and the gate and the bounded line on top.  *)
(***************************************************************************)
EXTENDS Seating, FiniteSetTheorems, SequenceTheorems, WellFoundedInduction, TLAPS

---------------------------------------------------------------------------
(* Sequences without duplicates among the members of D.                    *)
Unique(s, D) == \A i, j \in DOMAIN s : s[i] = s[j] /\ s[i] \in D => i = j

(* What is appended is a new member.                                       *)
LEMMA AppendMember ==
  ASSUME NEW S, NEW s \in Seq(S), NEW x \in S, NEW D
  PROVE  /\ Append(s, x) \in Seq(S)
         /\ Range(Append(s, x)) = Range(s) \cup {x}
         /\ Unique(s, D) /\ (x \in D => x \notin Range(s)) => Unique(Append(s, x), D)
<1>1. /\ Append(s, x) \in Seq(S)
      /\ Len(Append(s, x)) = Len(s) + 1 /\ Len(s) \in Nat
      /\ \A i \in 1 .. Len(s) : Append(s, x)[i] = s[i]
      /\ Append(s, x)[Len(s) + 1] = x
  BY AppendProperties, LenProperties
<1>2. DOMAIN s = 1 .. Len(s) /\ DOMAIN Append(s, x) = 1 .. Len(s) + 1
  BY <1>1, LenProperties
<1>3. Range(Append(s, x)) = Range(s) \cup {x}
  BY <1>1, <1>2 DEF Range
<1>4. ASSUME Unique(s, D), x \in D => x \notin Range(s)
      PROVE  Unique(Append(s, x), D)
  BY <1>1, <1>2, <1>4 DEF Range, Unique
<1>5. QED
  BY <1>1, <1>3, <1>4

(* What is taken from the head is no longer there.                         *)
LEMMA TailMember ==
  ASSUME NEW S, NEW s \in Seq(S), s # << >>, NEW D, Unique(s, D)
  PROVE  /\ Tail(s) \in Seq(S) /\ Head(s) \in S
         /\ Range(s) = Range(Tail(s)) \cup {Head(s)}
         /\ Head(s) \in D => Head(s) \notin Range(Tail(s))
         /\ Unique(Tail(s), D)
<1>1. /\ Tail(s) \in Seq(S) /\ Head(s) \in S /\ Head(s) = s[1]
      /\ Len(Tail(s)) = Len(s) - 1 /\ Len(s) \in Nat \ {0}
      /\ \A i \in 1 .. Len(s) - 1 : Tail(s)[i] = s[i + 1]
  BY HeadTailProperties, LenProperties, EmptySeq
<1>2. DOMAIN s = 1 .. Len(s) /\ DOMAIN Tail(s) = 1 .. Len(s) - 1
  BY <1>1, LenProperties
<1>3. ASSUME NEW i \in DOMAIN s
      PROVE  s[i] = Head(s) \/ s[i] \in Range(Tail(s))
  <2>1. CASE i = 1
    BY <2>1, <1>1
  <2>2. CASE i # 1
    <3>1. i - 1 \in DOMAIN Tail(s) /\ Tail(s)[i - 1] = s[i]
      BY <2>2, <1>1, <1>2
    <3>2. QED
      BY <3>1 DEF Range
  <2>3. QED
    BY <2>1, <2>2
<1>4. ASSUME NEW i \in DOMAIN Tail(s)
      PROVE  i + 1 \in DOMAIN s /\ i + 1 # 1 /\ Tail(s)[i] = s[i + 1]
  BY <1>1, <1>2
<1>5. Range(s) = Range(Tail(s)) \cup {Head(s)}
  <2>1. Head(s) \in Range(s)
    BY <1>1, <1>2 DEF Range
  <2>2. Range(Tail(s)) \subseteq Range(s)
    BY <1>4 DEF Range
  <2>3. \A x \in Range(s) : x \in Range(Tail(s)) \cup {Head(s)}
    <3>1. SUFFICES ASSUME NEW x \in Range(s)
                   PROVE  x \in Range(Tail(s)) \cup {Head(s)}
      OBVIOUS
    <3>2. PICK i \in DOMAIN s : s[i] = x
      BY DEF Range
    <3>3. QED
      BY <3>2, <1>3
  <2>4. QED
    BY <2>1, <2>2, <2>3
<1>6. Head(s) \in D => Head(s) \notin Range(Tail(s))
  BY <1>1, <1>2, <1>4 DEF Range, Unique
<1>7. Unique(Tail(s), D)
  BY <1>1, <1>2, <1>4 DEF Unique
<1>8. QED
  BY <1>1, <1>5, <1>6, <1>7

(* A sequence without its k-th member, index by index.                     *)
LEMMA Removed ==
  ASSUME NEW S, NEW s \in Seq(S), NEW k \in DOMAIN s
  PROVE  /\ DOMAIN s = 1 .. Len(s) /\ Len(s) \in Nat /\ k \in 1 .. Len(s)
         /\ RemoveAt(s, k) \in Seq(S) /\ DOMAIN RemoveAt(s, k) = 1 .. Len(s) - 1
         /\ \A i \in 1 .. Len(s) - 1 : RemoveAt(s, k)[i] = IF i < k THEN s[i] ELSE s[i + 1]
<1> DEFINE r == RemoveAt(s, k)
<1>1. /\ DOMAIN s = 1 .. Len(s) /\ Len(s) \in Nat /\ k \in 1 .. Len(s)
      /\ \A i \in 1 .. Len(s) : s[i] \in S
  BY LenProperties, ElementOfSeq
<1>2. /\ SubSeq(s, 1, k - 1) \in Seq(S) /\ Len(SubSeq(s, 1, k - 1)) = k - 1
      /\ \A i \in 1 .. k - 1 : SubSeq(s, 1, k - 1)[i] = s[i]
  <2>1. \A i \in 1 .. k - 1 : s[i] \in S
    BY <1>1
  <2>2. QED
    BY <1>1, <2>1, SubSeqProperties
<1>3. /\ SubSeq(s, k + 1, Len(s)) \in Seq(S) /\ Len(SubSeq(s, k + 1, Len(s))) = Len(s) - k
      /\ \A i \in 1 .. Len(s) - k : SubSeq(s, k + 1, Len(s))[i] = s[k + i]
  <2>1. \A i \in k + 1 .. Len(s) : s[i] \in S
    BY <1>1
  <2>2. k + 1 \in Int /\ Len(s) \in Int
    BY <1>1
  <2>3. /\ SubSeq(s, k + 1, Len(s)) \in Seq(S)
        /\ Len(SubSeq(s, k + 1, Len(s))) = IF k + 1 <= Len(s) THEN Len(s) - (k + 1) + 1 ELSE 0
        /\ \A i \in 1 .. Len(s) - (k + 1) + 1 : SubSeq(s, k + 1, Len(s))[i] = s[(k + 1) + i - 1]
    BY <2>1, <2>2, SubSeqProperties
  <2>4. QED
    BY <2>3, <1>1
<1>4. /\ r \in Seq(S) /\ DOMAIN r = 1 .. Len(s) - 1
      /\ \A i \in 1 .. Len(s) - 1 : r[i] = IF i < k THEN s[i] ELSE s[i + 1]
  <2> DEFINE u == SubSeq(s, 1, k - 1)
             w == SubSeq(s, k + 1, Len(s))
  <2>1. r = u \o w
    BY DEF RemoveAt
  <2>2. /\ u \o w \in Seq(S) /\ Len(u \o w) = Len(u) + Len(w)
        /\ \A i \in 1 .. Len(u) + Len(w) : (u \o w)[i] = IF i <= Len(u) THEN u[i] ELSE w[i - Len(u)]
    BY <1>2, <1>3, ConcatProperties
  <2>3. DOMAIN r = 1 .. Len(s) - 1 /\ r \in Seq(S)
    BY <2>1, <2>2, <1>1, <1>2, <1>3, LenProperties
  <2>4. ASSUME NEW i \in 1 .. Len(s) - 1
        PROVE  r[i] = IF i < k THEN s[i] ELSE s[i + 1]
    <3>1. CASE i < k
      BY <3>1, <2>1, <2>2, <1>1, <1>2, <1>3
    <3>2. CASE ~(i < k)
      <4>1. i - (k - 1) \in 1 .. Len(s) - k /\ k + (i - (k - 1)) = i + 1
        BY <3>2, <1>1
      <4>2. w[i - (k - 1)] = s[i + 1]
        BY <4>1, <1>3
      <4>3. r[i] = w[i - (k - 1)]
        <5>1. Len(u) = k - 1 /\ Len(w) = Len(s) - k
          BY <1>2, <1>3
        <5> HIDE DEF u, w
        <5>2. i \in 1 .. Len(u) + Len(w) /\ ~(i <= Len(u))
          BY <5>1, <3>2, <1>1
        <5>3. (u \o w)[i] = w[i - Len(u)]
          BY <5>2, <2>2
        <5>4. QED
          BY <5>1, <5>3, <2>1
      <4>4. QED
        BY <4>2, <4>3, <3>2
    <3>3. QED
      BY <3>1, <3>2
  <2>5. QED
    BY <2>3, <2>4
<1>5. QED
  BY <1>1, <1>4

(* What is called from the middle of a line is no longer in it.            *)
LEMMA RemoveMember ==
  ASSUME NEW S, NEW s \in Seq(S), NEW k \in DOMAIN s, Unique(s, S)
  PROVE  /\ RemoveAt(s, k) \in Seq(S)
         /\ Range(RemoveAt(s, k)) = Range(s) \ {s[k]}
         /\ Unique(RemoveAt(s, k), S)
<1> DEFINE r == RemoveAt(s, k)
<1>1. /\ DOMAIN s = 1 .. Len(s) /\ Len(s) \in Nat /\ k \in 1 .. Len(s)
      /\ \A i \in 1 .. Len(s) : s[i] \in S
  BY LenProperties, ElementOfSeq
<1>2. /\ r \in Seq(S) /\ DOMAIN r = 1 .. Len(s) - 1
      /\ \A i \in 1 .. Len(s) - 1 : r[i] = IF i < k THEN s[i] ELSE s[i + 1]
  BY Removed
<1> HIDE DEF r
<1>3. ASSUME NEW x \in Range(s), x # s[k]
      PROVE  x \in Range(r)
  <2>1. PICK i \in 1 .. Len(s) : s[i] = x /\ i # k
    BY <1>1, <1>3 DEF Range
  <2>2. CASE i < k
    BY <2>1, <2>2, <1>1, <1>2 DEF Range
  <2>3. CASE i > k
    <3>1. i - 1 \in DOMAIN r /\ r[i - 1] = x
      BY <2>1, <2>3, <1>1, <1>2
    <3>2. QED
      BY <3>1 DEF Range
  <2>4. QED
    BY <2>1, <2>2, <2>3, <1>1
<1>4. ASSUME NEW i \in DOMAIN r
      PROVE  \E j \in 1 .. Len(s) : j # k /\ r[i] = s[j] /\ j = IF i < k THEN i ELSE i + 1
  BY <1>1, <1>2
<1>5. Range(r) \subseteq Range(s) \ {s[k]}
  BY <1>1, <1>4 DEF Range, Unique
<1>6. Range(r) = Range(s) \ {s[k]}
  BY <1>3, <1>5
<1>7. Unique(r, S)
  <2>1. SUFFICES ASSUME NEW i \in DOMAIN r, NEW j \in DOMAIN r, r[i] = r[j]
                 PROVE  i = j
    BY DEF Unique
  <2>2. PICK a \in 1 .. Len(s) : r[i] = s[a] /\ a = IF i < k THEN i ELSE i + 1
    BY <1>4
  <2>3. PICK b \in 1 .. Len(s) : r[j] = s[b] /\ b = IF j < k THEN j ELSE j + 1
    BY <1>4
  <2>4. a = b
    BY <2>1, <2>2, <2>3, <1>1 DEF Unique
  <2>5. QED
    BY <2>2, <2>3, <2>4, <1>1, <1>2
<1>8. QED
  BY <1>2, <1>6, <1>7 DEF r

LEMMA LeastNat ==
  ASSUME NEW T \in SUBSET Nat, T # {}
  PROVE  \E x \in T : \A y \in T : x <= y
<1> DEFINE R == {ss \in Nat \X Nat : ss[1] < ss[2]}
<1>1. IsWellFoundedOn(R, Nat)
  BY NatLessThanWellFounded DEF OpToRel
<1>2. \E x \in T : \A y \in T : <<y, x>> \notin R
  <2> HIDE DEF R
  <2> QED
    BY <1>1, WFMin
<1>3. PICK x \in T : \A y \in T : <<y, x>> \notin R
  BY <1>2
<1>4. \A y \in T : <<y, x>> \in R <=> y < x
  OBVIOUS
<1>5. \A y \in T : ~(y < x)
  BY <1>3, <1>4
<1>6. QED
  BY <1>5

LEMMA First ==
  ASSUME NEW c \in Class, TypeOK
  PROVE  /\ Seatable(c) \in 0 .. Len(line[c])
         /\ Seatable(c) > 0 => CanSit(line[c][Seatable(c)])
<1> DEFINE I == {i \in 1 .. Len(line[c]) : CanSit(line[c][i])}
<1>1. Seatable(c) = IF I # {} THEN CHOOSE x \in I : \A y \in I : x <= y ELSE 0
  BY DEF Seatable, SelectInSeq, Min
<1>2. Len(line[c]) \in Nat
  BY DEF TypeOK
<1>3. CASE I # {}
  <2>1. I \in SUBSET Nat
    BY <1>2
  <2>2. \E x \in I : \A y \in I : x <= y
    BY <2>1, <1>3, LeastNat
  <2>3. Seatable(c) \in I
    BY <2>2, <1>1, <1>3
  <2>4. QED
    BY <2>3, <1>2
<1>4. CASE I = {}
  BY <1>1, <1>2, <1>4
<1>5. QED
  BY <1>3, <1>4
(* A name put in front of another.                                         *)
LEMMA Prepended ==
  ASSUME NEW a, NEW b
  PROVE  <<a>> \o <<b>> = <<a, b>>
<1> DEFINE s == <<a>> \o <<b>>
<1>1. <<a>> \in Seq({a, b}) /\ <<b>> \in Seq({a, b}) /\ <<a, b>> \in Seq({a, b})
  OBVIOUS
<1>2. s \in Seq({a, b}) /\ Len(s) = 2
  BY <1>1, ConcatProperties
<1>3. s[1] = a
  BY <1>1, ConcatProperties
<1>4. s[2] = b
  BY <1>1, ConcatProperties
<1> HIDE DEF s
<1>5. Len(<<a, b>>) = Len(s) /\ \A i \in 1 .. Len(s) : s[i] = <<a, b>>[i]
  BY <1>2, <1>3, <1>4
<1>6. s = <<a, b>>
  BY <1>1, <1>2, <1>5, SeqEqual
<1>7. QED
  BY <1>6 DEF s

(* The returns of the service, put on its stack and taken off again.       *)
LEMMA Stacks ==
  /\ <<"seat">> \o <<"recv">> = <<"seat", "recv">>
  /\ <<"seat">> \o <<"admit">> = <<"seat", "admit">>
  /\ {<<"recv">>, <<"seat", "recv">>, <<"seat", "admit">>} \subseteq Seq({"recv", "admit", "seat"})
  /\ Head(<<"recv">>) = "recv" /\ Tail(<<"recv">>) = << >>
  /\ Head(<<"seat", "recv">>) = "seat" /\ Tail(<<"seat", "recv">>) = <<"recv">>
  /\ Head(<<"seat", "admit">>) = "seat" /\ Tail(<<"seat", "admit">>) = <<"admit">>
<1>1. <<"seat">> \o <<"recv">> = <<"seat", "recv">>
  BY Prepended
<1>2. <<"seat">> \o <<"admit">> = <<"seat", "admit">>
  BY Prepended
<1>3. <<"recv">> \in Seq({"recv", "admit", "seat"})
  OBVIOUS
<1>4. <<"seat", "recv">> \in Seq({"recv", "admit", "seat"})
  OBVIOUS
<1>5. <<"seat", "admit">> \in Seq({"recv", "admit", "seat"})
  OBVIOUS
<1>6. Head(<<"recv">>) = "recv" /\ Tail(<<"recv">>) = << >>
  OBVIOUS
<1>7. Head(<<"seat", "recv">>) = "seat"
  OBVIOUS
<1>8. Tail(<<"seat", "recv">>) = <<"recv">>
  OBVIOUS
<1>9. Head(<<"seat", "admit">>) = "seat"
  OBVIOUS
<1>10. Tail(<<"seat", "admit">>) = <<"admit">>
  OBVIOUS
<1> QED BY <1>1, <1>2, <1>3, <1>4, <1>5, <1>6, <1>7, <1>8, <1>9, <1>10
---------------------------------------------------------------------------
(* What the service holds in each of its places, and where it returns to.  *)
Asks  == [type : {"ASSIGN"}, group : Group]
Bills == [type : {"FINISHED"}, group : Group]

Control ==
  /\ service = "recv"  => request = None /\ stack = << >>
  /\ service = "gate"  => request \in Request \ Bills /\ stack = << >>
  /\ service = "admit" => request \in Asks /\ stack = << >>
  /\ service = "bill"  => request \in Bills /\ stack = << >>
  /\ service = "seat"  => \/ request = None /\ stack = <<"recv">>
                          \/ request \in Asks /\ stack = <<"admit">>
  /\ service = "reply" => \/ request = None /\ stack \in {<<"recv">>, <<"seat", "recv">>}
                          \/ request \in Asks /\ stack = <<"seat", "admit">>
  /\ service = "reply" <=> reply # None

(* The messages are of three kinds.                                        *)
LEMMA Messages ==
  /\ Asks \subseteq Request /\ Bills \subseteq Request
  /\ \A r \in Request : /\ r.type = "ASSIGN" <=> r \in Asks
                        /\ r.type = "FINISHED" <=> r \in Bills
                        /\ r \in Asks \cup Bills => r.group \in Group
  /\ Asks \cap Bills = {} /\ None \notin Request /\ None \notin Reply
  BY GuestsAssumption DEF Asks, Bills, Request

(* A table found for a group is one of the tables, and it fits.            *)
LEMMA TableFound ==
  ASSUME NEW g \in Group, CanSit(g)
  PROVE  TableFor(g) \in Table /\ Fits(g, TableFor(g))
<1> DEFINE T == {t \in Table : Fits(g, t)}
<1>1. T \in SUBSET Nat /\ T # {}
  BY HouseAssumption DEF CanSit, Table
<1>2. \E t \in T : \A u \in T : t <= u
  <2> HIDE DEF T
  <2> QED
    BY <1>1, LeastNat
<1>3. \E t \in Table : Fits(g, t) /\ \A u \in Table : Fits(g, u) => t <= u
  BY <1>2
<1>4. QED
  BY <1>3 DEF TableFor

(* The places of the semaphores and the classes.                           *)
LEMMA Names ==
  /\ \A c \in Class : QueueFree(c) \in Semaphore /\ QueueFree(c) # "CLIENT_FREE"
                      /\ QueueFree(c) # "SERVICE_FREE" /\ QueueFree(c) # "TABLES"
  /\ \A g \in Group : ClassOf(g) \in Class
  /\ {"CLIENT_FREE", "SERVICE_FREE", "TABLES"} \subseteq Semaphore
  BY DEF Class, QueueFree, Semaphore, ClassOf

(* What seating somebody does to the types and the places.                 *)
LEMMA SeatTypes ==
  ASSUME TypeOK, NEW g \in Group, NEW there \in Seq({"recv", "admit", "seat"}), Seat(g, there)
  PROVE  /\ sem' \in [Semaphore -> Nat] /\ slots' \in [Table -> SUBSET Group]
         /\ occupiedSeats' \in [Table -> Int] /\ guests' \in Int
         /\ reply' \in Reply /\ reply' # None /\ service' = "reply" /\ stack' = there
         /\ reply' = [to |-> g, table |-> TableFor(g)] /\ TableFor(g) \in Table
         /\ slots' = [slots EXCEPT ![TableFor(g)] = @ \cup {g}]
<1>1. TableFor(g) \in Table
  BY TableFound DEF Seat
<1>2. reply' \in Reply /\ reply' # None
  BY <1>1, GuestsAssumption DEF Seat, Reply
<1>3. Size[g] \in Nat
  BY GuestsAssumption
<1>4. sem' \in [Semaphore -> Nat]
  <2>1. sem \in [Semaphore -> Nat] /\ sem' = [sem EXCEPT ![QueueFree(ClassOf(g))] = @ + 1]
    BY DEF Seat, TypeOK
  <2>2. QED
    BY <2>1, Names
<1>5. occupiedSeats' \in [Table -> Int] /\ guests' \in Int
  <2>1. /\ occupiedSeats \in [Table -> Int] /\ guests \in Int
        /\ occupiedSeats' = [occupiedSeats EXCEPT ![TableFor(g)] = @ + Size[g]]
        /\ guests' = guests + Size[g]
    BY DEF Seat, TypeOK
  <2>2. QED
    BY <1>1, <1>3, <2>1
<1>6. /\ slots' \in [Table -> SUBSET Group] /\ service' = "reply" /\ stack' = there
      /\ reply' = [to |-> g, table |-> TableFor(g)]
      /\ slots' = [slots EXCEPT ![TableFor(g)] = @ \cup {g}]
  BY <1>1 DEF Seat, TypeOK
<1>7. QED
  BY <1>1, <1>2, <1>4, <1>5, <1>6

LEMMA StartTypes ==
  ASSUME NEW open \in BOOLEAN, Start(open)
  PROVE  TypeOK /\ Control
<1>1. sem \in [Semaphore -> Nat]
  BY HouseAssumption DEF Start, Semaphore
<1>2. inbox \in Seq(Request) /\ line \in [Class -> Seq(Group)]
      /\ stack \in Seq({"recv", "admit", "seat"})
  BY DEF Start
<1>3. /\ opened \in BOOLEAN /\ gateOpen \in BOOLEAN
  BY DEF Start
<1>4. /\ created \in Nat /\ client = "fork" /\ mail = {} /\ finished = 0 /\ guests = 0
      /\ service = "recv" /\ request = None /\ reply = None
  BY DEF Start
<1>5. /\ stage \in [Group -> {"unborn", "arriving", "asking", "waiting", "eating", "gone"}]
      /\ tableIndex \in [Group -> Table \cup {None}] /\ slots \in [Table -> SUBSET Group]
      /\ occupiedSeats \in [Table -> Int]
  BY DEF Start
<1>6. TypeOK
  BY <1>1, <1>2, <1>3, <1>4, <1>5 DEF TypeOK
<1>7. Control
  BY DEF Start, Control
<1>8. QED
  BY <1>6, <1>7

LEMMA StepTypes == TypeOK /\ Control /\ [Next]_vars => TypeOK' /\ Control'
<1> SUFFICES ASSUME TypeOK, Control, [Next]_vars PROVE TypeOK' /\ Control'
  OBVIOUS
<1> USE Names, Messages
<1>1. ASSUME NEW g \in Group, ClientFork(g) PROVE TypeOK' /\ Control'
  BY <1>1 DEF ClientFork, TypeOK, Control, house, servant
<1>2. ASSUME ClientCount PROVE TypeOK' /\ Control'
  BY <1>2 DEF ClientCount, TypeOK, Control, house, servant, groups
<1>3. ASSUME ClientWake PROVE TypeOK' /\ Control'
  <2>1. [type |-> "BARRIER", group |-> None] \in Request
    BY DEF Request
  <2>2. inbox' \in Seq(Request)
    BY <1>3, <2>1, AppendProperties DEF ClientWake, TypeOK
  <2>3. sem' \in [Semaphore -> Nat]
    BY <1>3 DEF ClientWake, TypeOK
  <2>4. QED
    BY <1>3, <2>2, <2>3 DEF ClientWake, TypeOK, Control, house, servant, groups
<1>4. ASSUME NEW g \in Group, GroupEnter(g) PROVE TypeOK' /\ Control'
  <2>1. sem' \in [Semaphore -> Nat]
    BY <1>4 DEF GroupEnter, TypeOK
  <2>2. QED
    BY <1>4, <2>1 DEF GroupEnter, TypeOK, Control, house, servant, staff
<1>5. ASSUME NEW g \in Group, GroupAsk(g) \/ GroupPay(g) PROVE TypeOK' /\ Control'
  <2>1. /\ [type |-> "ASSIGN", group |-> g] \in Request
        /\ [type |-> "FINISHED", group |-> g] \in Request
    BY DEF Request
  <2>2. inbox' \in Seq(Request)
    <3>1. CASE GroupAsk(g)
      BY <3>1, <2>1, AppendProperties DEF GroupAsk, TypeOK
    <3>2. CASE GroupPay(g)
      BY <3>2, <2>1, AppendProperties DEF GroupPay, TypeOK
    <3>3. QED
      BY <1>5, <3>1, <3>2
  <2>3. sem' \in [Semaphore -> Nat]
    <3>1. sem["CLIENT_FREE"] > 0 /\ sem' = [sem EXCEPT !["CLIENT_FREE"] = @ - 1]
      BY <1>5 DEF GroupAsk, GroupPay
    <3>2. QED
      BY <3>1 DEF TypeOK
  <2>4. /\ UNCHANGED <<tableIndex, mail, line, house, staff, servant>>
        /\ \E s \in {"waiting", "gone"} : stage' = [stage EXCEPT ![g] = s]
    BY <1>5 DEF GroupAsk, GroupPay
  <2>5. stage' \in [Group -> {"unborn", "arriving", "asking", "waiting", "eating", "gone"}]
    BY <2>4 DEF TypeOK
  <2>6. TypeOK'
    BY <2>2, <2>3, <2>4, <2>5 DEF TypeOK, house, servant, staff
  <2>7. Control'
    BY <2>4 DEF Control, servant
  <2>8. QED
    BY <2>6, <2>7
<1>6. ASSUME NEW g \in Group, GroupSit(g) PROVE TypeOK' /\ Control'
  <2>1. sem' \in [Semaphore -> Nat]
    BY <1>6 DEF GroupSit, TypeOK
  <2>2. tableIndex' \in [Group -> Table \cup {None}] /\ mail' \subseteq Reply
    BY <1>6 DEF GroupSit, TypeOK, Reply
  <2>3. QED
    BY <1>6, <2>1, <2>2 DEF GroupSit, TypeOK, Control, house, servant, staff
<1>7. ASSUME ServiceRecv PROVE TypeOK' /\ Control'
  <2>1. inbox' \in Seq(Request) /\ request' \in Request
    BY <1>7, HeadTailProperties DEF ServiceRecv, TypeOK
  <2>2. sem' \in [Semaphore -> Nat]
    BY <1>7 DEF ServiceRecv, TypeOK
  <2>3. TypeOK'
    BY <1>7, <2>1, <2>2 DEF ServiceRecv, TypeOK, house, staff, groups
  <2>4. Control'
    BY <1>7, <2>1 DEF ServiceRecv, Control
  <2>5. QED
    BY <2>3, <2>4
<1>8. ASSUME ServiceHold PROVE TypeOK' /\ Control'
  <2>1. line' \in [Class -> Seq(Group)]
    <3>1. CASE request.type = "ASSIGN"
      <4>1. request.group \in Group /\ ClassOf(request.group) \in Class
        BY <1>8, <3>1 DEF ServiceHold, Control
      <4>2. Append(line[ClassOf(request.group)], request.group) \in Seq(Group)
        BY <4>1, AppendProperties DEF TypeOK
      <4>3. QED
        BY <1>8, <3>1, <4>2 DEF ServiceHold, Push, TypeOK
    <3>2. CASE request.type # "ASSIGN"
      BY <1>8, <3>2 DEF ServiceHold, TypeOK
    <3>3. QED
      BY <3>1, <3>2
  <2>2. QED
    BY <1>8, <2>1 DEF ServiceHold, TypeOK, Control, house, staff, groups
<1>9. ASSUME ServiceOpenGate PROVE TypeOK' /\ Control'
  <2>1. request \in Request
    BY <1>9 DEF ServiceOpenGate, Control
  <2>2. QED
    BY <1>9, <2>1 DEF ServiceOpenGate, TypeOK, Control, house, staff, groups
<1>10. ASSUME ServicePassGate PROVE TypeOK' /\ Control'
  <2>1. request \in Request
    BY <1>10 DEF ServicePassGate, Control
  <2>2. QED
    BY <1>10, <2>1 DEF ServicePassGate, TypeOK, Control, house, staff, groups
<1>11. ASSUME ServiceQueue PROVE TypeOK' /\ Control'
  <2>1. line' \in [Class -> Seq(Group)]
    BY <1>11, AppendProperties DEF ServiceQueue, Push, TypeOK, Control
  <2>2. QED
    BY <1>11, <2>1 DEF ServiceQueue, TypeOK, Control, house, staff, groups
<1>12. ASSUME ServiceSeatNow PROVE TypeOK' /\ Control'
  <2> DEFINE there == IF gateOpen THEN <<"seat", "recv">> ELSE <<"recv">>
  <2>1. there \in Seq({"recv", "admit", "seat"}) /\ request.group \in Group
    <3>1. request.group \in Group
      BY <1>12 DEF ServiceSeatNow, Control
    <3>2. QED
      BY <3>1, Stacks
  <2>2. Seat(request.group, there)
    BY <1>12 DEF ServiceSeatNow
  <2> HIDE DEF there
  <2>3. /\ sem' \in [Semaphore -> Nat] /\ slots' \in [Table -> SUBSET Group]
        /\ occupiedSeats' \in [Table -> Int] /\ guests' \in Int
        /\ reply' \in Reply /\ reply' # None /\ service' = "reply" /\ stack' = there
    BY <2>1, <2>2, SeatTypes
  <2>4. QED
    BY <1>12, <2>1, <2>3 DEF ServiceSeatNow, TypeOK, Control, staff, groups, there
<1>13. ASSUME NEW c \in Class, ServiceSeatWaiting(c) PROVE TypeOK' /\ Control'
  <2> DEFINE i == Seatable(c)
             there == <<"seat">> \o stack
  <2>1. i \in DOMAIN line[c] /\ line[c] \in Seq(Group)
    <3>1. line[c] \in Seq(Group)
      BY DEF TypeOK
    <3>2. i \in 0 .. Len(line[c]) /\ i > 0
      BY <1>13, First DEF ServiceSeatWaiting
    <3>3. i \in 1 .. Len(line[c])
      <4> HIDE DEF i
      <4> QED
        BY <3>1, <3>2, LenProperties
    <3>4. QED
      BY <3>1, <3>3, LenProperties
  <2>2. line[c][i] \in Group
    BY <2>1, ElementOfSeq, LenProperties
  <2>3. there \in {<<"seat", "recv">>, <<"seat", "admit">>}
    BY <1>13, Stacks DEF ServiceSeatWaiting, Control
  <2>4. there \in Seq({"recv", "admit", "seat"})
    BY <2>3, Stacks
  <2>5. Seat(line[c][i], there)
    BY <1>13 DEF ServiceSeatWaiting
  <2>6. RemoveAt(line[c], i) \in Seq(Group)
    <3>1. i \in 1 .. Len(line[c]) /\ \A j \in 1 .. Len(line[c]) : line[c][j] \in Group
      BY <2>1, ElementOfSeq, LenProperties
    <3>2. SubSeq(line[c], 1, i - 1) \in Seq(Group) /\ SubSeq(line[c], i + 1, Len(line[c])) \in Seq(Group)
      BY <3>1, SubSeqProperties, LenProperties, <2>1
    <3>3. QED
      BY <3>2, ConcatProperties DEF RemoveAt
  <2>7. /\ sem' \in [Semaphore -> Nat] /\ slots' \in [Table -> SUBSET Group]
        /\ occupiedSeats' \in [Table -> Int] /\ guests' \in Int
        /\ reply' \in Reply /\ reply' # None /\ service' = "reply" /\ stack' = there
    <3> HIDE DEF there, i
    <3> QED
      BY <2>2, <2>4, <2>5, SeatTypes
  <2>8. line' \in [Class -> Seq(Group)]
    BY <1>13, <2>6 DEF ServiceSeatWaiting, TypeOK
  <2>9. TypeOK'
    BY <1>13, <2>4, <2>7, <2>8 DEF ServiceSeatWaiting, TypeOK, staff, groups
  <2>10. Control'
    <3>1. \/ request = None /\ there = <<"seat", "recv">>
          \/ request \in Asks /\ there = <<"seat", "admit">>
      BY <1>13, Stacks DEF ServiceSeatWaiting, Control
    <3>2. UNCHANGED request /\ service' = "reply" /\ stack' = there /\ reply' # None
      BY <1>13, <2>7 DEF ServiceSeatWaiting
    <3> HIDE DEF there
    <3>3. QED
      BY <3>1, <3>2 DEF Control
  <2>11. QED
    BY <2>9, <2>10
<1>14. ASSUME ServiceSeatNobody PROVE TypeOK' /\ Control'
  <2>1. service' \in {"recv", "admit"} /\ stack' = << >> /\ service' = stack[1]
    BY <1>14 DEF ServiceSeatNobody, Control
  <2>2. QED
    BY <1>14, <2>1 DEF ServiceSeatNobody, TypeOK, Control, house, staff, groups
<1>15. ASSUME ServiceReply PROVE TypeOK' /\ Control'
  <2>1. sem' \in [Semaphore -> Nat] /\ mail' \subseteq Reply
    BY <1>15 DEF ServiceReply, TypeOK, Control
  <2>2. \/ stack = <<"recv">> /\ service' = "recv" /\ stack' = << >>
        \/ stack = <<"seat", "recv">> /\ service' = "seat" /\ stack' = <<"recv">>
        \/ stack = <<"seat", "admit">> /\ service' = "seat" /\ stack' = <<"admit">>
    BY <1>15, Stacks DEF ServiceReply, Control
  <2>3. QED
    BY <1>15, <2>1, <2>2 DEF ServiceReply, TypeOK, Control, house, staff, groups
<1>16. ASSUME ServiceBill PROVE TypeOK' /\ Control'
  <2>1. request.group \in Group /\ Size[request.group] \in Nat
    BY <1>16, GuestsAssumption DEF ServiceBill, Control
  <2>2. PICK t \in Table :
          /\ slots' = [slots EXCEPT ![t] = @ \ {request.group}]
          /\ occupiedSeats' = [occupiedSeats EXCEPT ![t] = @ - Size[request.group]]
          /\ sem' = [sem EXCEPT !["TABLES"] = IF occupiedSeats'[t] = 0 THEN @ + 1 ELSE @]
    BY <1>16 DEF ServiceBill
  <2>3. sem' \in [Semaphore -> Nat] /\ slots' \in [Table -> SUBSET Group]
    BY <2>2 DEF TypeOK
  <2>4. occupiedSeats' \in [Table -> Int] /\ guests' \in Int
    <3>1. occupiedSeats \in [Table -> Int] /\ guests \in Int
      BY DEF TypeOK
    <3>2. guests' = guests - Size[request.group]
      BY <1>16 DEF ServiceBill
    <3>3. occupiedSeats[t] - Size[request.group] \in Int
      BY <2>1, <3>1
    <3>4. QED
      BY <2>1, <2>2, <3>1, <3>2, <3>3
  <2>5. /\ UNCHANGED <<staff, groups, inbox, mail, line, gateOpen, reply>>
        /\ finished' = finished + 1 /\ request' = None
        /\ service = "bill" /\ service' = "seat" /\ stack' = <<"recv">>
    BY <1>16 DEF ServiceBill
  <2>6. TypeOK'
    BY <2>3, <2>4, <2>5, Stacks DEF TypeOK, staff, groups
  <2>7. Control'
    BY <2>5 DEF Control
  <2>8. QED
    BY <2>6, <2>7
<1>17. ASSUME UNCHANGED vars PROVE TypeOK' /\ Control'
  BY <1>17 DEF vars, TypeOK, Control, house, servant, staff, groups
<1>18. QED
  BY <1>1, <1>2, <1>3, <1>4, <1>5, <1>6, <1>7, <1>8, <1>9, <1>10, <1>11, <1>12,
     <1>13, <1>14, <1>15, <1>16, <1>17 DEF Next, GroupStep, ServiceStep, Quiet

---------------------------------------------------------------------------
(* Where the groups are, seen as sets.                                     *)
Message(type, g) == [type |-> type, group |-> g]
Asked    == {g \in Group : Message("ASSIGN", g) \in Range(inbox)}
Billed   == {g \in Group : Message("FINISHED", g) \in Range(inbox)}
Queued   == {g \in Group : g \in Range(line[ClassOf(g)])}
AtDoor   == InHand("ASSIGN")
Paying   == InHand("FINISHED")
Seated   == {g \in Group : TablesOf(g) # {}}

NoDuplicates ==
  /\ Unique(inbox, Asks \cup Bills)
  /\ \A c \in Class : Unique(line[c], Group) /\ \A g \in Range(line[c]) : ClassOf(g) = c

(* A group that has asked is in one place, and its bill comes from a table. *)
Places ==
  /\ \A g \in Group : \A t, u \in TablesOf(g) : t = u
  /\ Asked \cap (AtDoor \cup Queued \cup Seated) = {}
  /\ AtDoor \cap (Queued \cup Seated) = {}
  /\ Queued \cap Seated = {}
  /\ \A g \in Group :
       /\ stage[g] \in {"unborn", "arriving", "asking"} => g \notin Asked \cup AtDoor \cup Queued \cup Seated
       /\ stage[g] = "waiting" => g \in Asked \cup AtDoor \cup Queued \cup Seated
       /\ stage[g] = "eating"  => g \in Seated
       /\ stage[g] = "gone"    => /\ g \notin Asked \cup AtDoor \cup Queued
                                  /\ g \in Seated <=> g \in Billed \cup Paying
       /\ g \in Billed \cup Paying => stage[g] = "gone"
  /\ Billed \cap Paying = {}

(* The answer in hand is not yet sent.                                     *)
Answers == AnswersAreTrue /\ reply \notin mail

(* What the steps do to the queue of requests.                             *)
LEMMA Asking ==
  ASSUME TypeOK, NoDuplicates, NEW g \in Group, g \notin Asked,
         inbox' = Append(inbox, Message("ASSIGN", g))
  PROVE  Asked' = Asked \cup {g} /\ Billed' = Billed /\ Unique(inbox, Asks \cup Bills)'
<1> DEFINE m == Message("ASSIGN", g)
<1>1. m \in Request /\ m \notin Range(inbox)
  BY DEF Message, Request, Asked
<1>2. /\ Range(inbox') = Range(inbox) \cup {m}
      /\ Unique(inbox', Asks \cup Bills)
  <2> HIDE DEF m
  <2> QED
    BY <1>1, AppendMember DEF TypeOK, NoDuplicates, m
<1>3. \A h \in Group : /\ Message("ASSIGN", h) = m <=> h = g
                       /\ Message("FINISHED", h) # m
  BY DEF Message
<1>4. Asked' = Asked \cup {g} /\ Billed' = Billed
  <2> HIDE DEF m
  <2> QED
    BY <1>2, <1>3 DEF Asked, Billed
<1>5. QED
  BY <1>2, <1>4

LEMMA Billing ==
  ASSUME TypeOK, NoDuplicates, NEW g \in Group, g \notin Billed,
         inbox' = Append(inbox, Message("FINISHED", g))
  PROVE  Asked' = Asked /\ Billed' = Billed \cup {g} /\ Unique(inbox, Asks \cup Bills)'
<1> DEFINE m == Message("FINISHED", g)
<1>1. m \in Request /\ m \notin Range(inbox)
  BY DEF Message, Request, Billed
<1>2. /\ Range(inbox') = Range(inbox) \cup {m}
      /\ Unique(inbox', Asks \cup Bills)
  <2> HIDE DEF m
  <2> QED
    BY <1>1, AppendMember DEF TypeOK, NoDuplicates, m
<1>3. \A h \in Group : /\ Message("FINISHED", h) = m <=> h = g
                       /\ Message("ASSIGN", h) # m
  BY DEF Message
<1>4. Billed' = Billed \cup {g} /\ Asked' = Asked
  <2> HIDE DEF m
  <2> QED
    BY <1>2, <1>3 DEF Asked, Billed
<1>5. QED
  BY <1>2, <1>4

LEMMA Waking ==
  ASSUME TypeOK, NoDuplicates, inbox' = Append(inbox, Message("BARRIER", None))
  PROVE  Asked' = Asked /\ Billed' = Billed /\ Unique(inbox, Asks \cup Bills)'
<1> DEFINE m == Message("BARRIER", None)
<1>1. m \in Request /\ m \notin Asks \cup Bills
  BY DEF Message, Request, Asks, Bills
<1>2. /\ Range(inbox') = Range(inbox) \cup {m}
      /\ Unique(inbox', Asks \cup Bills)
  <2> HIDE DEF m
  <2> QED
    BY <1>1, AppendMember DEF TypeOK, NoDuplicates, m
<1>3. \A h \in Group : Message("FINISHED", h) # m /\ Message("ASSIGN", h) # m
  BY DEF Message
<1>4. Billed' = Billed /\ Asked' = Asked
  <2> HIDE DEF m
  <2> QED
    BY <1>2, <1>3 DEF Asked, Billed
<1>5. QED
  BY <1>2, <1>4

LEMMA Taking ==
  ASSUME TypeOK, NoDuplicates, inbox # << >>, request' = Head(inbox), inbox' = Tail(inbox)
  PROVE  /\ Asked' = Asked \ AtDoor' /\ AtDoor' \subseteq Asked
         /\ Billed' = Billed \ Paying' /\ Paying' \subseteq Billed
         /\ Unique(inbox, Asks \cup Bills)'
<1>1. /\ Range(inbox) = Range(inbox') \cup {request'}
      /\ request' \in Asks \cup Bills => request' \notin Range(inbox')
      /\ Unique(inbox', Asks \cup Bills)
  BY TailMember DEF TypeOK, NoDuplicates
<1>2. \A h \in Group : Message("ASSIGN", h) \in Asks /\ Message("FINISHED", h) \in Bills
  BY DEF Message, Asks, Bills
<1>3. /\ AtDoor' = {h \in Group : request' = Message("ASSIGN", h)}
      /\ Paying' = {h \in Group : request' = Message("FINISHED", h)}
  BY DEF AtDoor, Paying, InHand, Message
<1>4. Asked' = Asked \ AtDoor' /\ AtDoor' \subseteq Asked
  BY <1>1, <1>2, <1>3 DEF Asked
<1>5. Billed' = Billed \ Paying' /\ Paying' \subseteq Billed
  BY <1>1, <1>2, <1>3 DEF Billed
<1>6. QED
  BY <1>1, <1>4, <1>5

(* What the service has in hand.                                           *)
LEMMA Hands ==
  /\ request = None => AtDoor = {} /\ Paying = {}
  /\ request \in Asks => AtDoor = {request.group} /\ Paying = {} /\ request.group \in Group
  /\ request \in Bills => AtDoor = {} /\ Paying = {request.group} /\ request.group \in Group
  /\ request \in Request \ Bills /\ request.type # "ASSIGN" => AtDoor = {} /\ Paying = {}
<1>1. \A h \in Group : Message("ASSIGN", h) \in Asks /\ Message("FINISHED", h) \in Bills
  BY DEF Message, Asks, Bills
<1>2. /\ AtDoor = {h \in Group : request = Message("ASSIGN", h)}
      /\ Paying = {h \in Group : request = Message("FINISHED", h)}
  BY DEF AtDoor, Paying, InHand, Message
<1>3. request = None => AtDoor = {} /\ Paying = {}
  BY <1>1, <1>2, Messages
<1>4. request \in Asks => /\ request = Message("ASSIGN", request.group) /\ request.group \in Group
                          /\ \A h \in Group : /\ request = Message("ASSIGN", h) <=> h = request.group
                                              /\ request # Message("FINISHED", h)
  BY DEF Asks, Message
<1>5. request \in Bills => /\ request = Message("FINISHED", request.group) /\ request.group \in Group
                           /\ \A h \in Group : /\ request = Message("FINISHED", h) <=> h = request.group
                                               /\ request # Message("ASSIGN", h)
  BY DEF Bills, Message
<1>6. request \in Request \ Bills /\ request.type # "ASSIGN" => AtDoor = {} /\ Paying = {}
  BY <1>1, <1>2, Messages
<1>7. QED
  BY <1>2, <1>3, <1>4, <1>5, <1>6

(* What the steps do to the lines.                                         *)
LEMMA Queueing ==
  ASSUME TypeOK, NoDuplicates, NEW g \in Group, g \notin Queued, Push(g)
  PROVE  /\ Queued' = Queued \cup {g}
         /\ \A c \in Class : /\ Unique(line'[c], Group)
                             /\ \A h \in Range(line'[c]) : ClassOf(h) = c
<1> DEFINE k == ClassOf(g)
<1>1. k \in Class /\ line[k] \in Seq(Group) /\ Unique(line[k], Group)
  BY Names DEF TypeOK, NoDuplicates
<1>2. g \notin Range(line[k])
  BY DEF Queued
<1>3. Range(Append(line[k], g)) = Range(line[k]) \cup {g} /\ Unique(Append(line[k], g), Group)
  <2> HIDE DEF k
  <2> QED
    BY <1>1, <1>2, AppendMember
<1>4. \A c \in Class : line'[c] = IF c = k THEN Append(line[k], g) ELSE line[c]
  BY <1>1 DEF Push, TypeOK
<1>5. \A h \in Group : ClassOf(h) \in Class
  BY Names
<1>6. Queued' = Queued \cup {g}
  BY <1>3, <1>4, <1>5 DEF Queued
<1>7. QED
  BY <1>3, <1>4, <1>6 DEF NoDuplicates

LEMMA Calling ==
  ASSUME TypeOK, NoDuplicates, NEW c \in Class, NEW i \in DOMAIN line[c],
         line' = [line EXCEPT ![c] = RemoveAt(@, i)]
  PROVE  /\ line[c][i] \in Queued /\ ClassOf(line[c][i]) = c /\ line[c][i] \in Group
         /\ Queued' = Queued \ {line[c][i]}
         /\ \A k \in Class : /\ Unique(line'[k], Group)
                             /\ \A h \in Range(line'[k]) : ClassOf(h) = k
<1> DEFINE g == line[c][i]
<1>1. line[c] \in Seq(Group) /\ Unique(line[c], Group)
  BY DEF TypeOK, NoDuplicates
<1>2. g \in Group /\ g \in Range(line[c])
  BY <1>1, ElementOfSeq, LenProperties DEF Range
<1>3. ClassOf(g) = c /\ g \in Queued
  BY <1>2 DEF NoDuplicates, Queued
<1>4. Range(RemoveAt(line[c], i)) = Range(line[c]) \ {g} /\ Unique(RemoveAt(line[c], i), Group)
  BY <1>1, RemoveMember
<1>5. \A k \in Class : line'[k] = IF k = c THEN RemoveAt(line[c], i) ELSE line[k]
  BY DEF TypeOK
<1> HIDE DEF g
<1>6. \A h \in Group : ClassOf(h) \in Class
  BY Names
<1>7. Queued' = Queued \ {g}
  <2>1. \A h \in Group : h \in Range(line'[ClassOf(h)]) <=> h \in Range(line[ClassOf(h)]) /\ h # g
    BY <1>3, <1>4, <1>5, <1>6
  <2>2. QED
    BY <2>1 DEF Queued
<1>8. \A k \in Class : /\ Unique(line'[k], Group)
                       /\ \A h \in Range(line'[k]) : ClassOf(h) = k
  BY <1>4, <1>5 DEF NoDuplicates
<1>9. QED
  BY <1>2, <1>3, <1>7, <1>8 DEF g

(* What the steps do to the tables.                                        *)
LEMMA Sitting ==
  ASSUME TypeOK, NEW g \in Group, NEW t \in Table, slots' = [slots EXCEPT ![t] = @ \cup {g}]
  PROVE  /\ \A h \in Group : TablesOf(h)' = IF h = g THEN TablesOf(g) \cup {t} ELSE TablesOf(h)
         /\ Seated' = Seated \cup {g}
<1>1. \A h \in Group : TablesOf(h)' = IF h = g THEN TablesOf(g) \cup {t} ELSE TablesOf(h)
  BY DEF TablesOf, TypeOK
<1>2. Seated' = {h \in Group : TablesOf(h)' # {}}
  BY DEF Seated
<1>3. QED
  BY <1>1, <1>2 DEF Seated

LEMMA Rising ==
  ASSUME TypeOK, Places, NEW g \in Group, NEW t \in Table, g \in slots[t],
         slots' = [slots EXCEPT ![t] = @ \ {g}]
  PROVE  /\ \A h \in Group : TablesOf(h)' = IF h = g THEN {} ELSE TablesOf(h)
         /\ Seated' = Seated \ {g} /\ g \in Seated
<1>1. TablesOf(g) = {t}
  BY DEF Places, TablesOf
<1>2. \A h \in Group : TablesOf(h)' = IF h = g THEN TablesOf(g) \ {t} ELSE TablesOf(h)
  BY DEF TablesOf, TypeOK
<1>3. Seated' = {h \in Group : TablesOf(h)' # {}}
  BY DEF Seated
<1>4. QED
  BY <1>1, <1>2, <1>3 DEF Seated

(* What stays where nobody moves.                                          *)
LEMMA Kept ==
  /\ UNCHANGED inbox => Asked' = Asked /\ Billed' = Billed
  /\ UNCHANGED request => AtDoor' = AtDoor /\ Paying' = Paying
  /\ UNCHANGED line => Queued' = Queued
  /\ UNCHANGED slots => Seated' = Seated /\ \A h \in Group : TablesOf(h)' = TablesOf(h)
  BY DEF Asked, Billed, AtDoor, Paying, InHand, Queued, Seated, TablesOf

(* The answers to a group that is told nothing, sits nowhere new and does  *)
(* not change its mind.                                                    *)
LEMMA Told ==
  ASSUME Answers, UNCHANGED <<mail, reply, tableIndex>>,
         \A h \in Group : TablesOf(h)' = TablesOf(h),
         \A h \in Group : \/ stage'[h] = stage[h]
                          \/ stage[h] # "waiting" /\ stage'[h] \notin {"waiting", "eating"}
                          \/ stage[h] # "waiting" /\ stage'[h] = "waiting" /\ TablesOf(h) = {}
  PROVE  Answers'
<1>1. \A h \in Group : AnswersTo(h)' = AnswersTo(h)
  BY DEF AnswersTo
<1>2. reply' \notin mail'
  BY DEF Answers
<1>3. ASSUME NEW h \in Group
      PROVE  /\ AnswersTo(h)' = IF stage'[h] = "waiting"
                                 THEN {[to |-> h, table |-> t] : t \in TablesOf(h)'} ELSE {}
             /\ stage'[h] = "eating" => TablesOf(h)' = {tableIndex'[h]}
  <2>1. /\ AnswersTo(h) = IF stage[h] = "waiting"
                           THEN {[to |-> h, table |-> t] : t \in TablesOf(h)} ELSE {}
        /\ stage[h] = "eating" => TablesOf(h) = {tableIndex[h]}
    BY DEF Answers, AnswersAreTrue
  <2>2. TablesOf(h)' = TablesOf(h) /\ AnswersTo(h)' = AnswersTo(h)
    BY <1>1
  <2>3. CASE stage'[h] = stage[h]
    BY <2>1, <2>2, <2>3
  <2>4. CASE stage[h] # "waiting" /\ stage'[h] \notin {"waiting", "eating"}
    BY <2>1, <2>2, <2>4
  <2>5. CASE stage[h] # "waiting" /\ stage'[h] = "waiting" /\ TablesOf(h) = {}
    <3>1. {[to |-> h, table |-> t] : t \in TablesOf(h)'} = {}
      BY <2>2, <2>5
    <3>2. QED
      BY <2>1, <2>2, <2>5, <3>1
  <2>6. QED
    BY <2>3, <2>4, <2>5
<1>4. QED
  BY <1>2, <1>3 DEF Answers, AnswersAreTrue

(* A group that is given a table while it waits is told so.                *)
LEMMA Told1 ==
  ASSUME TypeOK, Answers, NEW g \in Group, NEW t \in Table,
         stage[g] = "waiting", TablesOf(g) = {}, TablesOf(g)' = {t},
         \A h \in Group : h # g => TablesOf(h)' = TablesOf(h),
         UNCHANGED <<mail, stage, tableIndex>>, reply = None, reply' = [to |-> g, table |-> t]
  PROVE  Answers'
<1>1. AnswersTo(g) = {}
  <2>1. {[to |-> g, table |-> u] : u \in TablesOf(g)} = {}
    OBVIOUS
  <2>2. QED
    BY <2>1 DEF Answers, AnswersAreTrue
<1>2. reply' \in Reply /\ reply' # None
  BY GuestsAssumption DEF Reply
<1>3. \A h \in Group : AnswersTo(h)' = AnswersTo(h) \cup {m \in {reply'} : m.to = h}
  BY <1>2 DEF AnswersTo
<1>4. AnswersTo(g)' = {[to |-> g, table |-> u] : u \in TablesOf(g)'}
  BY <1>1, <1>3
<1>5. \A h \in Group : h # g => AnswersTo(h)' = AnswersTo(h)
  <2>1. \A h \in Group : h # g => {m \in {reply'} : m.to = h} = {}
    OBVIOUS
  <2>2. QED
    BY <1>3, <2>1
<1>6. reply' \notin mail'
  BY <1>1 DEF AnswersTo
<1>7. AnswersAreTrue'
  <2>1. SUFFICES ASSUME NEW h \in Group
                 PROVE  /\ AnswersTo(h)' = IF stage'[h] = "waiting"
                                 THEN {[to |-> h, table |-> u] : u \in TablesOf(h)'} ELSE {}
                        /\ stage'[h] = "eating" => TablesOf(h)' = {tableIndex'[h]}
    BY DEF AnswersAreTrue
  <2>2. CASE h = g
    BY <2>2, <1>4
  <2>3. CASE h # g
    BY <2>3, <1>5 DEF Answers, AnswersAreTrue
  <2>4. QED
    BY <2>2, <2>3
<1>8. QED
  BY <1>6, <1>7 DEF Answers

LEMMA Hands1 == request' = None => AtDoor' = {} /\ Paying' = {}
<1>1. \A h \in Group : /\ [type |-> "ASSIGN", group |-> h] \in Request
                      /\ [type |-> "FINISHED", group |-> h] \in Request
  BY DEF Request
<1>2. QED
  BY <1>1, Messages DEF AtDoor, Paying, InHand

LEMMA StartPlaces ==
  ASSUME NEW open \in BOOLEAN, Start(open)
  PROVE  NoDuplicates /\ Places /\ Answers
<1>1. /\ inbox = << >> /\ mail = {} /\ reply = None /\ request = None
      /\ line = [c \in Class |-> << >>] /\ slots = [t \in Table |-> {}]
      /\ stage = [g \in Group |-> "unborn"]
  BY DEF Start
<1>2. NoDuplicates
  BY <1>1 DEF NoDuplicates, Unique, Range
<1>3. Asked = {} /\ Billed = {} /\ Queued = {} /\ AtDoor = {} /\ Paying = {}
  <2>1. Asked = {} /\ Billed = {}
    BY <1>1 DEF Asked, Billed, Range
  <2>2. Queued = {}
    BY <1>1, Names DEF Queued, Range
  <2>3. QED
    BY <2>1, <2>2, <1>1, Hands
<1>4. Seated = {} /\ \A g \in Group : TablesOf(g) = {}
  BY <1>1 DEF Seated, TablesOf
<1>5. Places
  BY <1>1, <1>3, <1>4 DEF Places
<1>6. Answers
  BY <1>1, <1>4 DEF Answers, AnswersAreTrue, AnswersTo
<1>7. QED
  BY <1>2, <1>5, <1>6

(* Every step leaves everybody in one place and the answers true.          *)
LEMMA StepPlaces ==
  TypeOK /\ Control /\ NoDuplicates /\ Places /\ Answers /\ [Next]_vars
    => NoDuplicates' /\ Places' /\ Answers'
<1> SUFFICES ASSUME TypeOK, Control, NoDuplicates, Places, Answers, [Next]_vars
             PROVE  NoDuplicates' /\ Places' /\ Answers'
  OBVIOUS
<1> USE Kept
<1>1. ASSUME NEW g \in Group, ClientFork(g) \/ GroupEnter(g)
      PROVE  NoDuplicates' /\ Places' /\ Answers'
  <2>1. /\ UNCHANGED <<inbox, line, slots, mail, reply, request, tableIndex>>
        /\ stage[g] \in {"unborn", "arriving"}
        /\ stage' = [stage EXCEPT ![g] = IF stage[g] = "unborn" THEN "arriving" ELSE "asking"]
    BY <1>1 DEF ClientFork, GroupEnter, house, servant
  <2>2. \A h \in Group : \/ stage'[h] = stage[h]
                         \/ h = g /\ stage'[h] \in {"arriving", "asking"}
    BY <2>1 DEF TypeOK
  <2>3. Answers'
    BY <2>1, <2>2, Told
  <2>4. NoDuplicates'
    BY <2>1 DEF NoDuplicates
  <2>5. Places'
    BY <2>1, <2>2 DEF Places
  <2>6. QED
    BY <2>3, <2>4, <2>5
<1>2. ASSUME ClientCount \/ UNCHANGED vars PROVE NoDuplicates' /\ Places' /\ Answers'
  <2>1. UNCHANGED <<inbox, line, slots, mail, reply, request, tableIndex, stage>>
    BY <1>2 DEF ClientCount, vars, house, servant, groups
  <2>2. Answers'
    BY <2>1, Told
  <2>3. NoDuplicates' /\ Places'
    BY <2>1 DEF NoDuplicates, Places
  <2>4. QED
    BY <2>2, <2>3
<1>3. ASSUME ClientWake PROVE NoDuplicates' /\ Places' /\ Answers'
  <2>1. /\ UNCHANGED <<line, slots, mail, reply, request, tableIndex, stage>>
        /\ inbox' = Append(inbox, Message("BARRIER", None))
    BY <1>3 DEF ClientWake, house, servant, groups, Message
  <2>2. Answers'
    BY <2>1, Told
  <2>3. Asked' = Asked /\ Billed' = Billed /\ Unique(inbox, Asks \cup Bills)'
    BY <2>1, Waking
  <2>4. NoDuplicates' /\ Places'
    BY <2>1, <2>3 DEF NoDuplicates, Places, Unique, Asks, Bills
  <2>5. QED
    BY <2>2, <2>4
<1>4. ASSUME NEW g \in Group, GroupAsk(g) PROVE NoDuplicates' /\ Places' /\ Answers'
  <2>1. /\ UNCHANGED <<line, slots, mail, reply, request, tableIndex>>
        /\ inbox' = Append(inbox, Message("ASSIGN", g)) /\ stage[g] = "asking"
        /\ \A h \in Group : stage'[h] = IF h = g THEN "waiting" ELSE stage[h]
    BY <1>4 DEF GroupAsk, house, servant, staff, Message, TypeOK
  <2>2. g \notin Asked \cup AtDoor \cup Queued \cup Seated
    BY <2>1 DEF Places
  <2>3. Asked' = Asked \cup {g} /\ Billed' = Billed /\ Unique(inbox, Asks \cup Bills)'
    BY <2>1, <2>2, Asking
  <2>4. Answers'
    <3>1. TablesOf(g) = {}
      BY <2>2 DEF Seated
    <3>2. QED
      BY <2>1, <3>1, Told
  <2>5. NoDuplicates'
    BY <2>1, <2>3 DEF NoDuplicates, Unique, Asks, Bills
  <2>6. Places'
    BY <2>1, <2>2, <2>3 DEF Places
  <2>7. QED
    BY <2>4, <2>5, <2>6
<1>5. ASSUME NEW g \in Group, GroupSit(g) PROVE NoDuplicates' /\ Places' /\ Answers'
  <2>1. /\ UNCHANGED <<inbox, line, slots, reply, request>> /\ stage[g] = "waiting"
        /\ \A h \in Group : stage'[h] = IF h = g THEN "eating" ELSE stage[h]
    BY <1>5 DEF GroupSit, house, servant, staff, TypeOK
  <2>2. PICK m \in mail : /\ m.to = g /\ mail' = mail \ {m}
                          /\ tableIndex' = [tableIndex EXCEPT ![g] = m.table]
    BY <1>5 DEF GroupSit
  <2>3. m \in AnswersTo(g) /\ AnswersTo(g) = {[to |-> g, table |-> t] : t \in TablesOf(g)}
    BY <2>1, <2>2 DEF AnswersTo, Answers, AnswersAreTrue
  <2>4. PICK t \in TablesOf(g) : m = [to |-> g, table |-> t]
    BY <2>3
  <2>5. TablesOf(g) = {t} /\ g \in Seated
    BY <2>4 DEF Places, Seated
  <2>6. AnswersTo(g) = {m}
    BY <2>3, <2>4, <2>5
  <2>7. \A h \in Group : AnswersTo(h)' = IF h = g THEN {} ELSE AnswersTo(h)
    <3>1. m \notin {reply} /\ \A h \in Group : AnswersTo(h)' = AnswersTo(h) \ {m}
      BY <2>1, <2>2 DEF AnswersTo, Answers
    <3>2. \A h \in Group : h # g => m \notin AnswersTo(h)
      BY <2>2 DEF AnswersTo
    <3>3. QED
      BY <2>6, <3>1, <3>2
  <2>8. \A h \in Group : tableIndex'[h] = IF h = g THEN t ELSE tableIndex[h]
    BY <2>2, <2>4 DEF TypeOK
  <2>9. Answers'
    <3>1. reply' \notin mail'
      BY <2>1, <2>2 DEF Answers
    <3>2. ASSUME NEW h \in Group
          PROVE  /\ AnswersTo(h)' = IF stage'[h] = "waiting"
                                 THEN {[to |-> h, table |-> u] : u \in TablesOf(h)'} ELSE {}
                 /\ stage'[h] = "eating" => TablesOf(h)' = {tableIndex'[h]}
      <4>1. CASE h = g
        BY <4>1, <2>1, <2>5, <2>7, <2>8
      <4>2. CASE h # g
        BY <4>2, <2>1, <2>7, <2>8 DEF Answers, AnswersAreTrue
      <4>3. QED
        BY <4>1, <4>2
    <3>3. QED
      BY <3>1, <3>2 DEF Answers, AnswersAreTrue
  <2>10. NoDuplicates'
    BY <2>1 DEF NoDuplicates
  <2>11. Places'
    BY <2>1, <2>5 DEF Places
  <2>12. QED
    BY <2>9, <2>10, <2>11
<1>6. ASSUME NEW g \in Group, GroupPay(g) PROVE NoDuplicates' /\ Places' /\ Answers'
  <2>1. /\ UNCHANGED <<line, slots, mail, reply, request, tableIndex>>
        /\ inbox' = Append(inbox, Message("FINISHED", g)) /\ stage[g] = "eating"
        /\ \A h \in Group : stage'[h] = IF h = g THEN "gone" ELSE stage[h]
    BY <1>6 DEF GroupPay, house, servant, staff, Message, TypeOK
  <2>2. g \in Seated /\ g \notin Asked \cup AtDoor \cup Queued \cup Billed \cup Paying
    BY <2>1 DEF Places
  <2>3. Asked' = Asked /\ Billed' = Billed \cup {g} /\ Unique(inbox, Asks \cup Bills)'
    BY <2>1, <2>2, Billing
  <2>4. Answers'
    BY <2>1, Told
  <2>5. NoDuplicates'
    BY <2>1, <2>3 DEF NoDuplicates, Unique, Asks, Bills
  <2>6. Places'
    BY <2>1, <2>2, <2>3 DEF Places
  <2>7. QED
    BY <2>4, <2>5, <2>6
<1>7. ASSUME ServiceRecv PROVE NoDuplicates' /\ Places' /\ Answers'
  <2>1. /\ UNCHANGED <<line, slots, mail, reply, tableIndex, stage>> /\ service = "recv"
        /\ inbox # << >> /\ request' = Head(inbox) /\ inbox' = Tail(inbox)
    BY <1>7 DEF ServiceRecv, house, groups
  <2>2. AtDoor = {} /\ Paying = {}
    BY <2>1, Hands DEF Control
  <2>3. /\ Asked' = Asked \ AtDoor' /\ AtDoor' \subseteq Asked
        /\ Billed' = Billed \ Paying' /\ Paying' \subseteq Billed
        /\ Unique(inbox, Asks \cup Bills)'
    BY <2>1, Taking
  <2>4. Answers'
    BY <2>1, Told
  <2>5. NoDuplicates'
    BY <2>1, <2>3 DEF NoDuplicates, Unique, Asks, Bills
  <2>6. Places'
    BY <2>1, <2>2, <2>3 DEF Places
  <2>7. QED
    BY <2>4, <2>5, <2>6
<1>8. ASSUME ServiceHold \/ ServiceQueue PROVE NoDuplicates' /\ Places' /\ Answers'
  <2>1. /\ UNCHANGED <<inbox, slots, mail, reply, tableIndex, stage>> /\ request' = None
        /\ request \in Request \ Bills
        /\ IF request.type = "ASSIGN" THEN Push(request.group) ELSE UNCHANGED line
    BY <1>8, Messages DEF ServiceHold, ServiceQueue, house, groups, Control
  <2>2. AtDoor' = {} /\ Paying' = {}
    BY <2>1, Hands1
  <2>3. Answers'
    BY <2>1, Told
  <2>4. CASE request.type = "ASSIGN"
    <3>1. request.group \in Group /\ AtDoor = {request.group} /\ Paying = {}
      BY <2>1, <2>4, Messages, Hands
    <3>2. request.group \notin Queued
      BY <3>1 DEF Places
    <3>3. /\ Queued' = Queued \cup {request.group}
          /\ \A c \in Class : /\ Unique(line'[c], Group)
                              /\ \A h \in Range(line'[c]) : ClassOf(h) = c
      BY <2>1, <2>4, <3>1, <3>2, Queueing
    <3>4. NoDuplicates'
      BY <2>1, <3>3 DEF NoDuplicates
    <3>5. Places'
      BY <2>1, <2>2, <3>1, <3>3 DEF Places
    <3>6. QED
      BY <2>3, <3>4, <3>5
  <2>5. CASE request.type # "ASSIGN"
    <3>1. AtDoor = {} /\ Paying = {}
      BY <2>1, <2>5, Hands
    <3>2. NoDuplicates'
      BY <2>1, <2>5 DEF NoDuplicates
    <3>3. Places'
      BY <2>1, <2>2, <2>5, <3>1 DEF Places
    <3>4. QED
      BY <2>3, <3>2, <3>3
  <2>6. QED
    BY <2>4, <2>5
<1>9. ASSUME ServiceOpenGate \/ ServicePassGate PROVE NoDuplicates' /\ Places' /\ Answers'
  <2>1. /\ UNCHANGED <<inbox, line, slots, mail, reply, tableIndex, stage>>
        /\ request \in Request \ Bills
        /\ request' = IF request.type = "ASSIGN" THEN request ELSE None
    BY <1>9 DEF ServiceOpenGate, ServicePassGate, house, groups, Control
  <2>2. AtDoor' = AtDoor /\ Paying' = Paying
    BY <2>1, Hands, Hands1
  <2>3. Answers'
    BY <2>1, Told
  <2>4. NoDuplicates' /\ Places'
    BY <2>1, <2>2 DEF NoDuplicates, Places
  <2>5. QED
    BY <2>3, <2>4
<1>10. ASSUME ServiceSeatNow PROVE NoDuplicates' /\ Places' /\ Answers'
  <2> DEFINE g == request.group
             t == TableFor(g)
  <2>1. /\ UNCHANGED <<inbox, line, mail, tableIndex, stage>> /\ request' = None
        /\ service = "admit" /\ request \in Asks
        /\ CanSit(g) /\ slots' = [slots EXCEPT ![t] = @ \cup {g}]
        /\ reply' = [to |-> g, table |-> t]
    BY <1>10 DEF ServiceSeatNow, Seat, groups, Control
  <2>2. AtDoor' = {} /\ Paying' = {} /\ AtDoor = {g} /\ Paying = {} /\ g \in Group
    BY <2>1, Hands, Hands1
  <2>3. reply = None /\ t \in Table
    BY <2>1, <2>2, TableFound DEF Control
  <2>4. stage[g] = "waiting" /\ TablesOf(g) = {}
    <3>1. g \in AtDoor /\ g \notin Seated
      BY <2>2 DEF Places
    <3>2. stage[g] = "waiting"
      BY <2>2, <3>1 DEF Places, TypeOK
    <3>3. QED
      BY <2>2, <3>1, <3>2 DEF Seated
  <2> HIDE DEF g, t
  <2>5. /\ \A h \in Group : TablesOf(h)' = IF h = g THEN TablesOf(g) \cup {t} ELSE TablesOf(h)
        /\ Seated' = Seated \cup {g}
    BY <2>1, <2>2, <2>3, Sitting
  <2>6. Answers'
    BY <2>1, <2>2, <2>3, <2>4, <2>5, Told1
  <2>7. NoDuplicates'
    BY <2>1 DEF NoDuplicates
  <2>8. Places'
    <3>1. \A h \in Group : \A x, y \in TablesOf(h)' : x = y
      BY <2>2, <2>4, <2>5 DEF Places
    <3>2. QED
      BY <2>1, <2>2, <2>4, <2>5, <3>1 DEF Places
  <2>9. QED
    BY <2>6, <2>7, <2>8
<1>11. ASSUME NEW c \in Class, ServiceSeatWaiting(c) PROVE NoDuplicates' /\ Places' /\ Answers'
  <2> DEFINE i == Seatable(c)
             g == line[c][i]
             t == TableFor(g)
  <2>1. /\ UNCHANGED <<inbox, mail, tableIndex, stage, request>> /\ service = "seat" /\ i > 0
        /\ line' = [line EXCEPT ![c] = RemoveAt(@, i)]
        /\ CanSit(g) /\ slots' = [slots EXCEPT ![t] = @ \cup {g}]
        /\ reply' = [to |-> g, table |-> t]
    BY <1>11 DEF ServiceSeatWaiting, Seat, groups
  <2>2. i \in DOMAIN line[c]
    <3>1. line[c] \in Seq(Group)
      BY DEF TypeOK
    <3>2. i \in 0 .. Len(line[c]) /\ i > 0
      BY <2>1, <3>1, First
    <3>3. i \in 1 .. Len(line[c])
      <4> HIDE DEF i
      <4> QED
        BY <3>1, <3>2, LenProperties
    <3>4. QED
      BY <3>1, <3>3, LenProperties
  <2>3. /\ g \in Queued /\ g \in Group /\ Queued' = Queued \ {g}
        /\ \A k \in Class : /\ Unique(line'[k], Group)
                            /\ \A h \in Range(line'[k]) : ClassOf(h) = k
    <3> HIDE DEF i
    <3> QED
      BY <2>1, <2>2, Calling
  <2>4. reply = None /\ t \in Table
    BY <2>1, <2>3, TableFound DEF Control
  <2>5. stage[g] = "waiting" /\ TablesOf(g) = {}
    <3> HIDE DEF g
    <3>1. g \notin Seated
      BY <2>3 DEF Places
    <3>2. stage[g] = "waiting"
      BY <2>3, <3>1 DEF Places, TypeOK
    <3>3. QED
      BY <2>3, <3>1, <3>2 DEF Seated
  <2> HIDE DEF i, g, t
  <2>6. /\ \A h \in Group : TablesOf(h)' = IF h = g THEN TablesOf(g) \cup {t} ELSE TablesOf(h)
        /\ Seated' = Seated \cup {g}
    BY <2>1, <2>3, <2>4, Sitting
  <2>7. Answers'
    BY <2>1, <2>3, <2>4, <2>5, <2>6, Told1
  <2>8. NoDuplicates'
    BY <2>1, <2>3 DEF NoDuplicates
  <2>9. Places'
    <3>1. \A h \in Group : \A x, y \in TablesOf(h)' : x = y
      BY <2>3, <2>5, <2>6 DEF Places
    <3>2. QED
      BY <2>1, <2>3, <2>5, <2>6, <3>1 DEF Places
  <2>10. QED
    BY <2>7, <2>8, <2>9
<1>12. ASSUME ServiceSeatNobody PROVE NoDuplicates' /\ Places' /\ Answers'
  <2>1. UNCHANGED <<inbox, line, slots, mail, reply, request, tableIndex, stage>>
    BY <1>12 DEF ServiceSeatNobody, house, groups
  <2>2. Answers'
    BY <2>1, Told
  <2>3. NoDuplicates' /\ Places'
    BY <2>1 DEF NoDuplicates, Places
  <2>4. QED
    BY <2>2, <2>3
<1>13. ASSUME ServiceReply PROVE NoDuplicates' /\ Places' /\ Answers'
  <2>1. /\ UNCHANGED <<inbox, line, slots, request, tableIndex, stage>>
        /\ mail' = mail \cup {reply} /\ reply' = None /\ reply # None /\ reply \in Reply
    BY <1>13 DEF ServiceReply, house, groups, Control, TypeOK
  <2>2. None \notin mail'
    BY <2>1, GuestsAssumption DEF TypeOK
  <2>3. \A h \in Group : AnswersTo(h)' = AnswersTo(h)
    BY <2>1 DEF AnswersTo
  <2>4. Answers'
    BY <2>1, <2>2, <2>3 DEF Answers, AnswersAreTrue
  <2>5. NoDuplicates' /\ Places'
    BY <2>1 DEF NoDuplicates, Places
  <2>6. QED
    BY <2>4, <2>5
<1>14. ASSUME ServiceBill PROVE NoDuplicates' /\ Places' /\ Answers'
  <2> DEFINE g == request.group
  <2>1. /\ UNCHANGED <<inbox, line, mail, reply, tableIndex, stage>> /\ request' = None
        /\ request \in Bills
    BY <1>14 DEF ServiceBill, groups, Control
  <2>2. PICK t \in Table : g \in slots[t] /\ slots' = [slots EXCEPT ![t] = @ \ {g}]
    BY <1>14 DEF ServiceBill
  <2>3. AtDoor' = {} /\ Paying' = {} /\ AtDoor = {} /\ Paying = {g} /\ g \in Group
    BY <2>1, Hands, Hands1
  <2> HIDE DEF g
  <2>4. /\ \A h \in Group : TablesOf(h)' = IF h = g THEN {} ELSE TablesOf(h)
        /\ Seated' = Seated \ {g} /\ g \in Seated
    BY <2>2, <2>3, Rising
  <2>5. stage[g] = "gone" /\ g \notin Billed
    BY <2>3 DEF Places
  <2>6. Answers'
    <3>1. \A h \in Group : AnswersTo(h)' = AnswersTo(h)
      BY <2>1 DEF AnswersTo
    <3>2. ASSUME NEW h \in Group
          PROVE  /\ AnswersTo(h)' = IF stage'[h] = "waiting"
                                 THEN {[to |-> h, table |-> u] : u \in TablesOf(h)'} ELSE {}
                 /\ stage'[h] = "eating" => TablesOf(h)' = {tableIndex'[h]}
      <4>1. CASE h = g
        BY <4>1, <2>1, <2>5, <3>1 DEF Answers, AnswersAreTrue
      <4>2. CASE h # g
        BY <4>2, <2>1, <2>4, <3>1 DEF Answers, AnswersAreTrue
      <4>3. QED
        BY <4>1, <4>2
    <3>3. QED
      BY <2>1, <3>2 DEF Answers, AnswersAreTrue
  <2>7. NoDuplicates'
    BY <2>1 DEF NoDuplicates
  <2>8. Places'
    BY <2>1, <2>3, <2>4, <2>5 DEF Places
  <2>9. QED
    BY <2>6, <2>7, <2>8
<1>15. QED
  BY <1>1, <1>2, <1>3, <1>4, <1>5, <1>6, <1>7, <1>8, <1>9, <1>10, <1>11, <1>12,
     <1>13, <1>14 DEF Next, GroupStep, ServiceStep, Quiet

---------------------------------------------------------------------------
(* The indices at which a member of a sequence without duplicates is.      *)
LEMMA Index ==
  ASSUME NEW S, NEW s \in Seq(S), NEW D, Unique(s, D), NEW x \in D
  PROVE  Cardinality({i \in DOMAIN s : s[i] = x}) = IF x \in Range(s) THEN 1 ELSE 0
<1> DEFINE I == {i \in DOMAIN s : s[i] = x}
<1>1. CASE x \in Range(s)
  <2>1. PICK i \in DOMAIN s : s[i] = x
    BY <1>1 DEF Range
  <2>2. I = {i}
    BY <2>1 DEF Unique
  <2>3. QED
    BY <1>1, <2>2, FS_Singleton
<1>2. CASE x \notin Range(s)
  <2>1. I = {}
    BY <1>2 DEF Range
  <2>2. QED
    BY <1>2, <2>1, FS_EmptySet
<1>3. QED
  BY <1>1, <1>2

LEMMA OnePlace == TypeOK /\ NoDuplicates /\ Places => OnePlaceEach
<1> SUFFICES ASSUME TypeOK, NoDuplicates, Places, NEW g \in Group
             PROVE  Cardinality(Sent("ASSIGN", g)) + Cardinality(InHand("ASSIGN") \cap {g})
                      + Cardinality({i \in DOMAIN line[ClassOf(g)] : line[ClassOf(g)][i] = g})
                      + Cardinality(TablesOf(g))
                    = IF /\ stage[g] \in {"waiting", "eating", "gone"}
                         /\ ~(/\ stage[g] = "gone" /\ Sent("FINISHED", g) = {}
                              /\ g \notin InHand("FINISHED"))
                      THEN 1 ELSE 0
  BY DEF OnePlaceEach, InLine
<1> DEFINE k == ClassOf(g)
<1>1. Cardinality(Sent("ASSIGN", g)) = IF g \in Asked THEN 1 ELSE 0
  <2>1. Message("ASSIGN", g) \in Asks \cup Bills /\ inbox \in Seq(Request)
        /\ Unique(inbox, Asks \cup Bills)
    BY DEF Message, Asks, TypeOK, NoDuplicates
  <2>2. Cardinality({i \in DOMAIN inbox : inbox[i] = Message("ASSIGN", g)})
          = IF Message("ASSIGN", g) \in Range(inbox) THEN 1 ELSE 0
    BY <2>1, Index
  <2>3. QED
    BY <2>2 DEF Sent, Message, Asked
<1>2. Sent("FINISHED", g) # {} <=> g \in Billed
  BY DEF Sent, Billed, Message, Range
<1>3. Cardinality(InHand("ASSIGN") \cap {g}) = IF g \in AtDoor THEN 1 ELSE 0
  <2>1. CASE g \in AtDoor
    <3>1. InHand("ASSIGN") \cap {g} = {g}
      BY <2>1 DEF AtDoor
    <3>2. QED
      BY <2>1, <3>1, FS_Singleton
  <2>2. CASE g \notin AtDoor
    <3>1. InHand("ASSIGN") \cap {g} = {}
      BY <2>2 DEF AtDoor
    <3>2. QED
      BY <2>2, <3>1, FS_EmptySet
  <2>3. QED
    BY <2>1, <2>2
<1>4. Cardinality({i \in DOMAIN line[k] : line[k][i] = g}) = IF g \in Queued THEN 1 ELSE 0
  <2>1. line[k] \in Seq(Group) /\ Unique(line[k], Group)
    BY Names DEF TypeOK, NoDuplicates
  <2>2. Cardinality({i \in DOMAIN line[k] : line[k][i] = g})
          = IF g \in Range(line[k]) THEN 1 ELSE 0
    BY <2>1, Index
  <2>3. g \in Queued <=> g \in Range(line[k])
    BY DEF Queued
  <2> HIDE DEF k
  <2>4. QED
    BY <2>2, <2>3
<1>5. Cardinality(TablesOf(g)) = IF g \in Seated THEN 1 ELSE 0
  <2>1. CASE g \in Seated
    <3>1. \E t : TablesOf(g) = {t}
      <4>1. PICK t : t \in TablesOf(g)
        BY <2>1 DEF Seated
      <4>2. \A u \in TablesOf(g) : u = t
        BY <4>1 DEF Places
      <4>3. QED
        BY <4>1, <4>2
    <3>2. QED
      BY <2>1, <3>1, FS_Singleton
  <2>2. CASE g \notin Seated
    <3>1. TablesOf(g) = {}
      BY <2>2 DEF Seated
    <3>2. QED
      BY <2>2, <3>1, FS_EmptySet
  <2>3. QED
    BY <2>1, <2>2
<1>6. stage[g] \in {"unborn", "arriving", "asking", "waiting", "eating", "gone"}
  BY DEF TypeOK
<1>7. g \in InHand("FINISHED") <=> g \in Paying
  BY DEF Paying
<1> HIDE DEF k
<1>8. QED
  BY <1>1, <1>2, <1>3, <1>4, <1>5, <1>6, <1>7 DEF Places, k

(* The strengthened invariant the theorems share.                          *)
Inv == TypeOK /\ Control /\ NoDuplicates /\ Places /\ Answers

LEMMA StartInv ==
  ASSUME NEW open \in BOOLEAN, Start(open)
  PROVE  Inv
  BY StartTypes, StartPlaces DEF Inv

LEMMA InitInv == Init => Inv
  BY StartInv DEF Init

LEMMA NextInv == Inv /\ [Next]_vars => Inv'
  BY StepTypes, StepPlaces DEF Inv

(* Every variable keeps its type, the tables and queues among them.        *)
THEOREM TypesCorrect == Spec => []TypeOK
<1>1. Inv => TypeOK
  BY DEF Inv
<1>2. QED
  BY InitInv, NextInv, <1>1, PTL DEF Spec

(* No group that has asked is lost between the client queue, the service,  *)
(* the lines and the tables, and none is seated twice.                     *)
THEOREM NoGroupLost == Spec => []OnePlaceEach
<1>1. Inv => OnePlaceEach
  BY OnePlace DEF Inv
<1>2. QED
  BY InitInv, NextInv, <1>1, PTL DEF Spec

(* A group is only ever told of the table that the service keeps for it.   *)
THEOREM ToldTheTruth == Spec => []AnswersAreTrue
<1>1. Inv => AnswersAreTrue
  BY DEF Inv, Answers
<1>2. QED
  BY InitInv, NextInv, <1>1, PTL DEF Spec

---------------------------------------------------------------------------
(* As long as the gate is shut nobody sits, and the service is in a place  *)
(* where it can seat nobody; it is not opened before the last group.       *)
Gate ==
  /\ created < FixedGroupCount => ~gateOpen
  /\ Gated => Seated = {} /\ service \in {"recv", "gate"}

LEMMA StartGate ==
  ASSUME NEW open \in BOOLEAN, Start(open)
  PROVE  Gate
<1>1. Seated = {} /\ service = "recv" /\ gateOpen = FALSE
  BY DEF Start, Seated, TablesOf
<1>2. QED
  BY <1>1 DEF Gate

LEMMA NextGate == Inv /\ Gate /\ [Next]_vars => Gate'
<1> SUFFICES ASSUME Inv, Gate, [Next]_vars PROVE Gate'
  OBVIOUS
<1> USE Kept
<1>0. TypeOK /\ Control /\ Places /\ FixedGroupCount \in Int /\ created \in Nat /\ gateOpen \in BOOLEAN
  BY GuestsAssumption DEF Inv, TypeOK
<1>1. ASSUME NEW g \in Group, ClientFork(g) \/ GroupStep(g) PROVE Gate'
  <2>1. UNCHANGED <<created, gateOpen, slots, service>>
    BY <1>1 DEF ClientFork, GroupStep, GroupEnter, GroupAsk, GroupSit, GroupPay, servant,
                house, staff
  <2>2. QED
    BY <2>1 DEF Gate, Gated
<1>2. ASSUME ClientCount \/ ClientWake PROVE Gate'
  <2>1. UNCHANGED <<gateOpen, slots, service>> /\ created' >= created
    BY <1>0, <1>2 DEF ClientCount, ClientWake, servant, house
  <2>2. created' \in Nat
    BY <1>0, <1>2 DEF ClientCount, ClientWake
  <2>3. QED
    BY <1>0, <2>1, <2>2 DEF Gate, Gated
<1>3. ASSUME ServiceRecv PROVE Gate'
  <2>1. UNCHANGED <<created, gateOpen, slots>> /\ request' = Head(inbox)
        /\ inbox' = Tail(inbox) /\ inbox # << >>
        /\ service' = IF request'.type = "FINISHED" THEN "bill" ELSE "gate"
    BY <1>3 DEF ServiceRecv, staff, house
  <2>2. CASE Seated = {} /\ request'.type = "FINISHED"
    <3>1. request' \in Bills
      <4>1. request' \in Request
        BY <1>0, <2>1, HeadTailProperties DEF TypeOK
      <4>2. QED
        BY <4>1, <2>2, Messages
    <3>2. Paying' # {} /\ Paying' \subseteq Billed
      <4>1. Paying' \subseteq Billed
        BY <1>0, <2>1, Taking DEF Inv
      <4>2. \E h \in Group : request' = [type |-> "FINISHED", group |-> h]
        BY <3>1 DEF Bills
      <4>3. QED
        BY <4>1, <4>2 DEF Paying, InHand
    <3>3. PICK h \in Group : h \in Billed
      BY <3>2 DEF Billed
    <3>4. h \in Seated
      BY <3>3, <1>0 DEF Places
    <3>5. QED
      BY <2>2, <3>4
  <2>3. CASE ~(Seated = {} /\ request'.type = "FINISHED")
    BY <2>1, <2>3 DEF Gate, Gated
  <2>4. QED
    BY <2>2, <2>3
<1>4. ASSUME ServiceHold \/ ServiceOpenGate PROVE Gate'
  BY <1>0, <1>4 DEF ServiceHold, ServiceOpenGate, Gate, Gated, staff, house
<1>5. ASSUME ServicePassGate PROVE Gate'
  BY <1>5 DEF ServicePassGate, Gate, Gated, staff
<1>6. ASSUME \/ ServiceQueue \/ ServiceSeatNow \/ ServiceSeatNobody \/ ServiceReply \/ ServiceBill
             \/ \E c \in Class : ServiceSeatWaiting(c)
      PROVE  Gate'
  <2>1. UNCHANGED <<created, gateOpen>> /\ service \in {"admit", "seat", "reply", "bill"}
    BY <1>6 DEF ServiceQueue, ServiceSeatNow, ServiceSeatNobody, ServiceReply, ServiceBill,
                ServiceSeatWaiting, staff
  <2>2. QED
    BY <2>1 DEF Gate, Gated
<1>7. ASSUME UNCHANGED vars PROVE Gate'
  BY <1>7 DEF vars, Gate, Gated, staff, house, servant
<1>8. QED
  BY <1>1, <1>2, <1>3, <1>4, <1>5, <1>6, <1>7 DEF Next, ServiceStep, Quiet

LEMMA GateShut == Inv /\ Gate => NobodyBeforeTheGate
<1>1. SUFFICES ASSUME Inv, Gate, FixedGroupCount > 0, created < FixedGroupCount, NEW t \in Table
               PROVE  slots[t] = {}
  BY DEF NobodyBeforeTheGate
<1>2. Seated = {} /\ slots[t] \subseteq Group
  BY <1>1 DEF Gate, Gated, Inv, TypeOK
<1>3. QED
  BY <1>2 DEF Seated, TablesOf

(* Nobody sits down before all the groups have been created.               *)
THEOREM GateHolds == Spec => []NobodyBeforeTheGate
<1>1. Init => Inv /\ Gate
  BY InitInv, StartGate DEF Init
<1>2. Inv /\ Gate /\ [Next]_vars => (Inv /\ Gate)'
  BY NextInv, NextGate
<1>3. QED
  BY <1>1, <1>2, GateShut, PTL DEF Spec

---------------------------------------------------------------------------
(* Those of a class who hold a place in the line.                          *)
Holding(c) == {g \in Group : /\ ClassOf(g) = c
                             /\ stage[g] \in {"asking", "waiting"}
                             /\ TablesOf(g) = {}}
Room == \A c \in Class : sem[QueueFree(c)] + Cardinality(Holding(c)) = MaxQueue

LEMMA HoldingFinite ==
  ASSUME NEW c \in Class
  PROVE  IsFiniteSet(Holding(c)) /\ Cardinality(Holding(c)) \in Nat
<1>1. Holding(c) \in SUBSET Group
  BY DEF Holding
<1>2. IsFiniteSet(Holding(c))
  BY <1>1, FS_Subset, GuestsAssumption
<1>3. QED
  BY <1>2, FS_CardinalityType

(* A class has a semaphore of its own.                                     *)
LEMMA OwnPlaces == \A c, d \in Class : QueueFree(c) = QueueFree(d) <=> c = d
  BY DEF QueueFree, Class

LEMMA RoomKept ==
  ASSUME Room, \A c \in Class : sem'[QueueFree(c)] = sem[QueueFree(c)],
         \A c \in Class : Holding(c)' = Holding(c)
  PROVE  Room'
  BY DEF Room

(* Somebody who held a place is given a table.                             *)
LEMMA RoomGiven ==
  ASSUME TypeOK, Room, NEW g \in Group, stage[g] = "waiting", TablesOf(g) = {}, TablesOf(g)' # {},
         \A h \in Group : h # g => TablesOf(h)' = TablesOf(h), UNCHANGED stage,
         sem' = [sem EXCEPT ![QueueFree(ClassOf(g))] = @ + 1]
  PROVE  Room'
<1> DEFINE k == ClassOf(g)
<1>1. k \in Class /\ g \in Holding(k)
  BY Names DEF Holding
<1>2. Holding(k)' = Holding(k) \ {g}
  BY DEF Holding
<1>3. \A c \in Class : c # k => Holding(c)' = Holding(c)
  BY DEF Holding
<1>4. Cardinality(Holding(k)') = Cardinality(Holding(k)) - 1
  <2>1. IsFiniteSet(Holding(k))
    BY <1>1, HoldingFinite
  <2>2. Cardinality(Holding(k) \ {g}) = Cardinality(Holding(k)) - 1
    <3> HIDE DEF k
    <3> QED
      BY <1>1, <2>1, FS_RemoveElement
  <2>3. QED
    BY <1>2, <2>2
<1>5. \A c \in Class : /\ sem[QueueFree(c)] \in Nat
                       /\ sem'[QueueFree(c)] = sem[QueueFree(c)] + (IF c = k THEN 1 ELSE 0)
  BY <1>1, Names, OwnPlaces DEF TypeOK
<1>6. \A c \in Class : Cardinality(Holding(c)) \in Nat
  BY HoldingFinite
<1> HIDE DEF k
<1>7. ASSUME NEW c \in Class PROVE sem'[QueueFree(c)] + Cardinality(Holding(c)') = MaxQueue
  <2>1. sem[QueueFree(c)] + Cardinality(Holding(c)) = MaxQueue
    BY DEF Room
  <2>2. CASE c = k
    BY <2>1, <2>2, <1>4, <1>5, <1>6
  <2>3. CASE c # k
    BY <2>1, <2>3, <1>3, <1>5, <1>6
  <2>4. QED
    BY <2>2, <2>3
<1>8. QED
  BY <1>7 DEF Room

LEMMA StartRoom ==
  ASSUME NEW open \in BOOLEAN, Start(open)
  PROVE  Room
<1>1. ASSUME NEW c \in Class PROVE sem[QueueFree(c)] = MaxQueue /\ Holding(c) = {}
  BY DEF Start, QueueFree, Class, Semaphore, Holding
<1>2. QED
  BY <1>1, FS_EmptySet, HouseAssumption DEF Room

LEMMA NextRoom == Inv /\ Room /\ [Next]_vars => Room'
<1> SUFFICES ASSUME Inv, Room, [Next]_vars PROVE Room'
  OBVIOUS
<1>0. TypeOK /\ Control /\ Places /\ NoDuplicates
  BY DEF Inv
<1>a. ASSUME UNCHANGED <<slots, stage>> PROVE \A c \in Class : Holding(c)' = Holding(c)
  BY <1>a DEF Holding, TablesOf
<1>b. ASSUME NEW s \in {"CLIENT_FREE", "SERVICE_FREE", "TABLES"}, NEW x,
             sem' = [sem EXCEPT ![s] = x]
      PROVE  \A c \in Class : sem'[QueueFree(c)] = sem[QueueFree(c)]
  BY <1>b, <1>0, Names DEF TypeOK
<1>1. ASSUME NEW g \in Group, ClientFork(g) PROVE Room'
  <2>1. \A c \in Class : Holding(c)' = Holding(c)
    BY <1>1, <1>0 DEF ClientFork, house, Holding, TablesOf, TypeOK
  <2>2. QED
    BY <1>1, <2>1, RoomKept DEF ClientFork
<1>2. ASSUME NEW g \in Group, GroupEnter(g) PROVE Room'
  <2> DEFINE k == ClassOf(g)
  <2>1. /\ stage[g] = "arriving" /\ UNCHANGED slots /\ sem[QueueFree(k)] > 0
        /\ sem' = [sem EXCEPT ![QueueFree(k)] = @ - 1]
        /\ \A h \in Group : stage'[h] = IF h = g THEN "asking" ELSE stage[h]
    BY <1>2, <1>0 DEF GroupEnter, house, TypeOK
  <2>2. k \in Class /\ g \notin Holding(k) /\ TablesOf(g) = {}
    BY <2>1, <1>0, Names DEF Holding, Places, Seated
  <2>3. Holding(k)' = Holding(k) \cup {g}
    BY <2>1, <2>2 DEF Holding, TablesOf
  <2>4. \A c \in Class : c # k => Holding(c)' = Holding(c)
    BY <2>1 DEF Holding, TablesOf
  <2>5. Cardinality(Holding(k)') = Cardinality(Holding(k)) + 1
    BY <2>2, <2>3, HoldingFinite, FS_AddElement
  <2>6. \A c \in Class : /\ sem[QueueFree(c)] \in Nat
                         /\ sem'[QueueFree(c)] = sem[QueueFree(c)] - (IF c = k THEN 1 ELSE 0)
    BY <2>1, <2>2, <1>0, Names, OwnPlaces DEF TypeOK
  <2>7. \A c \in Class : Cardinality(Holding(c)) \in Nat
    BY HoldingFinite
  <2> HIDE DEF k
  <2>8. ASSUME NEW c \in Class PROVE sem'[QueueFree(c)] + Cardinality(Holding(c)') = MaxQueue
    <3>1. sem[QueueFree(c)] + Cardinality(Holding(c)) = MaxQueue
      BY DEF Room
    <3>2. CASE c = k
      BY <3>1, <3>2, <2>5, <2>6, <2>7
    <3>3. CASE c # k
      BY <3>1, <3>3, <2>4, <2>6, <2>7
    <3>4. QED
      BY <3>2, <3>3
  <2>9. QED
    BY <2>8 DEF Room
<1>3. ASSUME NEW g \in Group, GroupAsk(g) PROVE Room'
  <2>1. \A c \in Class : Holding(c)' = Holding(c)
    BY <1>3, <1>0 DEF GroupAsk, house, Holding, TablesOf, TypeOK
  <2>2. sem' = [sem EXCEPT !["CLIENT_FREE"] = sem["CLIENT_FREE"] - 1]
    BY <1>3 DEF GroupAsk
  <2>3. QED
    BY <2>1, <2>2, <1>b, RoomKept
<1>4. ASSUME NEW g \in Group, GroupSit(g) PROVE Room'
  <2>1. TablesOf(g) # {}
    <3>1. PICK m \in mail : m.to = g
      BY <1>4 DEF GroupSit
    <3>2. m \in AnswersTo(g)
      BY <3>1 DEF AnswersTo
    <3>3. QED
      BY <1>4, <3>2 DEF Inv, Answers, AnswersAreTrue, GroupSit
  <2>2. \A c \in Class : Holding(c)' = Holding(c)
    BY <1>4, <2>1, <1>0 DEF GroupSit, house, Holding, TablesOf, TypeOK
  <2>3. sem' = [sem EXCEPT !["SERVICE_FREE"] = sem["SERVICE_FREE"] + 1]
    BY <1>4 DEF GroupSit
  <2>4. QED
    BY <2>2, <2>3, <1>b, RoomKept
<1>5. ASSUME NEW g \in Group, GroupPay(g) PROVE Room'
  <2>1. \A c \in Class : Holding(c)' = Holding(c)
    BY <1>5, <1>0 DEF GroupPay, house, Holding, TablesOf, TypeOK
  <2>2. sem' = [sem EXCEPT !["CLIENT_FREE"] = sem["CLIENT_FREE"] - 1]
    BY <1>5 DEF GroupPay
  <2>3. QED
    BY <2>1, <2>2, <1>b, RoomKept
<1>6. ASSUME ClientWake \/ ServiceRecv \/ ServiceReply PROVE Room'
  <2>1. UNCHANGED <<slots, stage>>
    BY <1>6 DEF ClientWake, ServiceRecv, ServiceReply, house, groups
  <2>2. \E s \in {"CLIENT_FREE", "SERVICE_FREE"} : \E x : sem' = [sem EXCEPT ![s] = x]
    BY <1>6 DEF ClientWake, ServiceRecv, ServiceReply
  <2>3. QED
    BY <2>1, <2>2, <1>a, <1>b, RoomKept
<1>7. ASSUME \/ ClientCount \/ ServiceHold \/ ServiceOpenGate \/ ServicePassGate \/ ServiceQueue
             \/ ServiceSeatNobody \/ UNCHANGED vars
      PROVE  Room'
  <2>1. UNCHANGED <<sem, slots, stage>>
    BY <1>7 DEF ClientCount, ServiceHold, ServiceOpenGate, ServicePassGate, ServiceQueue,
                ServiceSeatNobody, vars, house, groups
  <2>2. QED
    BY <2>1, <1>a, RoomKept
<1>8. ASSUME ServiceSeatNow PROVE Room'
  <2> DEFINE g == request.group
             t == TableFor(g)
  <2>1. /\ UNCHANGED stage /\ service = "admit" /\ request \in Asks
        /\ CanSit(g) /\ slots' = [slots EXCEPT ![t] = @ \cup {g}]
        /\ sem' = [sem EXCEPT ![QueueFree(ClassOf(g))] = @ + 1]
    BY <1>8, <1>0 DEF ServiceSeatNow, Seat, groups, Control
  <2>2. AtDoor = {g} /\ g \in Group
    BY <2>1, Hands
  <2>3. t \in Table
    BY <2>1, <2>2, TableFound
  <2> HIDE DEF g, t
  <2>4. g \notin Seated
    BY <2>2, <1>0 DEF Places
  <2>5. stage[g] = "waiting"
    BY <2>2, <2>4, <1>0 DEF Places, TypeOK
  <2>6. \A h \in Group : TablesOf(h)' = IF h = g THEN TablesOf(g) \cup {t} ELSE TablesOf(h)
    BY <1>0, <2>1, <2>2, <2>3, Sitting
  <2>7. PICK h \in Group : h = g
    BY <2>2
  <2>8. TablesOf(h) = {}
    BY <2>4, <2>7 DEF Seated
  <2>9. TablesOf(h)' # {}
    BY <2>6, <2>7
  <2>10. \A k \in Group : k # h => TablesOf(k)' = TablesOf(k)
    BY <2>6, <2>7
  <2>11. stage[h] = "waiting" /\ sem' = [sem EXCEPT ![QueueFree(ClassOf(h))] = @ + 1]
    BY <2>1, <2>5, <2>7
  <2>12. QED
    BY <1>0, <2>1, <2>8, <2>9, <2>10, <2>11, RoomGiven
<1>9. ASSUME NEW c \in Class, ServiceSeatWaiting(c) PROVE Room'
  <2> DEFINE i == Seatable(c)
             g == line[c][i]
             t == TableFor(g)
  <2>1. /\ UNCHANGED stage /\ i > 0 /\ line' = [line EXCEPT ![c] = RemoveAt(@, i)]
        /\ CanSit(g) /\ slots' = [slots EXCEPT ![t] = @ \cup {g}]
        /\ sem' = [sem EXCEPT ![QueueFree(ClassOf(g))] = @ + 1]
    BY <1>9 DEF ServiceSeatWaiting, Seat, groups
  <2>2. g \in Queued /\ g \in Group
    <3>1. line[c] \in Seq(Group)
      BY <1>0 DEF TypeOK
    <3>2. i \in 0 .. Len(line[c]) /\ i > 0
      BY <1>0, <2>1, First
    <3> HIDE DEF i
    <3>3. i \in DOMAIN line[c]
      BY <3>1, <3>2, LenProperties
    <3>4. QED
      BY <1>0, <2>1, <3>3, Calling
  <2>3. t \in Table
    BY <2>1, <2>2, TableFound
  <2> HIDE DEF i, g, t
  <2>4. g \notin Seated
    BY <2>2, <1>0 DEF Places
  <2>5. stage[g] = "waiting"
    BY <2>2, <2>4, <1>0 DEF Places, TypeOK
  <2>6. \A h \in Group : TablesOf(h)' = IF h = g THEN TablesOf(g) \cup {t} ELSE TablesOf(h)
    BY <1>0, <2>1, <2>2, <2>3, Sitting
  <2>7. PICK h \in Group : h = g
    BY <2>2
  <2>8. TablesOf(h) = {}
    BY <2>4, <2>7 DEF Seated
  <2>9. TablesOf(h)' # {}
    BY <2>6, <2>7
  <2>10. \A k \in Group : k # h => TablesOf(k)' = TablesOf(k)
    BY <2>6, <2>7
  <2>11. stage[h] = "waiting" /\ sem' = [sem EXCEPT ![QueueFree(ClassOf(h))] = @ + 1]
    BY <2>1, <2>5, <2>7
  <2>12. QED
    BY <1>0, <2>1, <2>8, <2>9, <2>10, <2>11, RoomGiven
<1>10. ASSUME ServiceBill PROVE Room'
  <2> DEFINE g == request.group
  <2>1. UNCHANGED stage /\ request \in Bills
    BY <1>10, <1>0 DEF ServiceBill, groups, Control
  <2>2. PICK t \in Table :
          /\ g \in slots[t] /\ slots' = [slots EXCEPT ![t] = @ \ {g}]
          /\ sem' = [sem EXCEPT !["TABLES"] = IF occupiedSeats'[t] = 0 THEN @ + 1 ELSE @]
    BY <1>10 DEF ServiceBill
  <2>3. g \in Paying /\ g \in Group
    BY <2>1, Hands
  <2> HIDE DEF g
  <2>4. \A h \in Group : TablesOf(h)' = IF h = g THEN {} ELSE TablesOf(h)
    BY <1>0, <2>2, <2>3, Rising
  <2>5. stage[g] = "gone"
    BY <1>0, <2>3 DEF Places
  <2>6. \A c \in Class : Holding(c)' = Holding(c)
    BY <2>1, <2>4, <2>5 DEF Holding
  <2>7. \A c \in Class : sem'[QueueFree(c)] = sem[QueueFree(c)]
    BY <2>2, <1>b
  <2>8. QED
    BY <2>6, <2>7, RoomKept
<1>11. QED
  BY <1>1, <1>2, <1>3, <1>4, <1>5, <1>6, <1>7, <1>8, <1>9, <1>10
     DEF Next, GroupStep, ServiceStep, Quiet

(* Whoever is at the door and whoever is in the line holds a place in it.  *)
LEMMA RoomLeft ==
  ASSUME Inv, Room, NEW g \in AtDoor
  PROVE  Len(line[ClassOf(g)]) < MaxQueue
<1> DEFINE k == ClassOf(g)
           H == Holding(k) \ {g}
<1>1. g \in Group /\ k \in Class /\ line[k] \in Seq(Group) /\ Unique(line[k], Group)
      /\ \A h \in Range(line[k]) : ClassOf(h) = k
  BY Names DEF AtDoor, InHand, Inv, TypeOK, NoDuplicates
<1>2. \A h \in AtDoor \cup Queued : TablesOf(h) = {} /\ stage[h] = "waiting"
  <2>1. SUFFICES ASSUME NEW h \in AtDoor \cup Queued PROVE TablesOf(h) = {} /\ stage[h] = "waiting"
    OBVIOUS
  <2>2. h \in Group
    BY DEF AtDoor, InHand, Queued
  <2>3. h \notin Seated
    BY DEF Inv, Places
  <2>4. QED
    BY <2>2, <2>3 DEF Inv, Places, TypeOK, Seated
<1>3. \A j \in 1 .. Len(line[k]) : line[k][j] \in H
  <2>1. SUFFICES ASSUME NEW j \in 1 .. Len(line[k]) PROVE line[k][j] \in H
    OBVIOUS
  <2>2. line[k][j] \in Group /\ line[k][j] \in Range(line[k])
    BY <1>1, ElementOfSeq, LenProperties DEF Range
  <2>3. ClassOf(line[k][j]) = k /\ line[k][j] \in Queued
    BY <1>1, <2>2 DEF Queued
  <2>4. g \notin Queued
    BY DEF Inv, Places
  <2>5. QED
    BY <1>2, <2>2, <2>3, <2>4 DEF Holding
<1>4. IsFiniteSet(Holding(k)) /\ g \in Holding(k)
  BY <1>1, <1>2, HoldingFinite DEF Holding
<1>5. IsFiniteSet(H) /\ Cardinality(H) = Cardinality(Holding(k)) - 1
  BY <1>4, FS_RemoveElement
<1> HIDE DEF H
<1>6. Len(line[k]) <= Cardinality(H)
  <2> DEFINE f == [j \in 1 .. Len(line[k]) |-> line[k][j]]
  <2>1. Len(line[k]) \in Nat /\ DOMAIN line[k] = 1 .. Len(line[k])
    BY <1>1, LenProperties
  <2>2. f \in Injection(1 .. Len(line[k]), H)
    <3>1. f \in [1 .. Len(line[k]) -> H]
      BY <1>3
    <3>2. \A i, j \in 1 .. Len(line[k]) : f[i] = f[j] => i = j
      <4>1. \A i \in 1 .. Len(line[k]) : line[k][i] \in Group
        BY <1>1, ElementOfSeq
      <4>2. QED
        BY <1>1, <2>1, <4>1 DEF Unique
    <3>3. QED
      BY <3>1, <3>2 DEF Injection, IsInjective
  <2>3. Cardinality(1 .. Len(line[k])) <= Cardinality(H)
    <3> HIDE DEF f
    <3> QED
      BY <1>5, <2>2, FS_Injection
  <2>4. Cardinality(1 .. Len(line[k])) = Len(line[k])
    BY <2>1, FS_Interval
  <2>5. QED
    BY <2>3, <2>4
<1>7. sem[QueueFree(k)] \in Nat /\ sem[QueueFree(k)] + Cardinality(Holding(k)) = MaxQueue
  BY <1>1, Names DEF Inv, TypeOK, Room
<1>8. Cardinality(Holding(k)) \in Nat /\ Len(line[k]) \in Nat
  BY <1>1, HoldingFinite, LenProperties
<1> HIDE DEF k
<1>9. Len(line[k]) < MaxQueue
  BY <1>5, <1>6, <1>7, <1>8, HouseAssumption
<1>10. QED
  BY <1>9 DEF k

LEMMA RoomIsLeft == Inv /\ Room => RoomToQueue
  BY RoomLeft DEF RoomToQueue, Room, Holding, AtDoor

(* The line never outgrows its semaphore: when the service comes to queue  *)
(* a group there is room for it, whatever the order of places and answers. *)
THEOREM LineHasRoom == Spec => []RoomToQueue
<1>1. Init => Inv /\ Room
  BY InitInv, StartRoom DEF Init
<1>2. Inv /\ Room /\ [Next]_vars => (Inv /\ Room)'
  BY NextInv, NextRoom
<1>3. QED
  BY <1>1, <1>2, RoomIsLeft, PTL DEF Spec

=============================================================================
