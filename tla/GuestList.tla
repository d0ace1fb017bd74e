----------------------------- MODULE GuestList -----------------------------
(***************************************************************************)
(* What the restaurant promises those who come, with no process, queue or  *)
(* message in it: a group that asks for a table waits behind those of its  *)
(* class who asked before, is given one table that has room for it, sits   *)
(* down there and nowhere else, pays and frees its seats.  Nobody is given *)
(* a table while someone ahead of them could have one.  Module Seating     *)
(* implements it.                                                          *)
(***************************************************************************)
EXTENDS Integers, FiniteSets

CONSTANTS Group, Vip, Size,
          Table, Capacity, MaxTableSlots,
          None

VARIABLES came,    \* the groups that have asked
          ahead,   \* who of those who wait asked before whom, in each class
          at,      \* the groups that have been given a table, by table
          eatsAt,  \* the table a group has sat down at
          paid     \* the groups that have paid

vars == <<came, ahead, at, eatsAt, paid>>

OfOneClass(g, h) == g \in Vip <=> h \in Vip
Given == UNION {at[t] : t \in Table}
Left == {g \in paid : g \notin Given}
Waiting == came \ (Given \cup Left)

People(S) == UNION {{g} \X (1 .. Size[g]) : g \in S}

(* Room for the group, its kind and one more party, if those there agree.  *)
Suits(g, t) == /\ Cardinality(People(at[t])) + Size[g] <= Capacity[t]
               /\ Cardinality(at[t]) < MaxTableSlots
               /\ \A h, k \in at[t] : Size[h] = Size[k]
               /\ g \in Vip => Capacity[t] # 1

Init == /\ came = {} /\ ahead = {} /\ paid = {}
        /\ at = [t \in Table |-> {}]
        /\ eatsAt = [g \in Group |-> None]

Ask(g) ==
  /\ g \notin came
  /\ came' = came \cup {g}
  /\ ahead' = ahead \cup {<<h, g>> : h \in {h \in Waiting : OfOneClass(h, g)}}
  /\ UNCHANGED <<at, eatsAt, paid>>

Give(g, t) ==
  /\ g \in Waiting /\ Suits(g, t)
  /\ \A h \in Group : <<h, g>> \in ahead => \A u \in Table : ~Suits(h, u)
  /\ at' = [at EXCEPT ![t] = @ \cup {g}]
  /\ ahead' = {p \in ahead : g \notin {p[1], p[2]}}
  /\ UNCHANGED <<came, eatsAt, paid>>

SitDown(g, t) ==
  /\ g \in at[t] /\ eatsAt[g] = None
  /\ eatsAt' = [eatsAt EXCEPT ![g] = t]
  /\ UNCHANGED <<came, ahead, at, paid>>

Pay(g) ==
  /\ eatsAt[g] # None /\ g \notin paid
  /\ paid' = paid \cup {g}
  /\ UNCHANGED <<came, ahead, at, eatsAt>>

Clear(g, t) ==
  /\ g \in at[t] /\ g \in paid
  /\ at' = [at EXCEPT ![t] = @ \ {g}]
  /\ UNCHANGED <<came, ahead, eatsAt, paid>>

Next == \E g \in Group :
          \/ Ask(g) \/ Pay(g)
          \/ \E t \in Table : Give(g, t) \/ SitDown(g, t) \/ Clear(g, t)

Spec == Init /\ [][Next]_vars
=============================================================================
