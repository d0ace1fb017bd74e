---------------------------- MODULE SeatingList ----------------------------
(***************************************************************************)
(* Clients, groups and service keep the guest list.  A group has come when *)
(* its request is in the queue, and has paid when its bill is there.       *)
(***************************************************************************)
EXTENDS Seating

List == INSTANCE GuestList WITH
  came   <- {g \in Group : stage[g] \in {"waiting", "eating", "gone"}},
  ahead  <- {p \in Group \X Group : Ahead(p[1], p[2])},
  at     <- slots,
  eatsAt <- tableIndex,
  paid   <- {g \in Group : stage[g] = "gone"}

(* Every step of clients, groups and service is one entry in the list, or  *)
(* none: a request is in one line from the queue of messages into the line *)
(* of its class, its turn comes in the order of asking as far as tables    *)
(* suit, and the group sits down where the service has written it down.    *)
ImplementsGuestList == List!Spec
=============================================================================
