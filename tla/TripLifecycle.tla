--------------------------- MODULE TripLifecycle ---------------------------
(***************************************************************************)
(* What routes-srv promises about the life of a trip, whatever the number  *)
(* of steps its handlers take: a trip is created once, in CREADO, advances *)
(* one phase at a time to TERMINADO, and its row never goes away.          *)
(* The phases and the arrows between them are trip-status.vo.ts.           *)
(***************************************************************************)

CONSTANT TripIds      \* the identifiers the trips table can hand out

VARIABLE status       \* status[t]: the phase of trip t, "unused" before it exists

TripStatus == {"CREADO", "EN_RUTA", "EN_REVISION", "TERMINADO"}

(* canTransitionTo of trip-status.vo.ts. *)
CanTransitionTo(from, to) ==
  <<from, to>> \in { <<"CREADO", "EN_RUTA">>,
                     <<"EN_RUTA", "EN_REVISION">>,
                     <<"EN_REVISION", "TERMINADO">> }

Init == status = [t \in TripIds |-> "unused"]

Create(t) ==
  /\ status[t] = "unused"
  /\ status' = [status EXCEPT ![t] = "CREADO"]

Advance(t) ==
  \E to \in TripStatus :
    /\ CanTransitionTo(status[t], to)
    /\ status' = [status EXCEPT ![t] = to]

Next == \E t \in TripIds : Create(t) \/ Advance(t)

Spec == Init /\ [][Next]_status

=============================================================================
