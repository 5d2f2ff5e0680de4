----------------------------- MODULE StartSlot -----------------------------
(***************************************************************************)
(* What the start queue of the engine promises, without lists, channels    *)
(* and goroutines: one slot, which goes to the first of the requests that  *)
(* stand, by rank and then by arrival, as soon as it is free and open.     *)
(***************************************************************************)
EXTENDS Naturals

CONSTANTS Clients,  \* who may ask for the slot
          Ranks,    \* the ranks of their requests
          Nobody    \* the holder of a free slot

VARIABLES
  holder,    \* who has the slot
  requests,  \* the requests that stand
  arrivals,  \* how many were made
  closed     \* the slot is not given to anybody

slotVars == <<holder, requests, arrivals, closed>>

Init == holder = Nobody /\ requests = {} /\ arrivals = 0 /\ closed = FALSE

Before(r, q) == r.rank > q.rank \/ (r.rank = q.rank /\ r.number < q.number)

\* The slot, held by h, of the requests rs goes to the first, if it goes to anybody.
Settle(h, rs, c) ==
  \/ /\ ~c /\ h = Nobody
     /\ \E r \in rs : /\ \A q \in rs \ {r} : Before(r, q)
                      /\ holder' = r.client /\ requests' = rs \ {r}
  \/ /\ c \/ h # Nobody \/ rs = {}
     /\ holder' = h /\ requests' = rs

\* A client asks once at a time.
Ask(client, rank) ==
  /\ holder # client /\ \A r \in requests : r.client # client
  /\ arrivals' = arrivals + 1
  /\ Settle(holder,
            requests \cup {[client |-> client, rank |-> rank, number |-> arrivals + 1]},
            closed)
  /\ UNCHANGED closed

\* A request that stands is given up; the slot stays where it is.
GiveUp(r) ==
  /\ requests' = requests \ {r}
  /\ UNCHANGED <<holder, arrivals, closed>>

Release ==
  /\ holder # Nobody
  /\ Settle(Nobody, requests, closed)
  /\ UNCHANGED <<arrivals, closed>>

SetClosed(c) ==
  /\ closed' = c
  /\ Settle(holder, requests, c)
  /\ UNCHANGED arrivals

Next ==
  \/ \E client \in Clients, rank \in Ranks : Ask(client, rank)
  \/ \E r \in requests : GiveUp(r)
  \/ Release
  \/ \E c \in BOOLEAN : SetClosed(c)

Spec == Init /\ [][Next]_slotVars
=============================================================================
