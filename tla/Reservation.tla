------------------------------ MODULE Reservation ------------------------------
(***************************************************************************)
(* The holds on one agent and the agent's availability:                    *)
(* reservation.service.ts, reservation.repository.ts and the bulk          *)
(* availability change of admin.service.ts.  Every query is per agent, so  *)
(* one agent is enough.                                                    *)
(*                                                                         *)
(* A request first loads what it decides on and then commits its writes:   *)
(* two steps, so that other requests may commit in between.  What a        *)
(* transaction reads once it has started to write is read with its commit, *)
(* except the look for a hold of the agent when one is made, which is part *)
(* of the load (the unique index guards the commit).  The staff form       *)
(* reserves without a transaction, so its two writes are two steps.        *)
(***************************************************************************)
EXTENDS Naturals, Sequences, FiniteSets

CONSTANTS
    Client,     \* the clients who want the agent
    MaxHolds,   \* bound: Reservation rows that may be created
    Free,       \* the statuses a bulk change offers
    Worker      \* requests in flight at once

ASSUME ReservationAssumption ==
    /\ MaxHolds \in Nat
    /\ {"RESERVED", "PLACED"} \cap Free = {}

VARIABLES
    hold,           \* Reservation rows, oldest first
    availability,   \* AgentProfile.availabilityStatus
    lastFree,       \* the newest AgentAvailability row that is not RESERVED
    task,           \* what each request in flight has read
    overlapped      \* history: two requests have been in flight at once

holdVars == <<hold, availability, lastFree>>

HoldStatus == {"ACTIVE", "EXTENDED", "RELEASED", "EXPIRED", "CONVERTED"}

Blocked == {"RESERVED", "PLACED"}
Availability == Free \cup {"AVAILABLE"} \cup Blocked

Active == {"ACTIVE", "EXTENDED"}
ActiveHolds == {h \in DOMAIN hold : hold[h].status \in Active}
HeldFor(c) == \A h \in ActiveHolds : hold[h].client = c

HoldTypeOK ==
    /\ hold \in Seq([client: Client, status: HoldStatus,
                     before: Availability \ {"RESERVED"}, due: BOOLEAN])
    /\ availability \in Availability
    /\ lastFree \in Availability \ {"RESERVED"}

HoldInit ==
    /\ hold = <<>>
    /\ availability = "AVAILABLE"
    /\ lastFree = "AVAILABLE"

-------------------------------------------------------------------------------
Idle == [op |-> "idle"]
Doing(w, op) == task[w].op = op
Done(w) == task' = [task EXCEPT ![w] = Idle] /\ UNCHANGED overlapped
Proceed(w, t) == task' = [task EXCEPT ![w] = t] /\ UNCHANGED overlapped
Begin(w, t) ==
    /\ task[w] = Idle
    /\ task' = [task EXCEPT ![w] = t]
    /\ overlapped' = (overlapped \/ \E v \in Worker : task[v] # Idle)

-------------------------------------------------------------------------------
(***************************************************************************)
(* Effects, also used by the placement pipeline                            *)
(***************************************************************************)

\* setAvailability also adds a history row, which availabilityBefore looks for.
SetAvailability(s) ==
    /\ availability' = s
    /\ lastFree' = IF s = "RESERVED" THEN lastFree ELSE s
KeepAvailability == UNCHANGED <<availability, lastFree>>

\* The partial unique index Reservation_one_active_per_agent.
NoOtherActive(H) == ActiveHolds \subseteq H

AddHold(c) ==
    /\ Len(hold) < MaxHolds
    /\ NoOtherActive({})
    /\ hold' = Append(hold, [client |-> c, status |-> "ACTIVE",
                             before |-> lastFree, due |-> FALSE])

EndedHolds(H, status) ==
    [h \in DOMAIN hold |-> IF h \in H THEN [hold[h] EXCEPT !.status = status] ELSE hold[h]]
EndHolds(H, status) == hold' = EndedHolds(H, status)

\* On release and expiry the agent goes back to what held before the hold, if
\* the row read, s, still says RESERVED.
RestoreBefore(h, s) ==
    IF s = "RESERVED" THEN SetAvailability(hold[h].before) ELSE KeepAvailability

-------------------------------------------------------------------------------
(***************************************************************************)
(* Operations                                                              *)
(***************************************************************************)

\* reserveForClient from the staff form; a client who holds the agent already
\* keeps the hold, another one is refused.
BeginReserve(w, c) ==
    /\ ActiveHolds = {}
    /\ Begin(w, [op |-> "reserve", c |-> c])
    /\ UNCHANGED holdVars
CreateHold(w) ==
    /\ Doing(w, "reserve")
    /\ AddHold(task[w].c)
    /\ Proceed(w, [op |-> "reserved"])
    /\ KeepAvailability
MarkReserved(w) ==
    /\ Doing(w, "reserved")
    /\ SetAvailability("RESERVED")
    /\ Done(w)
    /\ UNCHANGED hold

\* extendReservation
BeginExtend(w, h) ==
    /\ h \in ActiveHolds
    /\ Begin(w, [op |-> "extend", h |-> h])
    /\ UNCHANGED holdVars
CommitExtend(w) ==
    /\ Doing(w, "extend")
    /\ NoOtherActive({task[w].h})
    /\ hold' = [hold EXCEPT ![task[w].h].status = "EXTENDED", ![task[w].h].due = FALSE]
    /\ Done(w)
    /\ KeepAvailability

\* releaseReservation decides on the availability it read with the hold.
BeginRelease(w, h) ==
    /\ h \in ActiveHolds
    /\ Begin(w, [op |-> "release", h |-> h, was |-> availability])
    /\ UNCHANGED holdVars
CommitRelease(w) ==
    /\ Doing(w, "release")
    /\ EndHolds({task[w].h}, "RELEASED")
    /\ RestoreBefore(task[w].h, task[w].was)
    /\ Done(w)

\* expireReservations: the maintenance pass lists the due holds and ends each
\* in a transaction of its own, which reads the availability again.
HoldLapses(h) ==
    /\ h \in ActiveHolds
    /\ hold' = [hold EXCEPT ![h].due = TRUE]
    /\ KeepAvailability
    /\ UNCHANGED <<task, overlapped>>
BeginExpire(w, h) ==
    /\ h \in ActiveHolds /\ hold[h].due
    /\ Begin(w, [op |-> "expire", h |-> h])
    /\ UNCHANGED holdVars
CommitExpire(w) ==
    /\ Doing(w, "expire")
    /\ EndHolds({task[w].h}, "EXPIRED")
    /\ RestoreBefore(task[w].h, availability)
    /\ Done(w)

\* SET_AVAILABILITY of bulkAgentAction: "Placed or reserved agents are managed
\* through placements and reservations".
BeginBulk(w, s) ==
    /\ availability \notin Blocked
    /\ Begin(w, [op |-> "bulk", to |-> s])
    /\ UNCHANGED holdVars
CommitBulk(w) ==
    /\ Doing(w, "bulk")
    /\ SetAvailability(task[w].to)
    /\ Done(w)
    /\ UNCHANGED hold

\* A request fails or its process dies before the next write commits.
GiveUp(w) ==
    /\ task[w] # Idle
    /\ Done(w)
    /\ UNCHANGED holdVars

HoldTask ==
    [op: {"reserve"}, c: Client] \cup [op: {"reserved"}]
    \cup [op: {"extend", "expire"}, h: 1..MaxHolds]
    \cup [op: {"release"}, h: 1..MaxHolds, was: Availability]
    \cup [op: {"bulk"}, to: Free]

HoldNext ==
    \/ \E w \in Worker :
        \/ \E c \in Client : BeginReserve(w, c)
        \/ \E h \in DOMAIN hold : BeginExtend(w, h) \/ BeginRelease(w, h) \/ BeginExpire(w, h)
        \/ CreateHold(w) \/ MarkReserved(w)
        \/ \E s \in Free : BeginBulk(w, s)
        \/ CommitExtend(w) \/ CommitRelease(w) \/ CommitExpire(w) \/ CommitBulk(w)
        \/ GiveUp(w)
    \/ \E h \in DOMAIN hold : HoldLapses(h)
===============================================================================
