------------------------------ MODULE SendGate ------------------------------
(***************************************************************************)
(* The throttle of magic-link mails: runReservationTxn and                 *)
(* reserveMagicLinkSendSlot of website/src/lib/magicLinkSendGate.ts.       *)
(*                                                                         *)
(* One counter row per e-mail address and one per client address hold the  *)
(* hour they count and the mails of that hour.  The transaction is         *)
(* SERIALIZABLE, so it is one step, but the hour it counts for was read    *)
(* before it began: waiting for a row, it may commit in a later hour.      *)
(***************************************************************************)
EXTENDS Naturals

CONSTANTS Emails,     \* addresses that ask for a link, all from one client
          Client,     \* scope key of the client address, no e-mail address
          EmailCap,   \* MAGIC_LINK_EMAIL_CAP
          ClientCap,  \* MAGIC_LINK_IP_CAP
          MaxHour     \* bound: hours that pass

VARIABLES hour,       \* the current UTC hour
          counters,   \* magic_link_send_counter: per scope key, hour and count
          asking,     \* per address: the hour its request has read, or none
          sends,      \* history: reservations per scope key and hour counted for
          overdue     \* history: reservations that committed after their hour

gate == <<counters, asking, sends, overdue>>

Hours == 0 .. MaxHour
Keys == Emails \cup {Client}
NoHour == MaxHour + 1

Init ==
    /\ hour = 0
    /\ counters = [k \in Keys |-> [start |-> 0, count |-> 0]]
    /\ asking = [e \in Emails |-> NoHour]
    /\ sends = [k \in Keys |-> [h \in Hours |-> 0]]
    /\ overdue = 0

Rollover ==
    /\ hour < MaxHour /\ hour' = hour + 1
    /\ UNCHANGED gate

Cap(k) == IF k = Client THEN ClientCap ELSE EmailCap

\* A request reads the hour; a retry after a serialization failure reads it again.
ReadHour(e) ==
    /\ asking[e] # hour
    /\ asking' = [asking EXCEPT ![e] = hour]
    /\ UNCHANGED <<hour, counters, sends, overdue>>

\* The row of an earlier hour is reset.
Current(k, h) ==
    IF counters[k].start < h THEN [start |-> h, count |-> 0] ELSE counters[k]

Free(k, h) == Current(k, h).count < Cap(k)

\* Mutant: only the row of the address is counted.
Counted_EmailOnly(e, h) ==
    [counters EXCEPT ![e] = [start |-> h, count |-> Current(e, h).count + 1]]

\* Both rows are counted up, and say the hour of the request.
Counted(e, h) ==
    [k \in Keys |-> IF k \in {e, Client}
                    THEN [start |-> h, count |-> Current(k, h).count + 1]
                    ELSE counters[k]]

\* The reservation; the mail may then fail, which gives no slot back.
Reserve(e) ==
    /\ asking[e] # NoHour
    /\ Free(e, asking[e]) /\ Free(Client, asking[e])
    /\ counters' = Counted(e, asking[e])
    /\ sends' = [k \in Keys |-> IF k \in {e, Client} THEN [sends[k] EXCEPT ![asking[e]] = @ + 1]
                                ELSE sends[k]]
    /\ overdue' = IF asking[e] < hour THEN overdue + 1 ELSE overdue
    /\ asking' = [asking EXCEPT ![e] = NoHour]
    /\ UNCHANGED hour

\* magic_link_rate_limited: the cap is reached, or the retries are; ROLLBACK.
Deny(e) ==
    /\ asking[e] # NoHour
    /\ asking' = [asking EXCEPT ![e] = NoHour]
    /\ UNCHANGED <<hour, counters, sends, overdue>>

Ask == \E e \in Emails : ReadHour(e) \/ Reserve(e) \/ Deny(e)

Next == Rollover \/ Ask

Spec == Init /\ [][Next]_<<hour, gate>>
-----------------------------------------------------------------------------
(* Properties. *)

\* The number of mails counted for an hour is bounded: only a reservation that
\* commits after its hour can make the next request reset the row, once.
SendsBounded ==
    \A k \in Keys, h \in Hours : sends[k][h] <= Cap(k) * (1 + overdue)
=============================================================================
