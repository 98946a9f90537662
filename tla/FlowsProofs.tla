----------------------------- MODULE FlowsProofs -----------------------------
(***************************************************************************)
(* What holds of the flows around the core for any users, browsers, mails, *)
(* commands and bounds: each flow by itself, as its own specification.     *)
(***************************************************************************)
EXTENDS MCFlows, SequenceTheorems, FiniteSetTheorems, TLAPS

-----------------------------------------------------------------------------
(* OssClaim: an account is bound once, and a link opens once. *)

TicketRows == [token : Nat, consumed : BOOLEAN, user : Users \cup {NoUser}, expires : Nat,
               human : BOOLEAN, continued : BOOLEAN]
CliRows == [phase : {"start", "await", "backoff", "done"}, attempts : Nat, printed : Nat,
            told : {"nothing", "failed", "link", "claimed", "rate limited"}]

ClaimTypes ==
    /\ now \in Nat
    /\ ticket \in TicketRows
    /\ cli \in CliRows
    /\ session \in [Browsers -> Users \cup {NoUser}]
    /\ minted \in Seq(Nat)

\* Nobody is bound to a run without a ticket.
BoundInv == (~Exists => ~Claimed) /\ BoundOnce

\* A token is used up before the next one is made; what was printed was made.
TokensInv ==
    /\ \A i \in DOMAIN minted : minted[i] <= ticket.token
    /\ ~ticket.consumed => \A i \in DOMAIN minted : minted[i] # ticket.token
    /\ \A i, j \in DOMAIN minted : minted[i] = minted[j] => i = j
    /\ \A t \in 1 .. ticket.token :
          (\E i \in DOMAIN minted : minted[i] = t) \/ (t = ticket.token /\ ~ticket.consumed)
    /\ cli.printed <= ticket.token

ClaimInv == ClaimTypes /\ BoundInv /\ TokensInv

LEMMA ClaimInit == Init => ClaimInv
<1> SUFFICES ASSUME Init PROVE ClaimInv OBVIOUS
<1>1. ticket = NoTicket /\ minted = <<>> /\ redeemed = <<>> BY DEF Init
<1>2. ticket \in TicketRows /\ ~Exists /\ ~Claimed /\ ticket.token = 0
  BY <1>1 DEF NoTicket, TicketRows, Exists, Claimed
<1>3. cli \in CliRows /\ cli.printed = 0 BY DEF Init, CliRows
<1>4. minted \in Seq(Nat) /\ DOMAIN minted = {} BY <1>1
<1>5. now \in Nat /\ session \in [Browsers -> Users \cup {NoUser}] BY DEF Init
<1>6. ClaimTypes BY <1>2, <1>3, <1>4, <1>5 DEF ClaimTypes
<1>7. BoundInv BY <1>1, <1>2 DEF BoundInv, BoundOnce
<1>8. TokensInv BY <1>2, <1>3, <1>4 DEF TokensInv
<1> QED BY <1>6, <1>7, <1>8 DEF ClaimInv

\* A repeated POST leaves who is bound, and rotates the token only once it is used.
LEMMA PostStep ==
    ASSUME ClaimInv, NEW code, PostTicket(code), UNCHANGED <<now, minted, redeemed>>,
           session' \in [Browsers -> Users \cup {NoUser}],
           cli' \in CliRows, cli'.printed \in {cli.printed, ticket'.token}
    PROVE  ClaimInv'
<1>1. ticket \in TicketRows /\ ticket.token \in Nat /\ ticket.consumed \in BOOLEAN
  BY DEF ClaimInv, ClaimTypes, TicketRows
<1>2. /\ ticket' \in TicketRows /\ ticket'.user = ticket.user
      /\ \/ ticket'.token = ticket.token /\ ticket'.consumed = ticket.consumed
         \/ /\ ticket'.token = ticket.token + 1 /\ ~ticket'.consumed
            /\ ticket.token # 0 => ticket.consumed
  <2>1. CASE ~Exists /\ ~Refused
    <3>1. PICK human \in BOOLEAN :
            ticket' = [token |-> 1, consumed |-> FALSE, user |-> NoUser,
                       expires |-> now + TicketTtl, human |-> human, continued |-> FALSE]
      BY <2>1 DEF PostTicket
    <3>2. now + TicketTtl \in Nat
      BY OssClaimAssumption DEF OssClaimAssumption, ClaimInv, ClaimTypes
    <3>3. ticket'.token = 1 /\ ~ticket'.consumed /\ ticket'.user = NoUser BY <3>1
    <3>4. ticket.token = 0 /\ ticket.user = NoUser
      BY <2>1 DEF Exists, ClaimInv, BoundInv, Claimed
    <3>5. ticket' \in TicketRows BY <3>1, <3>2 DEF TicketRows
    <3> QED BY <3>3, <3>4, <3>5
  <2>2. CASE UNCHANGED ticket
    BY <2>2, <1>1
  <2>3. CASE ticket' = Reminted /\ ticket.consumed
    <3>1. ticket' = [ticket EXCEPT !.token = @ + 1, !.consumed = FALSE]
      BY <2>3 DEF Reminted
    <3>2. ticket'.token = ticket.token + 1 /\ ticket'.consumed = FALSE
          /\ ticket'.user = ticket.user
      BY <3>1, <1>1 DEF TicketRows
    <3> PICK token \in Nat : token = ticket.token + 1 BY <1>1
    <3>3. ticket' = [ticket EXCEPT !.token = token, !.consumed = FALSE] BY <3>1
    <3>4. ticket' \in TicketRows BY <3>3, <1>1 DEF TicketRows
    <3> QED BY <2>3, <3>2, <3>4
  <2> QED BY <2>1, <2>2, <2>3 DEF PostTicket, Reminted
<1>3. ClaimTypes' BY <1>2 DEF ClaimInv, ClaimTypes
<1>4. BoundInv'
  <2>1. ticket'.token = 0 => ticket.token = 0 BY <1>1, <1>2
  <2> QED BY <2>1, <1>2 DEF ClaimInv, BoundInv, BoundOnce, Exists, Claimed
<1>5. TokensInv'
  <2>1. TokensInv /\ DOMAIN minted' = DOMAIN minted /\ \A i \in DOMAIN minted : minted[i] \in Nat
    BY DEF ClaimInv, ClaimTypes
  <2>2. cli.printed \in Nat BY DEF ClaimInv, ClaimTypes, CliRows
  <2> QED BY <2>1, <2>2, <1>1, <1>2 DEF TokensInv
<1> QED BY <1>3, <1>4, <1>5 DEF ClaimInv

\* What BoundInv reads of the ticket, and TokensInv of the ticket and the command.
LEMMA ClaimStays ==
    ASSUME ClaimInv, now' \in Nat, ticket' \in TicketRows,
           cli' \in CliRows, cli'.printed = cli.printed,
           session' \in [Browsers -> Users \cup {NoUser}], UNCHANGED <<minted, redeemed>>,
           ticket'.token = ticket.token, ticket'.consumed = ticket.consumed,
           ticket'.user = ticket.user
    PROVE  ClaimInv'
<1>1. ClaimTypes' BY DEF ClaimInv, ClaimTypes
<1>2. BoundInv' BY DEF ClaimInv, BoundInv, BoundOnce, Exists, Claimed
<1>3. TokensInv' BY DEF ClaimInv, TokensInv
<1> QED BY <1>1, <1>2, <1>3 DEF ClaimInv

\* The command prints the link it is answered with, if it hears the answer.
LEMMA CommandStep ==
    ASSUME ClaimInv, Command \/ RegisterLate
    PROVE  ClaimInv'
<1>1. /\ cli \in CliRows /\ now \in Nat /\ ticket \in TicketRows
      /\ session \in [Browsers -> Users \cup {NoUser}]
  BY DEF ClaimInv, ClaimTypes
<1>2. CASE Attempt
  <2>1. cli' \in CliRows /\ cli'.printed = cli.printed
    <3>1. NextAttempt \in Nat
      <4>1. cli.attempts \in Nat BY <1>1 DEF CliRows
      <4> QED BY <4>1 DEF NextAttempt
    <3> PICK n \in Nat : n = NextAttempt BY <3>1
    <3>2. cli' = [cli EXCEPT !.phase = "await", !.attempts = n] BY <1>2 DEF Attempt
    <3> QED BY <1>1, <3>2 DEF CliRows
  <2> QED BY <1>1, <1>2, <2>1, ClaimStays DEF Attempt, browsers
<1>3. ASSUME AttemptFailed PROVE cli' \in CliRows /\ cli'.printed = cli.printed
  BY <1>1, <1>3 DEF AttemptFailed, CliRows
<1>4. CASE TimeOut
  BY <1>1, <1>3, <1>4, ClaimStays DEF TimeOut, browsers
<1>5. ASSUME NEW code \in PostCodes, PostTicket(code), Told(code)
      PROVE  cli' \in CliRows /\ cli'.printed \in {cli.printed, ticket'.token}
  <2>1. ticket'.token \in Nat
    <3>1. CASE ticket' = ticket BY <3>1, <1>1 DEF TicketRows
    <3>2. CASE ticket' = Reminted BY <3>2, <1>1 DEF Reminted, TicketRows
    <3>3. CASE ~Exists /\ ~Refused BY <1>5, <3>3 DEF PostTicket
    <3> QED BY <1>5, <3>1, <3>2, <3>3 DEF PostTicket
  <2>2. PICK token \in Nat : token = ticket'.token BY <2>1
  <2>3. CASE code = "HANDOFF_URL"
    <3>1. cli' = [cli EXCEPT !.phase = "done", !.told = "link", !.printed = token]
      BY <1>5, <2>2, <2>3 DEF Told
    <3> QED BY <1>1, <2>2, <3>1 DEF CliRows
  <2>4. CASE code = "NO_CONTENT"
    <3>1. cli' = [cli EXCEPT !.phase = "done", !.told = "claimed"]
      BY <1>5, <2>4 DEF Told
    <3> QED BY <1>1, <3>1 DEF CliRows
  <2>5. CASE code = "RATE_LIMITED"
    <3>1. cli' = [cli EXCEPT !.phase = "done", !.told = "rate limited"]
      BY <1>5, <2>5 DEF Told
    <3> QED BY <1>1, <3>1 DEF CliRows
  <2> QED BY <2>3, <2>4, <2>5 DEF PostCodes
<1>6. CASE Register
  BY <1>1, <1>3, <1>5, <1>6, PostStep DEF Register, browsers
<1>7. CASE RegisterLate
  BY <1>1, <1>7, PostStep DEF RegisterLate, browsers
<1> QED BY <1>2, <1>4, <1>6, <1>7 DEF Command

\* The link of the ticket is used up, and no other token is minted.
LEMMA OpenStep ==
    ASSUME ClaimInv, NEW b \in Browsers, Open(b)
    PROVE  ClaimInv'
<1>1. /\ UNCHANGED <<now, cli, session, redeemed>> /\ ticket \in TicketRows
      /\ ClaimTypes /\ BoundInv /\ TokensInv
  BY DEF Open, command, ClaimInv, ClaimTypes
<1>2. CASE OpenDeadLink(b, cli.printed)
  BY <1>1, <1>2, ClaimStays DEF OpenDeadLink, ClaimTypes
<1>3. CASE OpenLink(b, cli.printed)
  <2>1. /\ ticket' = [ticket EXCEPT !.consumed = TRUE]
        /\ minted' = Append(minted, cli.printed)
        /\ cli.printed = ticket.token /\ ~ticket.consumed
    BY <1>3 DEF OpenLink, Usable
  <2>2. /\ ticket' \in TicketRows /\ ticket'.consumed = TRUE
        /\ ticket'.token = ticket.token /\ ticket'.user = ticket.user
    BY <2>1, <1>1 DEF TicketRows
  <2>3. ticket.token \in Nat /\ cli.printed \in Nat
    BY <1>1 DEF TicketRows, ClaimTypes, CliRows
  <2>4. /\ minted' \in Seq(Nat) /\ Len(minted) \in Nat
        /\ minted'[Len(minted) + 1] = ticket.token
        /\ Len(minted) + 1 \notin DOMAIN minted
        /\ DOMAIN minted' = DOMAIN minted \cup {Len(minted) + 1}
        /\ \A i \in DOMAIN minted : minted'[i] = minted[i]
    BY <2>1, <2>3, <1>1 DEF ClaimTypes
  <2>5. ClaimTypes' BY <1>1, <2>2, <2>4 DEF ClaimTypes
  <2>6. BoundInv' BY <1>1, <2>2 DEF BoundInv, BoundOnce, Exists, Claimed
  <2>7. TokensInv'
    <3> PICK n : n = Len(minted) + 1 OBVIOUS
    <3>1. /\ \A i \in DOMAIN minted' : i = n \/ i \in DOMAIN minted
          /\ minted'[n] = ticket.token /\ n \notin DOMAIN minted /\ n \in DOMAIN minted'
      BY <2>4
    <3>2. \A i, j \in DOMAIN minted' : minted'[i] = minted'[j] => i = j
      BY <1>1, <2>1, <2>4, <3>1 DEF TokensInv
    <3>3. \A i \in DOMAIN minted' : minted'[i] <= ticket.token
      BY <1>1, <2>3, <2>4, <3>1 DEF TokensInv
    <3>4. \A t \in 1 .. ticket.token : \E i \in DOMAIN minted' : minted'[i] = t
      BY <1>1, <2>1, <2>4, <3>1 DEF TokensInv
    <3> QED BY <1>1, <2>1, <2>2, <3>2, <3>3, <3>4 DEF TokensInv
  <2> QED BY <2>5, <2>6, <2>7 DEF ClaimInv
<1> QED BY <1>2, <1>3 DEF Open

\* Only a ticket that exists and is not claimed binds an account.
LEMMA RedeemStep ==
    ASSUME ClaimInv, NEW u \in Users, RedeemFor(u)
    PROVE  ClaimInv'
<1>1. /\ UNCHANGED <<now, cli, session, minted>> /\ ticket \in TicketRows
      /\ ClaimTypes /\ BoundInv /\ TokensInv
  BY DEF RedeemFor, command, ClaimInv, ClaimTypes
<1>2. CASE RedeemCode(u) # "BOUND"
  BY <1>1, <1>2, ClaimStays DEF RedeemFor, ClaimTypes
<1>3. CASE RedeemCode(u) = "BOUND"
  <2>1. Exists /\ ticket.user = NoUser
    BY <1>1, <1>3 DEF RedeemCode, OtherAccount, Claimed, BoundInv
  <2>2. /\ ticket' = [ticket EXCEPT !.user = u] /\ redeemed' = Append(redeemed, u)
    BY <1>3 DEF RedeemFor
  <2>3. /\ ticket' \in TicketRows /\ ticket'.consumed = ticket.consumed
        /\ ticket'.token = ticket.token /\ ticket'.user = u
    BY <2>2, <1>1 DEF TicketRows
  <2>4. redeemed = <<>> BY <1>1, <2>1 DEF BoundInv, BoundOnce, Claimed
  <2>5. redeemed' = <<u>> BY <2>2, <2>4
  <2>6. BoundInv'
    BY <2>1, <2>3, <2>5, OssClaimAssumption DEF OssClaimAssumption, BoundInv, BoundOnce, Exists, Claimed
  <2>7. ClaimTypes' BY <1>1, <2>3 DEF ClaimTypes
  <2>8. TokensInv' BY <1>1, <2>3 DEF TokensInv
  <2> QED BY <2>6, <2>7, <2>8 DEF ClaimInv
<1> QED BY <1>2, <1>3

LEMMA ClaimStep == ClaimInv /\ [Next]_vars => ClaimInv'
<1> SUFFICES ASSUME ClaimInv, [Next]_vars PROVE ClaimInv' OBVIOUS
<1>1. /\ ClaimTypes /\ ticket \in TicketRows /\ cli \in CliRows /\ now \in Nat
      /\ session \in [Browsers -> Users \cup {NoUser}]
  BY DEF ClaimInv, ClaimTypes
<1>2. CASE UNCHANGED vars
  BY <1>1, <1>2, ClaimStays DEF vars, command, browsers
<1>3. CASE Tick \/ OthersUseCap
  BY <1>1, <1>3, ClaimStays DEF Tick, OthersUseCap, command, browsers
<1>4. CASE Command \/ RegisterLate BY <1>4, CommandStep
<1>5. CASE Claiming
  <2>1. ASSUME NEW b \in Browsers, Redeem(b) PROVE ClaimInv'
    <3>1. session[b] \in Users BY <1>1, <2>1 DEF Redeem
    <3> PICK u \in Users : u = session[b] BY <3>1
    <3> QED BY <2>1, RedeemStep DEF Redeem
  <2>2. ASSUME NEW b \in Browsers, RedeemFails(b) PROVE ClaimInv'
    BY <1>1, <2>2, ClaimStays DEF RedeemFails, command
  <2>3. CASE Continue
    <3>1. /\ ticket' \in TicketRows /\ ticket'.consumed = ticket.consumed
          /\ ticket'.token = ticket.token /\ ticket'.user = ticket.user
      BY <1>1, <2>3 DEF Continue, TicketRows
    <3> QED BY <1>1, <2>3, <3>1, ClaimStays DEF Continue, command, browsers
  <2> QED BY <1>5, <2>1, <2>2, <2>3, OpenStep, RedeemStep DEF Claiming, RedeemBySecret
<1>6. CASE SignIns
  BY <1>1, <1>6, ClaimStays DEF SignIns, SignIn, command
<1> QED BY <1>2, <1>3, <1>4, <1>5, <1>6 DEF Next

\* However many browsers and accounts redeem a run, and however often its ticket is
\* registered again, one account is bound, once (POST /api/oss/claim-redeem).
THEOREM BoundSafe == Spec => []BoundOnce
<1>1. ClaimInv => BoundOnce BY DEF ClaimInv, BoundInv
<1> QED BY ClaimInit, ClaimStep, <1>1, PTL DEF Spec

\* A token is traded for a cookie at most once; the printed link is the ticket's until
\* it is opened (runOssClaimHandoffGet, the rotation in POST /api/oss/claim-ticket).
THEOREM LinkSafe == Spec => []LinkOpensOnce
<1>1. ClaimInv => LinkOpensOnce
  <2> SUFFICES ASSUME ClaimInv PROVE LinkOpensOnce OBVIOUS
  <2>1. TokensInv /\ ticket.token \in Nat /\ cli.printed \in Nat
    BY DEF ClaimInv, ClaimTypes, TicketRows, CliRows
  <2>2. ASSUME cli.printed # 0, cli.printed \notin {minted[i] : i \in DOMAIN minted}
        PROVE  ticket.token = cli.printed /\ ~ticket.consumed
    <3>1. cli.printed \in 1 .. ticket.token BY <2>1, <2>2 DEF TokensInv
    <3> QED BY <2>1, <2>2, <3>1 DEF TokensInv
  <2> QED BY <2>1, <2>2 DEF LinkOpensOnce, TokensInv
<1> QED BY ClaimInit, ClaimStep, <1>1, PTL DEF Spec
-----------------------------------------------------------------------------
(* SendGate: a request that commits after its hour costs one hour's slots. *)

GateTypes ==
    /\ hour \in Mail!Hours
    /\ counters \in [Mail!Keys -> [start : Mail!Hours, count : Nat]]
    /\ asking \in [Emails -> Mail!Hours \cup {Mail!NoHour}]
    /\ sends \in [Mail!Keys -> [Mail!Hours -> Nat]]
    /\ overdue \in Nat

\* No row and no request is ahead of the clock, and no row above its cap.
RowsBehind ==
    /\ \A k \in Mail!Keys : counters[k].start <= hour /\ counters[k].count <= Mail!Cap(k)
    /\ \A e \in Emails : asking[e] # Mail!NoHour => asking[e] <= hour

\* spent: what the overdue reservations so far can have cost a row of this cap.
Within(row, h, n, spent, cap) ==
    /\ row.start < h => n <= spent
    /\ row.start = h => n <= spent + row.count
    /\ row.start > h => n <= spent + cap

SentWithin ==
    \A k \in Mail!Keys, h \in Mail!Hours :
        Within(counters[k], h, sends[k][h], Mail!Cap(k) * overdue, Mail!Cap(k))

GateInv == GateTypes /\ RowsBehind /\ SentWithin

LEMMA GateNumbers ==
    /\ \A k : Mail!Cap(k) \in Nat
    /\ Mail!Hours \subseteq Nat /\ 0 \in Mail!Hours
    /\ \A cap, n \in Nat : cap * n \in Nat /\ cap * (n + 1) = cap * n + cap
<1>1. \A k : Mail!Cap(k) \in Nat BY FlowsAssumption DEF FlowsAssumption, Mail!Cap
<1>2. Mail!Hours \subseteq Nat /\ 0 \in Mail!Hours
  BY FlowsAssumption DEF FlowsAssumption, Mail!Hours
<1>3. \A cap, n \in Nat : cap * n \in Nat /\ cap * (n + 1) = cap * n + cap OBVIOUS
<1> QED BY <1>1, <1>2, <1>3

LEMMA GateInit == Mail!Init => GateInv
<1> SUFFICES ASSUME Mail!Init PROVE GateInv OBVIOUS
<1>1. /\ \A k \in Mail!Keys : counters[k].start = 0 /\ counters[k].count = 0
      /\ \A k \in Mail!Keys, h \in Mail!Hours : sends[k][h] = 0
      /\ \A e \in Emails : asking[e] = Mail!NoHour
      /\ hour = 0 /\ overdue = 0
  BY DEF Mail!Init
<1>2. GateTypes BY GateNumbers DEF Mail!Init, GateTypes
<1>3. RowsBehind BY <1>1, GateNumbers DEF RowsBehind
<1>4. SentWithin
  <2>1. \A k \in Mail!Keys : Mail!Cap(k) * overdue \in Nat BY <1>1, GateNumbers
  <2> QED BY <2>1, <1>1, GateNumbers DEF SentWithin, Within
<1> QED BY <1>2, <1>3, <1>4 DEF GateInv

\* Both rows are counted up for the hour that was read, which may be behind theirs.
LEMMA ReserveStep ==
    ASSUME GateInv, NEW e \in Emails, Mail!Reserve(e)
    PROVE  GateInv'
<1> PICK h0 : h0 = asking[e] OBVIOUS
<1>1. GateTypes /\ RowsBehind /\ SentWithin /\ h0 \in Mail!Hours /\ h0 <= hour /\ h0 \in Nat
  <2>1. asking[e] # Mail!NoHour /\ asking[e] \in Mail!Hours \cup {Mail!NoHour}
    BY DEF Mail!Reserve, GateInv, GateTypes
  <2> QED BY <2>1, GateNumbers DEF GateInv, RowsBehind
<1>2. e \in Mail!Keys /\ Client \in Mail!Keys BY DEF Mail!Keys
<1>3. \A k \in Mail!Keys \ {e, Client} : counters'[k] = counters[k] /\ sends'[k] = sends[k]
  BY DEF Mail!Reserve, Mail!Counted
<1>4. \A k \in {e, Client} :
          /\ counters'[k] = [start |-> h0, count |-> Mail!Current(k, h0).count + 1]
          /\ sends'[k] = [sends[k] EXCEPT ![h0] = @ + 1]
          /\ Mail!Current(k, h0).count < Mail!Cap(k)
  BY <1>2 DEF Mail!Reserve, Mail!Counted, Mail!Free
<1>5. /\ asking' = [asking EXCEPT ![e] = Mail!NoHour] /\ UNCHANGED hour
      /\ overdue' = IF h0 < hour THEN overdue + 1 ELSE overdue
      /\ overdue' \in Nat
  BY <1>1 DEF Mail!Reserve, GateTypes
<1>6. \A k \in {e, Client} :
          /\ counters'[k] \in [start : Mail!Hours, count : Nat]
          /\ counters'[k].start = h0
          /\ counters[k].start < h0 => counters'[k].count = 1
          /\ ~(counters[k].start < h0) => counters'[k].count = counters[k].count + 1
          /\ counters'[k].count <= Mail!Cap(k)
  <2> SUFFICES ASSUME NEW k \in {e, Client}
               PROVE  /\ counters'[k] \in [start : Mail!Hours, count : Nat]
                      /\ counters'[k].start = h0
                      /\ counters[k].start < h0 => counters'[k].count = 1
                      /\ ~(counters[k].start < h0) => counters'[k].count = counters[k].count + 1
                      /\ counters'[k].count <= Mail!Cap(k)
    OBVIOUS
  <2>1. counters[k] \in [start : Mail!Hours, count : Nat] /\ Mail!Cap(k) \in Nat
    BY <1>1, <1>2, GateNumbers DEF GateTypes
  <2>2. /\ Mail!Current(k, h0).count \in Nat
        /\ Mail!Current(k, h0).count = IF counters[k].start < h0 THEN 0 ELSE counters[k].count
    BY <2>1 DEF Mail!Current
  <2> PICK n \in Nat : n = Mail!Current(k, h0).count BY <2>2
  <2>3. counters'[k] = [start |-> h0, count |-> n + 1] /\ n < Mail!Cap(k) BY <1>4
  <2>4. counters'[k].start = h0 /\ counters'[k].count = n + 1 BY <2>3
  <2>5. counters'[k] \in [start : Mail!Hours, count : Nat] BY <2>3, <1>1
  <2> QED BY <2>1, <2>2, <2>3, <2>4, <2>5
<1>7. GateTypes'
  <2>1. \A k \in Mail!Keys : counters'[k] \in [start : Mail!Hours, count : Nat]
    BY <1>1, <1>3, <1>6 DEF GateTypes
  <2>2. \A k \in Mail!Keys : sends'[k] \in [Mail!Hours -> Nat]
    <3>1. ASSUME NEW k \in {e, Client} PROVE sends'[k] \in [Mail!Hours -> Nat]
      <4>1. sends[k] \in [Mail!Hours -> Nat] BY <1>1, <1>2 DEF GateTypes
      <4>2. sends[k][h0] + 1 \in Nat BY <1>1, <4>1
      <4>3. sends'[k] = [sends[k] EXCEPT ![h0] = sends[k][h0] + 1] BY <1>4
      <4> QED BY <4>1, <4>2, <4>3
    <3> QED BY <3>1, <1>1, <1>3 DEF GateTypes
  <2>3. counters' = [k \in Mail!Keys |-> counters'[k]] /\ sends' = [k \in Mail!Keys |-> sends'[k]]
    BY DEF Mail!Reserve, Mail!Counted
  <2> QED BY <2>1, <2>2, <2>3, <1>1, <1>5 DEF GateTypes
<1>8. RowsBehind'
  BY <1>1, <1>3, <1>5, <1>6 DEF RowsBehind, GateTypes
<1>9. SentWithin'
  <2> SUFFICES ASSUME NEW k \in Mail!Keys, NEW h \in Mail!Hours
               PROVE  Within(counters'[k], h, sends'[k][h], Mail!Cap(k) * overdue', Mail!Cap(k))
    BY DEF SentWithin, Mail!Cap
  <2> PICK cap \in Nat : cap = Mail!Cap(k) BY GateNumbers
  <2> PICK spent \in Nat : spent = cap * overdue BY <1>1, GateNumbers DEF GateTypes
  <2> PICK after \in Nat : after = cap * overdue' BY <1>5, GateNumbers
  <2> PICK n \in Nat : n = sends[k][h] BY <1>1 DEF GateTypes
  <2> PICK row \in [start : Nat, count : Nat] : row = counters[k]
    BY <1>1, GateNumbers DEF GateTypes
  <2> PICK new \in [start : Nat, count : Nat] : new = counters'[k]
    BY <1>7, GateNumbers DEF GateTypes
  <2>1. Within(row, h, n, spent, cap) /\ row.count <= cap /\ row.start <= hour /\ h \in Nat
    BY <1>1, GateNumbers DEF SentWithin, RowsBehind
  <2>2. (after = spent \/ after = spent + cap) /\ (h0 < hour => after = spent + cap)
    BY <1>1, <1>5, GateNumbers DEF GateTypes
  <2>3. h0 < row.start => after = spent + cap
    BY <2>1, <2>2, <1>1, GateNumbers DEF GateTypes
  <2>4. CASE k \in {e, Client}
    <3>1. sends'[k] = [sends[k] EXCEPT ![h0] = @ + 1] /\ sends[k] \in [Mail!Hours -> Nat]
      BY <2>4, <1>1, <1>4 DEF GateTypes
    <3> PICK m \in Nat : m = sends'[k][h] /\ m = IF h = h0 THEN n + 1 ELSE n
      BY <3>1, <1>1
    <3>2. /\ new.start = h0 /\ (row.start < h0 => new.count = 1)
          /\ ~(row.start < h0) => new.count = row.count + 1
      BY <2>4, <1>6
    <3>3. Within(new, h, m, after, cap)
      <4> PICK s \in Nat : s = row.start OBVIOUS
      <4> PICK c \in Nat : c = row.count OBVIOUS
      <4> PICK d \in Nat : d = new.count OBVIOUS
      <4>1. /\ s < h => n <= spent
            /\ s = h => n <= spent + c
            /\ s > h => n <= spent + cap
        BY <2>1 DEF Within
      <4>2. /\ s < h0 => d = 1
            /\ ~(s < h0) => d = c + 1
            /\ c <= cap /\ (h0 < s => after = spent + cap)
            /\ h \in Nat /\ h0 \in Nat
        BY <3>2, <2>1, <2>3, <1>1
      <4>3. /\ h0 < h => m <= after
            /\ h0 = h => m <= after + d
            /\ h0 > h => m <= after + cap
        BY <4>1, <4>2, <2>2
      <4> QED BY <3>2, <4>3 DEF Within
    <3> QED BY <3>3
  <2>5. CASE k \notin {e, Client}
    <3>1. new = row /\ sends'[k][h] = n BY <2>5, <1>3
    <3>2. spent <= after BY <2>2
    <3>3. Within(row, h, n, after, cap)
      <4> PICK s \in Nat : s = row.start OBVIOUS
      <4> PICK c \in Nat : c = row.count OBVIOUS
      <4>1. /\ s < h => n <= spent
            /\ s = h => n <= spent + c
            /\ s > h => n <= spent + cap
        BY <2>1 DEF Within
      <4>2. /\ s < h => n <= after
            /\ s = h => n <= after + c
            /\ s > h => n <= after + cap
        BY <3>2, <4>1
      <4> QED BY <4>2 DEF Within
    <3> QED BY <3>1, <3>3
  <2> QED BY <2>4, <2>5
<1> QED BY <1>7, <1>8, <1>9 DEF GateInv

LEMMA GateStep == GateInv /\ [Mail!Next]_<<hour, Mail!gate>> => GateInv'
<1> SUFFICES ASSUME GateInv, [Mail!Next]_<<hour, Mail!gate>> PROVE GateInv' OBVIOUS
<1>1. ASSUME UNCHANGED <<counters, sends, overdue>>, hour' \in Mail!Hours, hour <= hour',
             asking' \in [Emails -> Mail!Hours \cup {Mail!NoHour}],
             \A e \in Emails : asking'[e] \in {asking[e], hour, Mail!NoHour}
      PROVE  GateInv'
  <2>1. GateTypes' BY <1>1 DEF GateInv, GateTypes
  <2>2. RowsBehind'
    <3>1. \A x \in Mail!Hours : x <= hour => x <= hour'
      BY <1>1, GateNumbers DEF GateInv, GateTypes
    <3>2. hour \in Mail!Hours /\ hour <= hour
      BY GateNumbers DEF GateInv, GateTypes
    <3>3. \A k \in Mail!Keys : counters[k].start \in Mail!Hours BY DEF GateInv, GateTypes
    <3>4. \A e \in Emails : asking[e] \in Mail!Hours \cup {Mail!NoHour}
      BY DEF GateInv, GateTypes
    <3> QED BY <1>1, <3>1, <3>2, <3>3, <3>4 DEF GateInv, RowsBehind, Mail!Cap, Mail!NoHour
  <2>3. SentWithin' BY <1>1 DEF GateInv, SentWithin, Mail!Cap
  <2> QED BY <2>1, <2>2, <2>3 DEF GateInv
<1>2. hour \in Mail!Hours /\ hour \in Nat BY GateNumbers DEF GateInv, GateTypes
<1>3. CASE UNCHANGED <<hour, Mail!gate>>
  BY <1>1, <1>2, <1>3 DEF Mail!gate, GateInv, GateTypes
<1>4. CASE Mail!Rollover
  <2>1. hour' \in Mail!Hours /\ hour <= hour'
    BY <1>2, <1>4, FlowsAssumption DEF FlowsAssumption, Mail!Rollover, Mail!Hours
  <2> QED BY <1>1, <1>4, <2>1 DEF Mail!Rollover, Mail!gate, GateInv, GateTypes
<1>5. ASSUME NEW e \in Emails, Mail!ReadHour(e) \/ Mail!Deny(e) PROVE GateInv'
  <2>1. UNCHANGED <<hour, counters, sends, overdue>> BY <1>5 DEF Mail!ReadHour, Mail!Deny
  <2>2. asking' = [asking EXCEPT ![e] = hour] \/ asking' = [asking EXCEPT ![e] = Mail!NoHour]
    BY <1>5 DEF Mail!ReadHour, Mail!Deny
  <2> QED BY <1>1, <1>2, <2>1, <2>2 DEF GateInv, GateTypes
<1> QED BY <1>3, <1>4, <1>5, ReserveStep DEF Mail!Next, Mail!Ask

\* However many requests wait for the counter rows and commit after their hour, each of
\* them lets at most one hour's cap of further mails through (runReservationTxn).
THEOREM SendsSafe == Mail!Spec => []SendsBounded
<1>1. GateInv => SendsBounded
  <2> SUFFICES ASSUME GateInv, NEW k \in Mail!Keys, NEW h \in Mail!Hours
               PROVE  sends[k][h] <= Mail!Cap(k) * (1 + overdue)
    BY DEF SendsBounded, Mail!SendsBounded
  <2> PICK cap \in Nat : cap = Mail!Cap(k) BY GateNumbers
  <2> PICK spent \in Nat : spent = cap * overdue BY GateNumbers DEF GateInv, GateTypes
  <2> PICK n \in Nat : n = sends[k][h] BY DEF GateInv, GateTypes
  <2> PICK row \in [start : Mail!Hours, count : Nat] : row = counters[k]
    BY DEF GateInv, GateTypes
  <2>1. Within(row, h, n, spent, cap) /\ row.count <= cap
    BY DEF GateInv, SentWithin, RowsBehind
  <2>2. n <= spent + cap
    <3> PICK s \in Nat : s = row.start BY GateNumbers
    <3> PICK c \in Nat : c = row.count OBVIOUS
    <3>1. h \in Nat BY GateNumbers
    <3>2. /\ s < h => n <= spent
          /\ s = h => n <= spent + c
          /\ s > h => n <= spent + cap
          /\ c <= cap
      BY <2>1 DEF Within
    <3> QED BY <3>1, <3>2
  <2>3. cap * (1 + overdue) = spent + cap
    <3>1. overdue \in Nat BY DEF GateInv, GateTypes
    <3>2. 1 + overdue = overdue + 1 BY <3>1
    <3> QED BY <3>1, <3>2, GateNumbers
  <2> QED BY <2>2, <2>3
<1> QED BY GateInit, GateStep, <1>1, PTL DEF Mail!Spec
-----------------------------------------------------------------------------
(* LocalHistory: what has a place in the history was stored. *)

Entries == [run : Commands, workflow : Workflows \cup {"none"}]
FileStates == [History!FileNames -> {"absent", "partial", "whole"}]
Phases == {"idle", "prior", "write", "evict", "read back", "compare", "done", "failed"}
LoopRows == [phase : Phases, workflow : Workflows \cup {"none"}, view : Seq(Entries),
             prior : Seq(Commands), written : 0 .. 3, victims : SUBSET Commands,
             compared : {"none", "no anchor", "absent", "partial", "whole"}]

Stored(run) == loop[run].written = 3

\* No entry, no copy of the index and no choice names a run that was not stored.
HistoryInv ==
    /\ index \in Seq(Entries)
    /\ files \in [Commands -> FileStates]
    /\ loop \in [Commands -> LoopRows]
    /\ \A i \in DOMAIN index : Stored(index[i].run)
    /\ \A c \in Commands :
          /\ \A i \in DOMAIN loop[c].view : Stored(loop[c].view[i].run)
          /\ \A v \in loop[c].victims : Stored(v)
          /\ \A i \in DOMAIN loop[c].prior : Stored(loop[c].prior[i])
          /\ \A k \in 1 .. loop[c].written : files[c][History!Names[k]] # "partial"
          /\ loop[c].compared # "partial"

LEMMA HistoryInit == History!Init => HistoryInv
<1> SUFFICES ASSUME History!Init PROVE HistoryInv OBVIOUS
<1>1. History!NewLoop \in LoopRows
  <2>1. <<>> \in Seq(Entries) /\ <<>> \in Seq(Commands) /\ {} \in SUBSET Commands /\ 0 \in 0 .. 3
    OBVIOUS
  <2> QED BY <2>1 DEF History!NewLoop, History!NoRun, LoopRows, Phases
<1>2. /\ index = <<>> /\ files = [c \in Commands |-> [f \in History!FileNames |-> "absent"]]
      /\ loop = [c \in Commands |-> History!NewLoop]
  BY DEF History!Init
<1>3. \A c \in Commands : loop[c].view = <<>> /\ loop[c].victims = {} /\ loop[c].prior = <<>>
                          /\ loop[c].written = 0 /\ loop[c].compared = "none"
  BY <1>2 DEF History!NewLoop, History!NoRun
<1> QED BY <1>1, <1>2, <1>3 DEF HistoryInv, FileStates

\* A step of one command, which may have written one more file.
LEMMA HistoryKept ==
    ASSUME HistoryInv, NEW c \in Commands, NEW row \in LoopRows,
           loop' = [loop EXCEPT ![c] = row], Stored(c) => row.written = 3,
           index' \in Seq(Entries), \A i \in DOMAIN index' : Stored(index'[i].run),
           \A i \in DOMAIN row.view : Stored(row.view[i].run),
           \A v \in row.victims : Stored(v),
           \A i \in DOMAIN row.prior : Stored(row.prior[i]),
           row.compared # "partial",
           files' \in [Commands -> FileStates],
           \A k \in 1 .. row.written : files'[c][History!Names[k]] # "partial",
           \A d \in Commands \ {c} : \A k \in 1 .. loop[d].written :
               files'[d][History!Names[k]] # "partial"
    PROVE  HistoryInv'
<1>1. loop' \in [Commands -> LoopRows] BY DEF HistoryInv
<1>2. loop'[c] = row /\ \A d \in Commands \ {c} : loop'[d] = loop[d] BY DEF HistoryInv
<1>3. \A d \in Commands : Stored(d) => loop'[d].written = 3 BY <1>2 DEF Stored
<1>4. \A i \in DOMAIN index' : loop'[index'[i].run].written = 3
  <2>1. \A i \in DOMAIN index' : index'[i] \in Entries OBVIOUS
  <2>2. \A i \in DOMAIN index' : index'[i].run \in Commands BY <2>1 DEF Entries
  <2> QED BY <1>3, <2>2
<1>5. ASSUME NEW d \in Commands
      PROVE  /\ \A i \in DOMAIN loop'[d].view : loop'[loop'[d].view[i].run].written = 3
             /\ \A v \in loop'[d].victims : loop'[v].written = 3
             /\ \A i \in DOMAIN loop'[d].prior : loop'[loop'[d].prior[i]].written = 3
             /\ \A k \in 1 .. loop'[d].written : files'[d][History!Names[k]] # "partial"
             /\ loop'[d].compared # "partial"
  <2>1. loop'[d] \in LoopRows BY <1>1
  <2>2. /\ \A i \in DOMAIN loop'[d].view : loop'[d].view[i].run \in Commands
        /\ loop'[d].victims \subseteq Commands
        /\ \A i \in DOMAIN loop'[d].prior : loop'[d].prior[i] \in Commands
    <3>1. /\ loop'[d].view \in Seq(Entries) /\ loop'[d].victims \subseteq Commands
          /\ loop'[d].prior \in Seq(Commands)
      BY <2>1 DEF LoopRows
    <3>2. \A i \in DOMAIN loop'[d].view : loop'[d].view[i] \in Entries BY <3>1
    <3> QED BY <3>1, <3>2 DEF Entries
  <2> QED BY <1>2, <1>3, <2>2 DEF HistoryInv
<1> QED BY <1>1, <1>4, <1>5 DEF HistoryInv, Stored

LEMMA NamesOf ==
    /\ History!Names[1] = "events" /\ History!Names[2] = "result"
    /\ History!Names[3] = "certificate" /\ Len(History!Names) = 3
    /\ \A k \in 1 .. 3 : History!Names[k] \in History!FileNames
BY DEF History!Names, History!FileNames

\* A stored run's files are whole or removed, never partly written.
LEMMA StoredFiles ==
    ASSUME HistoryInv, NEW c \in Commands, Stored(c)
    PROVE  \A f \in History!FileNames : files[c][f] # "partial"
<1>1. \A k \in 1 .. 3 : files[c][History!Names[k]] # "partial" BY DEF HistoryInv, Stored
<1> QED BY <1>1, NamesOf DEF History!FileNames

\* What stays of the index was in it.
LEMMA KeptOf ==
    ASSUME NEW entries \in Seq(Entries)
    PROVE  /\ History!Kept(entries) \in Seq(Entries)
           /\ \A i \in DOMAIN History!Kept(entries) :
                 \E k \in DOMAIN entries : History!Kept(entries)[i] = entries[k]
<1> PICK n \in Nat : n = Len(entries) OBVIOUS
<1> PICK limit \in Nat : limit = MaxRuns /\ limit > 0 BY FlowsAssumption DEF FlowsAssumption
<1>1. CASE n > MaxRuns
  <2> PICK m \in 1 .. n : m = n - limit + 1 BY <1>1
  <2>1. History!Kept(entries) = SubSeq(entries, m, n) BY <1>1 DEF History!Kept
  <2>2. m \in Int /\ n \in Int /\ \A i \in m .. n : i \in DOMAIN entries /\ entries[i] \in Entries
    BY <1>1
  <2>3. /\ SubSeq(entries, m, n) \in Seq(Entries)
        /\ Len(SubSeq(entries, m, n)) = IF m <= n THEN n - m + 1 ELSE 0
        /\ \A i \in 1 .. n - m + 1 : SubSeq(entries, m, n)[i] = entries[m + i - 1]
    BY <2>2, SubSeqProperties
  <2> PICK kept \in Seq(Entries) : kept = SubSeq(entries, m, n) BY <2>3
  <2>4. \A i \in DOMAIN kept : m + i - 1 \in DOMAIN entries /\ kept[i] = entries[m + i - 1]
    BY <1>1, <2>3
  <2> QED BY <2>1, <2>4
<1>2. CASE ~(n > MaxRuns)
  BY <1>2 DEF History!Kept
<1> QED BY <1>1, <1>2

LEMMA HistoryAction ==
    ASSUME HistoryInv, NEW c \in Commands,
           \/ \E w \in Workflows : History!Start(c, w)
           \/ History!ChoosePrior(c) \/ History!WriteFile(c) \/ History!ReadIndex(c)
           \/ History!RemoveFile(c) \/ History!RemoveFails(c) \/ History!Persist(c)
           \/ History!ReadBack(c) \/ History!Compare(c) \/ History!Interrupt(c)
    PROVE  HistoryInv'
<1>1. /\ index \in Seq(Entries) /\ files \in [Commands -> FileStates]
      /\ loop \in [Commands -> LoopRows] /\ loop[c] \in LoopRows
      /\ \A i \in DOMAIN index : Stored(index[i].run)
      /\ \A d \in Commands : \A k \in 1 .. loop[d].written :
             files[d][History!Names[k]] # "partial"
  BY DEF HistoryInv
<1>2. /\ loop[c].view \in Seq(Entries) /\ loop[c].victims \in SUBSET Commands
      /\ loop[c].prior \in Seq(Commands) /\ loop[c].written \in 0 .. 3
  BY <1>1 DEF LoopRows
<1>3. /\ \A i \in DOMAIN loop[c].view : Stored(loop[c].view[i].run)
      /\ \A v \in loop[c].victims : Stored(v)
      /\ \A i \in DOMAIN loop[c].prior : Stored(loop[c].prior[i])
      /\ loop[c].compared # "partial"
  BY DEF HistoryInv
<1>4. <<>> \in Seq(Entries) /\ <<>> \in Seq(Commands) /\ {} \in SUBSET Commands OBVIOUS
\* Of the steps that leave the files, what is left to show of the command's new row.
<1>5. ASSUME NEW row \in LoopRows, History!Become(c, row), row.written = loop[c].written,
             UNCHANGED files, index' \in Seq(Entries),
             \A i \in DOMAIN index' : Stored(index'[i].run),
             \A i \in DOMAIN row.view : Stored(row.view[i].run),
             \A v \in row.victims : Stored(v),
             \A i \in DOMAIN row.prior : Stored(row.prior[i]),
             row.compared # "partial"
      PROVE  HistoryInv'
  BY <1>1, <1>5, HistoryKept DEF History!Become, Stored
<1>6. ASSUME NEW phase \in Phases, UNCHANGED files, index' \in {index, loop[c].view, <<>>},
             History!Become(c, [loop[c] EXCEPT !.phase = phase])
      PROVE  HistoryInv'
  <2> DEFINE row == [loop[c] EXCEPT !.phase = phase]
  <2>1. /\ row \in LoopRows /\ row.written = loop[c].written /\ row.view = loop[c].view
        /\ row.victims = loop[c].victims /\ row.prior = loop[c].prior
        /\ row.compared = loop[c].compared
    BY <1>1 DEF LoopRows
  <2>2. index' \in Seq(Entries) /\ \A i \in DOMAIN index' : Stored(index'[i].run)
    <3>1. CASE index' = index BY <1>1, <3>1
    <3>2. CASE index' = loop[c].view BY <1>2, <1>3, <3>2
    <3>3. CASE index' = <<>> BY <1>4, <3>3
    <3> QED BY <1>6, <3>1, <3>2, <3>3
  <2> HIDE DEF row
  <2> QED BY <1>3, <1>5, <1>6, <2>1, <2>2 DEF row
<1>7. CASE \E w \in Workflows : History!Start(c, w)
  <2> PICK w \in Workflows : History!Start(c, w) BY <1>7
  <2> DEFINE row == [loop[c] EXCEPT !.phase = "prior", !.workflow = w, !.view = index]
  <2>1. /\ row \in LoopRows /\ row.written = loop[c].written /\ row.view = index
        /\ row.victims = loop[c].victims /\ row.prior = loop[c].prior
        /\ row.compared = loop[c].compared
    BY <1>1 DEF LoopRows, Phases
  <2>2. UNCHANGED <<index, files>> /\ History!Become(c, row) BY DEF History!Start
  <2> HIDE DEF row
  <2> QED BY <1>1, <1>3, <1>5, <2>1, <2>2
<1>8. CASE History!ChoosePrior(c)
  <2> DEFINE Prefer(prior) == History!Become(c,
                 [loop[c] EXCEPT !.phase = "write", !.view = <<>>, !.prior = prior])
  <2>1. PICK prior \in Seq(Commands) :
            Prefer(prior) /\ \A i \in DOMAIN prior : Stored(prior[i])
    <3> DEFINE view == loop[c].view
               fits == {i \in DOMAIN view : view[i].workflow = loop[c].workflow
                                             /\ History!Present(view[i].run)}
    <3>1. CASE fits = {}
      <4>1. Prefer(<<>>)
        BY <1>8, <3>1 DEF History!ChoosePrior, History!NoRun
      <4>2. \A i \in DOMAIN <<>> : Stored(<<>>[i]) OBVIOUS
      <4> HIDE DEF Prefer
      <4> QED BY <4>1, <4>2, <1>4
    <3>2. ASSUME fits # {}
          PROVE  \E prior \in Seq(Commands) :
                     Prefer(prior) /\ \A i \in DOMAIN prior : Stored(prior[i])
      <4> PICK i \in fits : Prefer(<<view[i].run>>)
        BY <1>8, <3>2 DEF History!ChoosePrior
      <4>1. view[i] \in Entries /\ Stored(view[i].run) BY <1>2, <1>3
      <4>2. view[i].run \in Commands BY <4>1 DEF Entries
      <4> PICK run \in Commands : run = view[i].run /\ Stored(run) BY <4>1, <4>2
      <4>3. <<run>> \in Seq(Commands) /\ \A k \in DOMAIN <<run>> : Stored(<<run>>[k]) OBVIOUS
      <4> QED BY <4>3
    <3> QED BY <3>1, <3>2
  <2> DEFINE row == [loop[c] EXCEPT !.phase = "write", !.view = <<>>, !.prior = prior]
  <2>2. /\ row \in LoopRows /\ row.written = loop[c].written /\ row.view = <<>>
        /\ row.victims = loop[c].victims /\ row.prior = prior
        /\ row.compared = loop[c].compared
    BY <1>1, <1>4 DEF LoopRows, Phases
  <2>3. UNCHANGED <<index, files>> /\ History!Become(c, row) BY <1>8, <2>1 DEF History!ChoosePrior
  <2> HIDE DEF row
  <2> QED BY <1>1, <1>3, <1>5, <2>1, <2>2, <2>3
<1>9. CASE History!WriteFile(c)
  <2> PICK k \in 1 .. 3 : k = loop[c].written + 1
    BY <1>2, <1>9, NamesOf DEF History!WriteFile
  <2> PICK f \in History!FileNames : f = History!Names[k] BY NamesOf
  <2>1. /\ files[c] \in FileStates /\ ~Stored(c) /\ UNCHANGED index
    BY <1>1, <1>2, <1>9, NamesOf DEF History!WriteFile, Stored
  <2>2. \A n \in 1 .. 3 : n # k => History!Names[n] # f BY NamesOf
  <2>3. CASE files[c][f] = "absent"
    <3>1. files' = [files EXCEPT ![c][f] = "partial"] /\ loop' = loop
      BY <1>9, <2>3 DEF History!WriteFile
    <3>2. files' \in [Commands -> FileStates] BY <1>1, <3>1 DEF FileStates
    <3>3. /\ \A d \in Commands \ {c} : files'[d] = files[d]
          /\ \A g \in History!FileNames \ {f} : files'[c][g] = files[c][g]
      BY <1>1, <3>1 DEF FileStates
    <3>4. \A n \in 1 .. loop[c].written : files'[c][History!Names[n]] # "partial"
      BY <1>1, <1>2, <2>2, <3>3, NamesOf
    <3>5. loop' = [loop EXCEPT ![c] = loop[c]] BY <1>1, <3>1
    <3>6. \A d \in Commands \ {c} : \A n \in 1 .. loop[d].written :
              files'[d][History!Names[n]] # "partial"
      BY <1>1, <3>3
    <3> QED BY <1>1, <1>3, <2>1, <3>2, <3>4, <3>5, <3>6, HistoryKept
  <2>4. CASE files[c][f] # "absent"
    <3> DEFINE row == [loop[c] EXCEPT !.written = k]
    <3>1. files' = [files EXCEPT ![c][f] = "whole"] /\ loop' = [loop EXCEPT ![c] = row]
      <4>1. [loop[c] EXCEPT !.written = @ + 1] = row OBVIOUS
      <4> QED BY <1>9, <2>4, <4>1 DEF History!WriteFile, History!Become
    <3>2. files' \in [Commands -> FileStates] BY <1>1, <3>1 DEF FileStates
    <3>3. /\ \A d \in Commands \ {c} : files'[d] = files[d]
          /\ \A g \in History!FileNames \ {f} : files'[c][g] = files[c][g]
          /\ files'[c][f] = "whole"
      BY <1>1, <2>1, <3>1 DEF FileStates
    <3>4. /\ row \in LoopRows /\ row.written = k /\ row.view = loop[c].view
          /\ row.victims = loop[c].victims /\ row.prior = loop[c].prior
          /\ row.compared = loop[c].compared
      <4>1. loop[c] \in LoopRows /\ k \in 0 .. 3 BY <1>1
      <4> QED BY <4>1 DEF LoopRows
    <3> HIDE DEF row
    <3>5. \A n \in 1 .. row.written : files'[c][History!Names[n]] # "partial"
      <4>1. \A n \in 1 .. k : n \in 1 .. 3 /\ (n = k \/ n \in 1 .. loop[c].written)
        BY <1>2
      <4> QED BY <1>1, <2>2, <3>3, <3>4, <4>1, NamesOf
    <3>6. \A d \in Commands \ {c} : \A n \in 1 .. loop[d].written :
              files'[d][History!Names[n]] # "partial"
      BY <1>1, <3>3
    <3> QED BY <1>1, <1>3, <2>1, <3>1, <3>2, <3>4, <3>5, <3>6, HistoryKept
  <2> QED BY <2>3, <2>4
<1>10. CASE History!ReadIndex(c)
  <2> DEFINE entries == Append(index, History!Entry(c))
             view == History!Kept(entries)
             victims == {e.run : e \in History!ToSet(entries) \ History!ToSet(view)}
             row == [loop[c] EXCEPT !.phase = "evict", !.view = view, !.victims = victims]
  <2>1. entries \in Seq(Entries) /\ \A i \in DOMAIN entries : Stored(entries[i].run)
    <3>1. Stored(c) BY <1>10, NamesOf DEF History!ReadIndex, History!Written, Stored
    <3>2. History!Entry(c) \in Entries BY <1>1 DEF History!Entry, Entries, LoopRows
    <3>3. History!Entry(c).run = c BY DEF History!Entry
    <3> QED BY <1>1, <3>1, <3>2, <3>3
  <2> HIDE DEF entries
  <2>2. view \in Seq(Entries) /\ \A i \in DOMAIN view : Stored(view[i].run)
    BY <2>1, KeptOf
  <2>3. victims \in SUBSET Commands /\ \A v \in victims : Stored(v)
    <3>1. \A e \in History!ToSet(entries) : e \in Entries /\ Stored(e.run) BY <2>1 DEF History!ToSet
    <3> QED BY <3>1 DEF Entries
  <2> HIDE DEF view, victims
  <2>4. /\ row \in LoopRows /\ row.written = loop[c].written /\ row.view = view
        /\ row.victims = victims /\ row.prior = loop[c].prior
        /\ row.compared = loop[c].compared
    BY <1>1, <2>2, <2>3 DEF LoopRows, Phases
  <2>5. UNCHANGED <<index, files>> /\ History!Become(c, row)
    BY <1>10 DEF History!ReadIndex, entries, view, victims
  <2> HIDE DEF row
  <2> QED BY <1>1, <1>3, <1>5, <2>2, <2>3, <2>4, <2>5
<1>11. CASE History!RemoveFile(c)
  <2> PICK v \in loop[c].victims, f \in History!FileNames :
          files' = [files EXCEPT ![v][f] = "absent"]
    BY <1>11 DEF History!RemoveFile
  <2>1. UNCHANGED <<index, loop>> /\ v \in Commands BY <1>2, <1>11 DEF History!RemoveFile
  <2>2. files' \in [Commands -> FileStates] BY <1>1, <2>1 DEF FileStates
  <2>3. \A d \in Commands, g \in History!FileNames :
            files'[d][g] = files[d][g] \/ files'[d][g] = "absent"
    BY <1>1, <2>1 DEF FileStates
  <2>4. \A d \in Commands : \A k \in 1 .. loop[d].written :
            files'[d][History!Names[k]] # "partial"
    <3>1. \A d \in Commands : \A k \in 1 .. loop[d].written : k \in 1 .. 3
      <4>1. \A d \in Commands : loop[d] \in LoopRows BY <1>1
      <4>2. \A d \in Commands : loop[d].written \in 0 .. 3 BY <4>1 DEF LoopRows
      <4> QED BY <4>2
    <3> QED BY <1>1, <2>3, <3>1, NamesOf
  <2>5. loop' = [loop EXCEPT ![c] = loop[c]] BY <1>1, <2>1
  <2>6. Stored(c) => loop[c].written = 3 BY DEF Stored
  <2>7. index' \in Seq(Entries) /\ \A i \in DOMAIN index' : Stored(index'[i].run)
    BY <1>1, <2>1
  <2>8. /\ \A k \in 1 .. loop[c].written : files'[c][History!Names[k]] # "partial"
        /\ \A d \in Commands \ {c} : \A k \in 1 .. loop[d].written :
              files'[d][History!Names[k]] # "partial"
    BY <2>4
  <2> HIDE DEF Stored
  <2> QED BY <1>1, <1>3, <2>2, <2>5, <2>6, <2>7, <2>8, HistoryKept
<1>12. CASE History!RemoveFails(c)
  <2> DEFINE row == [loop[c] EXCEPT !.victims = {}]
  <2>1. /\ row \in LoopRows /\ row.written = loop[c].written /\ row.view = loop[c].view
        /\ row.victims = {} /\ row.prior = loop[c].prior
        /\ row.compared = loop[c].compared
    BY <1>1, <1>4 DEF LoopRows
  <2>2. UNCHANGED <<index, files>> /\ History!Become(c, row) BY <1>12 DEF History!RemoveFails
  <2> HIDE DEF row
  <2> QED BY <1>1, <1>3, <1>5, <2>1, <2>2
<1>13. CASE History!Persist(c)
  BY <1>6, <1>13 DEF History!Persist, Phases
<1>14. CASE History!ReadBack(c)
  BY <1>6, <1>14 DEF History!ReadBack, Phases
<1>15. CASE History!Compare(c)
  <2>1. PICK compared \in {"none", "no anchor", "absent", "whole"} :
            History!Become(c, [loop[c] EXCEPT !.phase = "done", !.compared = compared])
    <3>1. CASE loop[c].prior = <<>> BY <1>15, <3>1 DEF History!Compare, History!NoRun
    <3>2. CASE loop[c].prior # <<>>
      <4>1. 1 \in DOMAIN loop[c].prior /\ loop[c].prior[1] \in Commands BY <1>2, <3>2
      <4> PICK p \in Commands : p = loop[c].prior[1] BY <4>1
      <4>2. Stored(p) BY <1>3, <4>1
      <4>3. files[p].result # "partial" BY <4>2, StoredFiles DEF History!FileNames
      <4>4. files[p] \in FileStates BY <1>1
      <4>5. files[p].result \in {"absent", "whole"} BY <4>3, <4>4 DEF FileStates, History!FileNames
      <4>6. History!Become(c, [loop[c] EXCEPT !.phase = "done",
                !.compared = IF files[p].result = "absent" THEN "no anchor" ELSE files[p].result])
        BY <1>15, <3>2 DEF History!Compare, History!NoRun
      <4> QED BY <4>5, <4>6
    <3> QED BY <3>1, <3>2
  <2> DEFINE row == [loop[c] EXCEPT !.phase = "done", !.compared = compared]
  <2>2. /\ row \in LoopRows /\ row.written = loop[c].written /\ row.view = loop[c].view
        /\ row.victims = loop[c].victims /\ row.prior = loop[c].prior
        /\ row.compared = compared
    BY <1>1 DEF LoopRows, Phases
  <2>3. UNCHANGED <<index, files>> BY <1>15 DEF History!Compare
  <2> HIDE DEF row
  <2> QED BY <1>1, <1>3, <1>5, <2>1, <2>2, <2>3 DEF row
<1>16. CASE History!Interrupt(c)
  BY <1>6, <1>16 DEF History!Interrupt, Phases
<1> QED BY <1>7, <1>8, <1>9, <1>10, <1>11, <1>12, <1>13, <1>14, <1>15, <1>16

\* A comparison is made with a stored result, if with any, and the history lists stored
\* runs, however the commands overlap, evict each other's runs and are interrupted
\* (latestCompatiblePriorRun, storeLoopRun).
THEOREM HistorySafe == History!Spec => []ComparedWithStored
<1>1. HistoryInv /\ [History!Next]_<<index, files, loop>> => HistoryInv'
  <2> SUFFICES ASSUME HistoryInv, [History!Next]_<<index, files, loop>> PROVE HistoryInv' OBVIOUS
  <2>1. CASE UNCHANGED <<index, files, loop>> BY <2>1 DEF HistoryInv, Stored
  <2> QED BY <2>1, HistoryAction DEF History!Next
<1>2. HistoryInv => ComparedWithStored
  BY NamesOf DEF HistoryInv, ComparedWithStored, History!ComparedWithStored, Stored
<1> QED BY HistoryInit, <1>1, <1>2, PTL DEF History!Spec, History!vars
-----------------------------------------------------------------------------
(* EvidenceBundles: whom a reader believes, and whom a writer satisfies. *)

Keys == SigningKeys \cup {NoKey}
Contents == [doc : Docs \cup {NoDoc}, key : Keys, write : Nat]
RunNames == {"events", "result", "signature", "record"}
DecisionNames == {"certificate", "truth", "exit", "attestation", "manifest", "sidecar"}
Files == [name : RunNames \cup DecisionNames, content : Contents]

\* A list of files with names of their own.
Listed(list) ==
    /\ list \in Seq(Files)
    /\ \A i, j \in DOMAIN list : list[i].name = list[j].name => i = j

Has(list, name) == \E i \in DOMAIN list : list[i].name = name

LEMMA OfFile ==
    ASSUME NEW list, Listed(list)
    PROVE  /\ \A i \in DOMAIN list : Bundle!Of(list, list[i].name) = list[i].content
           /\ \A name : ~Has(list, name) => Bundle!Of(list, name) = Bundle!Missing
<1>1. ASSUME NEW i \in DOMAIN list PROVE Bundle!Of(list, list[i].name) = list[i].content
  <2> DEFINE found == {k \in DOMAIN list : list[k].name = list[i].name}
  <2>1. found = {i} BY DEF Listed
  <2>2. (CHOOSE k \in found : TRUE) = i BY <2>1
  <2> QED BY <2>1, <2>2 DEF Bundle!Of
<1>2. ASSUME NEW name, ~Has(list, name) PROVE Bundle!Of(list, name) = Bundle!Missing
  BY <1>2 DEF Bundle!Of, Has
<1> QED BY <1>1, <1>2

LEMMA Extended ==
    ASSUME NEW list, Listed(list), NEW file \in Files, ~Has(list, file.name),
           NEW more, more = list \o <<file>>
    PROVE  /\ Listed(more) /\ more # <<>>
           /\ \A name : Has(more, name) <=> Has(list, name) \/ name = file.name
           /\ \A name : Bundle!Of(more, name) =
                  IF name = file.name THEN file.content ELSE Bundle!Of(list, name)
<1> PICK n \in Nat : n = Len(list) /\ DOMAIN list = 1 .. n BY DEF Listed
<1>1. /\ more \in Seq(Files) /\ Len(more) = n + 1 /\ DOMAIN more = 1 .. n + 1
      /\ more[n + 1] = file /\ \A i \in 1 .. n : more[i] = list[i]
  BY ConcatProperties DEF Listed
<1>2. /\ \A i \in DOMAIN more : i \in DOMAIN list \/ i = n + 1
      /\ n + 1 \in DOMAIN more /\ n + 1 \notin DOMAIN list /\ DOMAIN list \subseteq DOMAIN more
  BY <1>1
<1>3. Listed(more)
  BY <1>1, <1>2 DEF Listed, Has
<1>4. \A name : Has(more, name) <=> Has(list, name) \/ name = file.name
  BY <1>1, <1>2 DEF Has
<1>5. ASSUME NEW name
      PROVE  Bundle!Of(more, name) =
                 IF name = file.name THEN file.content ELSE Bundle!Of(list, name)
  <2>0. /\ \A i \in DOMAIN more : Bundle!Of(more, more[i].name) = more[i].content
        /\ \A i \in DOMAIN list : Bundle!Of(list, list[i].name) = list[i].content
    BY <1>3, OfFile
  <2>1. CASE name = file.name
    <3>1. n + 1 \in DOMAIN more /\ more[n + 1] = file BY <1>1, <1>2
    <3>2. Bundle!Of(more, file.name) = file.content BY <2>0, <3>1
    <3> QED BY <2>1, <3>2
  <2>2. CASE name # file.name /\ Has(list, name)
    <3> PICK i \in DOMAIN list : list[i].name = name BY <2>2 DEF Has
    <3>1. i \in DOMAIN more /\ more[i] = list[i] BY <1>1, <1>2
    <3>2. Bundle!Of(more, list[i].name) = Bundle!Of(list, list[i].name) BY <2>0, <3>1
    <3> QED BY <2>2, <3>2
  <2>3. CASE name # file.name /\ ~Has(list, name)
    BY <1>3, <1>4, <2>3, OfFile
  <2> QED BY <2>1, <2>2, <2>3
<1> QED BY <1>1, <1>3, <1>4, <1>5

LEMMA SingleFile ==
    ASSUME NEW file \in Files
    PROVE  /\ Listed(<<file>>) /\ \A name : Has(<<file>>, name) <=> name = file.name
           /\ \A name : Bundle!Of(<<file>>, name) =
                  IF name = file.name THEN file.content ELSE Bundle!Missing
<1>1. <<file>> \in Seq(Files) /\ DOMAIN <<file>> = {1} /\ <<file>>[1] = file OBVIOUS
<1>2. Listed(<<file>>) /\ \A name : Has(<<file>>, name) <=> name = file.name
  BY <1>1 DEF Listed, Has
<1>3. \A name : Bundle!Of(<<file>>, name) =
          IF name = file.name THEN file.content ELSE Bundle!Missing
  BY <1>1, <1>2, OfFile
<1> QED BY <1>2, <1>3

\* The files of a write, by name, and what is not one of them.
LEMMA RunFilesAre ==
    ASSUME NEW doc \in Docs, NEW key \in Keys, NEW w \in Nat, NEW list,
           list = Bundle!RunFiles(doc, key, w)
    PROVE  /\ Listed(list) /\ list # <<>> /\ \A name : Has(list, name) => name \in RunNames
           /\ Bundle!Of(list, "events") = Bundle!Plain(doc)
           /\ Bundle!Of(list, "result") = Bundle!Plain(doc)
           /\ Bundle!Of(list, "signature") =
                  IF key = NoKey THEN Bundle!Missing ELSE Bundle!Content(doc, key, 0)
           /\ Bundle!Of(list, "record") = Bundle!Content(doc, key, w)
<1> DEFINE first == Bundle!File("events", Bundle!Plain(doc))
           second == Bundle!File("result", Bundle!Plain(doc))
           signature == Bundle!File("signature", Bundle!Content(doc, key, 0))
           record == Bundle!File("record", Bundle!Content(doc, key, w))
           list1 == <<first>>
           list2 == list1 \o <<second>>
           list3 == IF key = NoKey THEN list2 ELSE list2 \o <<signature>>
           list4 == list3 \o <<record>>
<1>1. /\ first \in Files /\ first.name = "events" /\ first.content = Bundle!Plain(doc)
      /\ second \in Files /\ second.name = "result" /\ second.content = Bundle!Plain(doc)
      /\ signature \in Files /\ signature.name = "signature"
      /\ signature.content = Bundle!Content(doc, key, 0)
      /\ record \in Files /\ record.name = "record"
      /\ record.content = Bundle!Content(doc, key, w)
  <2>1. Bundle!Plain(doc) \in Contents
    BY DEF Bundle!Plain, Bundle!Content, Contents, Keys
  <2>2. Bundle!Content(doc, key, 0) \in Contents /\ Bundle!Content(doc, key, w) \in Contents
    BY DEF Bundle!Content, Contents
  <2> QED BY <2>1, <2>2 DEF Bundle!File, Files, RunNames
<1> HIDE DEF first, second, signature, record
<1>2. list = list4
  <2>1. <<first, second>> = list2
    <3>1. /\ <<first, second>> \in Seq(Files) /\ <<second>> \in Seq(Files)
          /\ list1 \in Seq(Files) BY <1>1
    <3>2. <<first, second>> = Append(<<first>>, second) OBVIOUS
    <3>3. list1 \o <<second>> = Append(list1, second) BY <3>1, <1>1, AppendIsConcat
    <3> QED BY <3>2, <3>3
  <2>2. list2 \in Seq(Files) BY <1>1, ConcatProperties
  <2>3. list3 = list2 \o (IF key = NoKey THEN <<>> ELSE <<signature>>)
    BY <2>2, ConcatEmptySeq
  <2> QED BY <2>1, <2>3 DEF Bundle!RunFiles, first, second, signature, record
<1> HIDE DEF list1, list2, list3, list4
<1>3. /\ Listed(list1) /\ \A name : Has(list1, name) <=> name = "events"
      /\ \A name : Bundle!Of(list1, name) =
             IF name = "events" THEN Bundle!Plain(doc) ELSE Bundle!Missing
  BY <1>1, SingleFile DEF list1
<1>4. /\ Listed(list2) /\ \A name : Has(list2, name) <=> name \in {"events", "result"}
      /\ \A name : Bundle!Of(list2, name) =
             IF name = "result" THEN Bundle!Plain(doc) ELSE Bundle!Of(list1, name)
  <2>1. second \in Files /\ ~Has(list1, second.name) BY <1>1, <1>3
  <2>2. /\ Listed(list2) /\ \A name : Has(list2, name) <=> Has(list1, name) \/ name = second.name
        /\ \A name : Bundle!Of(list2, name) =
               IF name = second.name THEN second.content ELSE Bundle!Of(list1, name)
    BY <1>3, <2>1, Extended DEF list2
  <2> QED BY <1>1, <1>3, <2>2
<1>5. /\ Listed(list3)
      /\ \A name : Has(list3, name) => name \in {"events", "result", "signature"}
      /\ \A name : Bundle!Of(list3, name) =
             IF key # NoKey /\ name = "signature" THEN Bundle!Content(doc, key, 0)
             ELSE Bundle!Of(list2, name)
  <2>1. CASE key = NoKey BY <1>4, <2>1 DEF list3
  <2>2. CASE key # NoKey
    <3>1. Listed(list2) /\ signature \in Files /\ ~Has(list2, signature.name) BY <1>1, <1>4
    <3> DEFINE longer == list2 \o <<signature>>
    <3>2. /\ Listed(longer)
          /\ \A name : Has(longer, name) <=> Has(list2, name) \/ name = signature.name
          /\ \A name : Bundle!Of(longer, name) =
                 IF name = signature.name THEN signature.content ELSE Bundle!Of(list2, name)
      BY <3>1, Extended
    <3>3. list3 = longer BY <2>2 DEF list3
    <3> HIDE DEF longer
    <3> QED BY <1>1, <1>4, <3>2, <3>3, <2>2
  <2> QED BY <2>1, <2>2
<1>6. /\ Listed(list4) /\ list4 # <<>>
      /\ \A name : Has(list4, name) => name \in RunNames
      /\ \A name : Bundle!Of(list4, name) =
             IF name = "record" THEN Bundle!Content(doc, key, w) ELSE Bundle!Of(list3, name)
  <2>1. record \in Files /\ ~Has(list3, record.name) BY <1>1, <1>5
  <2>2. /\ Listed(list4) /\ list4 # <<>>
        /\ \A name : Has(list4, name) <=> Has(list3, name) \/ name = record.name
        /\ \A name : Bundle!Of(list4, name) =
               IF name = record.name THEN record.content ELSE Bundle!Of(list3, name)
    BY <1>5, <2>1, Extended DEF list4
  <2> QED BY <1>1, <1>5, <2>2 DEF RunNames
<1> QED BY <1>2, <1>3, <1>4, <1>5, <1>6

LEMMA DecisionFilesAre ==
    ASSUME NEW doc \in Docs, NEW key \in Keys, NEW attested \in BOOLEAN, NEW w \in Nat,
           NEW list, list = Bundle!DecisionFiles(doc, key, attested, w)
    PROVE  /\ Listed(list) /\ list # <<>> /\ \A name : Has(list, name) => name \in DecisionNames
           /\ Bundle!Of(list, "certificate") = Bundle!Plain(doc)
           /\ Bundle!Of(list, "truth") = Bundle!Plain(doc)
           /\ Bundle!Of(list, "manifest") = Bundle!Content(doc, NoKey, w)
           /\ Bundle!Of(list, "sidecar") =
                  IF key = NoKey THEN Bundle!Missing ELSE Bundle!Content(doc, key, w)
<1> DEFINE certificate == Bundle!File("certificate", Bundle!Plain(doc))
           material == Bundle!File("truth", Bundle!Plain(doc))
           exit == Bundle!File("exit", Bundle!Plain(doc))
           attestation == Bundle!File("attestation", Bundle!Plain(doc))
           manifest == Bundle!File("manifest", Bundle!Content(doc, NoKey, w))
           sidecar == Bundle!File("sidecar", Bundle!Content(doc, key, w))
           list1 == <<certificate>>
           list2 == list1 \o <<material>>
           list3 == list2 \o <<exit>>
           more4 == list3 \o <<attestation>>
           list4 == IF attested THEN more4 ELSE list3
           list5 == list4 \o <<manifest>>
           more6 == list5 \o <<sidecar>>
           list6 == IF key = NoKey THEN list5 ELSE more6
<1>1. /\ certificate \in Files /\ certificate.name = "certificate"
      /\ certificate.content = Bundle!Plain(doc)
      /\ material \in Files /\ material.name = "truth" /\ material.content = Bundle!Plain(doc)
      /\ exit \in Files /\ exit.name = "exit"
      /\ attestation \in Files /\ attestation.name = "attestation"
      /\ manifest \in Files /\ manifest.name = "manifest"
      /\ manifest.content = Bundle!Content(doc, NoKey, w)
      /\ sidecar \in Files /\ sidecar.name = "sidecar"
      /\ sidecar.content = Bundle!Content(doc, key, w)
  <2>1. Bundle!Plain(doc) \in Contents /\ Bundle!Content(doc, NoKey, w) \in Contents
    BY DEF Bundle!Plain, Bundle!Content, Contents, Keys
  <2>2. Bundle!Content(doc, key, w) \in Contents
    BY DEF Bundle!Content, Contents
  <2> QED BY <2>1, <2>2 DEF Bundle!File, Files, DecisionNames
<1> HIDE DEF certificate, material, exit, attestation, manifest, sidecar
<1>2. list = list6
  <2>1. <<certificate, material, exit>> = list3
    <3>1. /\ <<certificate>> \in Seq(Files) /\ <<certificate, material>> \in Seq(Files)
      BY <1>1
    <3>2. /\ <<certificate, material>> = Append(<<certificate>>, material)
          /\ <<certificate, material, exit>> = Append(<<certificate, material>>, exit)
      OBVIOUS
    <3>3. Append(<<certificate>>, material) = list2 BY <3>1, <1>1, AppendIsConcat
    <3>4. Append(<<certificate, material>>, exit) = <<certificate, material>> \o <<exit>>
      BY <3>1, <1>1, AppendIsConcat
    <3> QED BY <3>2, <3>3, <3>4
  <2>2. list3 \in Seq(Files) BY <1>1, ConcatProperties
  <2>3. list4 = list3 \o (IF attested THEN <<attestation>> ELSE <<>>)
    BY <2>2, ConcatEmptySeq
  <2>4. list5 \in Seq(Files)
    <3>1. list4 \in Seq(Files) BY <2>2, <1>1, ConcatProperties
    <3> HIDE DEF list4
    <3> QED BY <3>1, <1>1, ConcatProperties
  <2>5. list6 = list5 \o (IF key = NoKey THEN <<>> ELSE <<sidecar>>)
    BY <2>4, ConcatEmptySeq
  <2>6. list = <<certificate, material, exit>>
               \o (IF attested THEN <<attestation>> ELSE <<>>)
               \o <<manifest>> \o (IF key = NoKey THEN <<>> ELSE <<sidecar>>)
    BY DEF Bundle!DecisionFiles, certificate, material, exit, attestation, manifest, sidecar
  <2> QED BY <2>1, <2>3, <2>5, <2>6
<1> HIDE DEF list1, list2, list3, more4, list4, list5, more6, list6
<1>3. /\ Listed(list1) /\ \A name : Has(list1, name) <=> name = "certificate"
      /\ \A name : Bundle!Of(list1, name) =
             IF name = "certificate" THEN Bundle!Plain(doc) ELSE Bundle!Missing
  BY <1>1, SingleFile DEF list1
<1>4. /\ Listed(list2) /\ \A name : Has(list2, name) <=> name \in {"certificate", "truth"}
      /\ \A name : Bundle!Of(list2, name) =
             IF name = "truth" THEN Bundle!Plain(doc) ELSE Bundle!Of(list1, name)
  <2>1. material \in Files /\ ~Has(list1, material.name) BY <1>1, <1>3
  <2>2. /\ Listed(list2) /\ \A name : Has(list2, name) <=> Has(list1, name) \/ name = material.name
        /\ \A name : Bundle!Of(list2, name) =
               IF name = material.name THEN material.content ELSE Bundle!Of(list1, name)
    BY <1>3, <2>1, Extended DEF list2
  <2> QED BY <1>1, <1>3, <2>2
<1>5. /\ Listed(list3)
      /\ \A name : Has(list3, name) <=> name \in {"certificate", "truth", "exit"}
      /\ \A name \in DecisionNames \ {"exit"} : Bundle!Of(list3, name) = Bundle!Of(list2, name)
  <2>1. exit \in Files /\ ~Has(list2, exit.name) BY <1>1, <1>4
  <2>2. /\ Listed(list3) /\ \A name : Has(list3, name) <=> Has(list2, name) \/ name = exit.name
        /\ \A name : Bundle!Of(list3, name) =
               IF name = exit.name THEN exit.content ELSE Bundle!Of(list2, name)
    BY <1>4, <2>1, Extended DEF list3
  <2> QED BY <1>1, <1>4, <2>2
<1>6. /\ Listed(list4)
      /\ \A name : Has(list4, name) => name \in {"certificate", "truth", "exit", "attestation"}
      /\ \A name \in DecisionNames \ {"exit", "attestation"} :
             Bundle!Of(list4, name) = Bundle!Of(list2, name)
  <2>1. attestation \in Files /\ ~Has(list3, attestation.name) BY <1>1, <1>5
  <2>2. /\ Listed(more4)
        /\ \A name : Has(more4, name) <=> Has(list3, name) \/ name = attestation.name
        /\ \A name : Bundle!Of(more4, name) =
               IF name = attestation.name THEN attestation.content ELSE Bundle!Of(list3, name)
    BY <1>5, <2>1, Extended DEF more4
  <2>3. list4 = list3 \/ list4 = more4 BY DEF list4
  <2> QED BY <1>1, <1>5, <2>2, <2>3
<1>7. /\ Listed(list5) /\ list5 # <<>>
      /\ \A name : Has(list5, name) => name \in DecisionNames \ {"sidecar"}
      /\ \A name \in DecisionNames \ {"exit", "attestation"} : Bundle!Of(list5, name) =
             IF name = "manifest" THEN Bundle!Content(doc, NoKey, w)
             ELSE Bundle!Of(list2, name)
  <2>1. manifest \in Files /\ ~Has(list4, manifest.name) BY <1>1, <1>6
  <2>2. /\ Listed(list5) /\ list5 # <<>>
        /\ \A name : Has(list5, name) <=> Has(list4, name) \/ name = manifest.name
        /\ \A name : Bundle!Of(list5, name) =
               IF name = manifest.name THEN manifest.content ELSE Bundle!Of(list4, name)
    BY <1>6, <2>1, Extended DEF list5
  <2> QED BY <1>1, <1>6, <2>2 DEF DecisionNames
<1>8. /\ Listed(list6) /\ list6 # <<>> /\ \A name : Has(list6, name) => name \in DecisionNames
      /\ \A name \in DecisionNames : Bundle!Of(list6, name) =
             IF key # NoKey /\ name = "sidecar" THEN Bundle!Content(doc, key, w)
             ELSE Bundle!Of(list5, name)
  <2>1. sidecar \in Files /\ ~Has(list5, sidecar.name) BY <1>1, <1>7
  <2>2. /\ Listed(more6) /\ more6 # <<>>
        /\ \A name : Has(more6, name) <=> Has(list5, name) \/ name = sidecar.name
        /\ \A name : Bundle!Of(more6, name) =
               IF name = sidecar.name THEN sidecar.content ELSE Bundle!Of(list5, name)
    BY <1>7, <2>1, Extended DEF more6
  <2>3. CASE key = NoKey BY <1>7, <2>3 DEF list6
  <2>4. CASE key # NoKey
    <3>1. list6 = more6 BY <2>4 DEF list6
    <3> QED BY <1>1, <1>7, <2>2, <2>4, <3>1 DEF DecisionNames
  <2> QED BY <2>3, <2>4
<1> QED BY <1>2, <1>3, <1>4, <1>7, <1>8 DEF DecisionNames

GivenAt(w, list) ==
    \E doc \in Docs, key \in Keys :
        \/ bundle = "run" /\ list = Bundle!RunFiles(doc, key, w)
        \/ /\ bundle = "decision"
           /\ \E attested \in BOOLEAN : list = Bundle!DecisionFiles(doc, key, attested, w)

\* The files that carry the number of their write.
Numbered == Bundle!Names \cap {"record", "manifest", "sidecar"}

\* A file with a number is the file of that write.
Backed(contents, ws) ==
    \A name \in Numbered : contents[name] # Bundle!Missing =>
        /\ contents[name].write \in DOMAIN ws
        /\ contents[name] = Bundle!Of(ws[contents[name].write], name)

OnDisk(file) == disk[file.name] = file.content

WriterRows == [signed : BOOLEAN, todo : Seq(Files), done : SUBSET (RunNames \cup DecisionNames)]

WritersInv ==
    /\ bundle \in {"run", "decision"}
    /\ written \in Seq(Seq(Files)) /\ \A w \in DOMAIN written : GivenAt(w, written[w])
    /\ disk \in [Bundle!Names -> Contents] /\ Backed(disk, written)
    /\ writer \in WriterRows

\* The files of the last write are on disk or still to do, and nothing else is.
ProgressInv ==
    LET last == written[Len(written)]
    IN  /\ Bundle!Writing =>
              /\ outcome = "writing" /\ written # <<>>
              /\ \A j \in DOMAIN writer.todo : \E i \in DOMAIN last : writer.todo[j] = last[i]
              /\ \A i \in DOMAIN last :
                    OnDisk(last[i]) \/ \E j \in DOMAIN writer.todo : writer.todo[j] = last[i]
        /\ outcome = "written" =>
              ~Bundle!Writing /\ written # <<>> /\ \A i \in DOMAIN last : OnDisk(last[i])

ReaderRows == [kind : {"none", "load", "verify", "validate"}, key : Keys,
               todo : Seq(RunNames \cup DecisionNames),
               verdict : {"none", "accepted", "refused"}, seen : [Bundle!Names -> Contents]]

\* An accepting reader has seen what it accepts, each file from some write.
ReaderInv ==
    /\ reader \in ReaderRows /\ Backed(reader.seen, written)
    /\ reader.kind = "none" => reader.verdict = "none" /\ reader.todo = <<>>
    /\ reader.kind # "none" => (reader.kind = "validate" <=> bundle = "decision")
    /\ \A j \in DOMAIN reader.todo : reader.todo[j] \in Bundle!Names
    /\ reader.verdict = "accepted" =>
          reader.todo = <<>> /\ Bundle!Accepts(reader.kind, reader.key, reader.seen)

BundleInv == WritersInv /\ ProgressInv /\ ReaderInv

LEMMA BundleNames ==
    /\ bundle = "run" => Bundle!Names = RunNames /\ Numbered = {"record"}
    /\ bundle = "decision" => Bundle!Names = DecisionNames /\ Numbered = {"manifest", "sidecar"}
BY DEF Bundle!Names, RunNames, DecisionNames, Numbered

LEMMA MissingContent ==
    /\ Bundle!Missing \in Contents /\ Bundle!Missing.write = 0 /\ Bundle!Missing.key = NoKey
    /\ \A doc, key : \A w \in Nat \ {0} : Bundle!Content(doc, key, w) # Bundle!Missing
    /\ \A key, w : \A doc \in Docs : Bundle!Content(doc, key, w) # Bundle!Missing
BY FlowsAssumption DEF FlowsAssumption, Bundle!Missing, Bundle!Content, Contents, Keys

LEMMA GivenFiles ==
    ASSUME bundle \in {"run", "decision"}, NEW w \in Nat, NEW list, GivenAt(w, list)
    PROVE  /\ Listed(list) /\ list # <<>>
           /\ \A i \in DOMAIN list : list[i] \in Files /\ list[i].name \in Bundle!Names
           /\ \A name \in Numbered : Bundle!Of(list, name) # Bundle!Missing =>
                  Bundle!Of(list, name).write = w
<1> PICK doc \in Docs, key \in Keys :
        \/ bundle = "run" /\ list = Bundle!RunFiles(doc, key, w)
        \/ /\ bundle = "decision"
           /\ \E attested \in BOOLEAN : list = Bundle!DecisionFiles(doc, key, attested, w)
  BY DEF GivenAt
<1>1. /\ Listed(list) /\ list # <<>> /\ \A name : Has(list, name) => name \in Bundle!Names
      /\ \A name \in Numbered : Bundle!Of(list, name) # Bundle!Missing =>
             Bundle!Of(list, name).write = w
  <2>1. CASE bundle = "run"
    <3>1. list = Bundle!RunFiles(doc, key, w) BY <2>1
    <3>2. /\ Listed(list) /\ list # <<>> /\ \A name : Has(list, name) => name \in RunNames
          /\ Bundle!Of(list, "record") = Bundle!Content(doc, key, w)
      BY <3>1, RunFilesAre
    <3> QED BY <2>1, <3>2, BundleNames DEF Bundle!Content
  <2>2. CASE bundle = "decision"
    <3>1. PICK attested \in BOOLEAN : list = Bundle!DecisionFiles(doc, key, attested, w)
      BY <2>2
    <3>2. /\ Listed(list) /\ list # <<>> /\ \A name : Has(list, name) => name \in DecisionNames
          /\ Bundle!Of(list, "manifest") = Bundle!Content(doc, NoKey, w)
          /\ Bundle!Of(list, "sidecar") =
                 IF key = NoKey THEN Bundle!Missing ELSE Bundle!Content(doc, key, w)
      BY <3>1, DecisionFilesAre
    <3> QED BY <2>2, <3>2, BundleNames DEF Bundle!Content
  <2> QED BY <2>1, <2>2
<1>2. \A i \in DOMAIN list : list[i] \in Files /\ Has(list, list[i].name)
  BY <1>1 DEF Listed, Has
<1> QED BY <1>1, <1>2

LEMMA BundleInit == Bundle!Init => BundleInv
<1> SUFFICES ASSUME Bundle!Init PROVE BundleInv OBVIOUS
<1>1. /\ bundle \in {"run", "decision"} /\ disk = [f \in Bundle!Names |-> Bundle!Missing]
      /\ writer.todo = <<>> /\ written = <<>> /\ outcome = "none"
  BY DEF Bundle!Init, Bundle!Idle
<1>2. /\ reader.kind = "none" /\ reader.todo = <<>> /\ reader.verdict = "none"
      /\ reader.seen = [f \in Bundle!Names |-> Bundle!Missing]
  BY DEF Bundle!Init
<1>3. reader \in ReaderRows
  <2>1. [f \in Bundle!Names |-> Bundle!Missing] \in [Bundle!Names -> Contents]
    BY MissingContent
  <2>2. <<>> \in Seq(RunNames \cup DecisionNames) OBVIOUS
  <2> QED BY <2>1, <2>2 DEF Bundle!Init, ReaderRows, Keys
<1>4. WritersInv
  <2>1. <<>> \in Seq(Files) OBVIOUS
  <2>2. writer \in WriterRows BY <2>1 DEF Bundle!Init, Bundle!Idle, WriterRows
  <2> QED BY <1>1, <2>2, MissingContent DEF WritersInv, Backed, Numbered
<1>5. ProgressInv BY <1>1 DEF ProgressInv, Bundle!Writing
<1>6. ReaderInv BY <1>2, <1>3 DEF ReaderInv, Backed, Numbered
<1> QED BY <1>4, <1>5, <1>6 DEF BundleInv

LEMMA StartStep ==
    ASSUME BundleInv, NEW signed \in BOOLEAN, NEW list, GivenAt(Len(written) + 1, list),
           Bundle!Start(signed, list)
    PROVE  BundleInv'
<1>1. WritersInv /\ ReaderInv BY DEF BundleInv
<1> PICK n \in Nat : n = Len(written) /\ DOMAIN written = 1 .. n BY <1>1 DEF WritersInv
<1>2. /\ UNCHANGED <<bundle, disk, reader>> /\ written' = Append(written, list)
      /\ writer'.todo = list /\ outcome' = "writing" /\ written \in Seq(Seq(Files))
      /\ writer' = [signed |-> signed, todo |-> list, done |-> {}]
  BY <1>1 DEF Bundle!Start, WritersInv
<1>3. /\ Listed(list) /\ list # <<>> /\ list \in Seq(Files)
  BY <1>1, GivenFiles DEF WritersInv, Listed
<1>4. /\ written' \in Seq(Seq(Files)) /\ Len(written') = n + 1 /\ DOMAIN written' = 1 .. n + 1
      /\ written'[n + 1] = list /\ \A w \in DOMAIN written : written'[w] = written[w]
      /\ DOMAIN written \subseteq DOMAIN written'
  BY <1>2, <1>3
<1>5. ASSUME NEW contents, Backed(contents, written) PROVE Backed(contents, written')
  BY <1>4, <1>5 DEF Backed
<1>6. WritersInv'
  <2>1. \A w \in DOMAIN written' : GivenAt(w, written'[w])
    <3>1. \A w \in DOMAIN written' : w \in DOMAIN written \/ w = n + 1 BY <1>4
    <3> QED BY <1>1, <1>4, <3>1 DEF WritersInv
  <2>2. Backed(disk', written') BY <1>1, <1>2, <1>5 DEF WritersInv
  <2>3. disk' \in [Bundle!Names -> Contents] /\ bundle' \in {"run", "decision"}
    BY <1>1, <1>2 DEF WritersInv
  <2>4. writer' \in WriterRows BY <1>2, <1>3 DEF WriterRows
  <2> QED BY <1>2, <1>4, <2>1, <2>2, <2>3, <2>4
      DEF WritersInv, GivenAt, Backed, Numbered, Bundle!Names
<1>7. ProgressInv'
  <2>1. written' # <<>> /\ written'[Len(written')] = list BY <1>4
  <2> QED BY <1>2, <2>1 DEF ProgressInv, OnDisk
<1>8. ReaderInv'
  <2>1. Backed(reader.seen, written') BY <1>1, <1>5 DEF ReaderInv
  <2> QED BY <1>1, <1>2, <2>1 DEF ReaderInv, ReaderRows, Backed, Numbered, Bundle!Names
<1> QED BY <1>6, <1>7, <1>8 DEF BundleInv

\* A writer step leaves the readers, and the rest of the directory as it was.
LEMMA DiskStep ==
    ASSUME BundleInv, Bundle!Writing, UNCHANGED <<bundle, written, reader>>,
           disk' \in [Bundle!Names -> Contents],
           \A f \in Bundle!Names : disk'[f] = disk[f] \/ disk'[f] = Bundle!Missing
               \/ \E i \in DOMAIN written[Len(written)] :
                     written[Len(written)][i] = Bundle!File(f, disk'[f]),
           writer' \in WriterRows
    PROVE  WritersInv' /\ ReaderInv'
<1>1. WritersInv /\ ReaderInv /\ ProgressInv BY DEF BundleInv
<1> PICK w \in DOMAIN written : w = Len(written)
  BY <1>1 DEF ProgressInv, WritersInv
<1>2. /\ Listed(written[w]) /\ w \in Nat
      /\ \A name \in Numbered : Bundle!Of(written[w], name) # Bundle!Missing =>
             Bundle!Of(written[w], name).write = w
  BY <1>1, GivenFiles DEF WritersInv
<1>3. Backed(disk', written)
  <2> SUFFICES ASSUME NEW f \in Numbered, disk'[f] # Bundle!Missing
               PROVE  /\ disk'[f].write \in DOMAIN written
                      /\ disk'[f] = Bundle!Of(written[disk'[f].write], f)
    BY DEF Backed
  <2>1. f \in Bundle!Names BY DEF Numbered
  <2>2. CASE disk'[f] = disk[f] BY <1>1, <2>2 DEF WritersInv, Backed
  <2>3. ASSUME NEW i \in DOMAIN written[w], written[w][i] = Bundle!File(f, disk'[f])
        PROVE  disk'[f] = Bundle!Of(written[w], f)
    <3>1. written[w][i].name = f /\ written[w][i].content = disk'[f]
      BY <2>3 DEF Bundle!File
    <3>2. Bundle!Of(written[w], written[w][i].name) = written[w][i].content BY <1>2, OfFile
    <3> QED BY <3>1, <3>2
  <2> QED BY <1>2, <2>1, <2>2, <2>3
<1>4. WritersInv'
  BY <1>1, <1>3 DEF WritersInv, GivenAt, Backed, Numbered, Bundle!Names
<1>5. ReaderInv'
  BY <1>1 DEF ReaderInv, ReaderRows, Backed, Numbered, Bundle!Names
<1> QED BY <1>4, <1>5

LEMMA TailOf ==
    ASSUME NEW S, NEW s \in Seq(S), s # <<>>
    PROVE  /\ Tail(s) \in Seq(S) /\ (Len(s) = 1 <=> Tail(s) = <<>>)
           /\ \A j \in DOMAIN Tail(s) : j + 1 \in DOMAIN s /\ Tail(s)[j] = s[j + 1]
           /\ \A j \in DOMAIN s \ {1} : j - 1 \in DOMAIN Tail(s) /\ Tail(s)[j - 1] = s[j]
<1> PICK n \in Nat \ {0} : n = Len(s) /\ DOMAIN s = 1 .. n OBVIOUS
<1>1. /\ Tail(s) \in Seq(S) /\ Len(Tail(s)) = n - 1 /\ DOMAIN Tail(s) = 1 .. n - 1
      /\ \A j \in 1 .. n - 1 : Tail(s)[j] = s[j + 1]
  OBVIOUS
<1>2. n = 1 <=> Tail(s) = <<>>
  <2>1. Tail(s) = <<>> <=> Len(Tail(s)) = 0 BY <1>1, EmptySeq
  <2> QED BY <1>1, <2>1
<1>3. \A j \in (1 .. n) \ {1} : j - 1 \in 1 .. n - 1 /\ (j - 1) + 1 = j OBVIOUS
<1>4. \A j \in 1 .. n - 1 : j + 1 \in 1 .. n OBVIOUS
<1> QED BY <1>1, <1>2, <1>3, <1>4

LEMMA WriteStep ==
    ASSUME BundleInv, Bundle!Replace \/ Bundle!RemoveOld \/ Bundle!Throw \/ Bundle!Killed
    PROVE  BundleInv'
<1>1. /\ WritersInv /\ ReaderInv /\ ProgressInv /\ Bundle!Writing
      /\ UNCHANGED <<bundle, written, reader>>
  BY DEF BundleInv, Bundle!Replace, Bundle!RemoveOld, Bundle!Throw, Bundle!Killed
<1>2. /\ disk \in [Bundle!Names -> Contents] /\ writer \in WriterRows
      /\ writer.todo \in Seq(Files) /\ writer.todo # <<>>
      /\ outcome = "writing" /\ written # <<>> /\ written \in Seq(Seq(Files))
  BY <1>1 DEF WritersInv, WriterRows, ProgressInv, Bundle!Writing
<1> PICK last \in Seq(Files) : last = written[Len(written)] BY <1>2
<1>3. /\ Listed(last) /\ last # <<>>
      /\ \A i \in DOMAIN last : last[i] \in Files /\ last[i].name \in Bundle!Names
  <2>1. Len(written) \in DOMAIN written /\ Len(written) \in Nat BY <1>2
  <2> QED BY <1>1, <2>1, GivenFiles DEF WritersInv
<1>4. /\ \A j \in DOMAIN writer.todo : \E i \in DOMAIN last : writer.todo[j] = last[i]
      /\ \A i \in DOMAIN last :
            OnDisk(last[i]) \/ \E j \in DOMAIN writer.todo : writer.todo[j] = last[i]
  BY <1>1 DEF ProgressInv
<1> PICK file \in Files : file = Head(writer.todo) /\ \E k \in DOMAIN last : file = last[k]
  <2>1. 1 \in DOMAIN writer.todo /\ Head(writer.todo) = writer.todo[1] BY <1>2
  <2> QED BY <1>3, <1>4, <2>1
<1> PICK k \in DOMAIN last : file = last[k] OBVIOUS
<1>5. file.name \in Bundle!Names /\ file.content \in Contents BY <1>3 DEF Files
<1>6. file = Bundle!File(file.name, file.content) BY DEF Files, Bundle!File
<1>7. Bundle!Idle \in WriterRows /\ Bundle!Idle.todo = <<>>
  <2>1. <<>> \in Seq(Files) OBVIOUS
  <2> QED BY <2>1 DEF Bundle!Idle, WriterRows
<1>8. CASE Bundle!Replace
  <2>1. disk' = [disk EXCEPT ![file.name] = file.content] BY <1>8 DEF Bundle!Replace
  <2>2. disk' \in [Bundle!Names -> Contents] BY <1>2, <1>5, <2>1
  <2>3. disk'[file.name] = file.content
        /\ \A f \in Bundle!Names \ {file.name} : disk'[f] = disk[f]
    BY <1>2, <1>5, <2>1
  <2>4. \/ Len(writer.todo) = 1 /\ outcome' = "written" /\ writer' = Bundle!Idle
        \/ /\ Len(writer.todo) # 1 /\ outcome' = outcome
           /\ writer' = [writer EXCEPT !.todo = Tail(@), !.done = @ \cup {file.name}]
    BY <1>8 DEF Bundle!Replace, Bundle!End
  <2>5. /\ writer' \in WriterRows
        /\ \/ Len(writer.todo) = 1 /\ outcome' = "written" /\ writer'.todo = <<>>
           \/ /\ Len(writer.todo) # 1 /\ outcome' = outcome
              /\ writer'.todo = Tail(writer.todo) /\ writer'.todo # <<>>
    <3>1. CASE Len(writer.todo) = 1
      BY <1>7, <2>4, <3>1
    <3>2. CASE Len(writer.todo) # 1
      <4>1. Tail(writer.todo) \in Seq(Files) /\ Tail(writer.todo) # <<>> BY <1>2, <3>2, TailOf
      <4>2. file.name \in RunNames \cup DecisionNames BY DEF Files
      <4>3. /\ outcome' = outcome
            /\ writer' = [writer EXCEPT !.todo = Tail(writer.todo),
                                        !.done = writer.done \cup {file.name}]
        BY <2>4, <3>2
      <4>4. writer'.todo = Tail(writer.todo) /\ writer' \in WriterRows
        BY <1>2, <4>1, <4>2, <4>3 DEF WriterRows
      <4> QED BY <3>2, <4>1, <4>3, <4>4
    <3> QED BY <3>1, <3>2
  <2>6. WritersInv' /\ ReaderInv' BY <1>1, <1>6, <2>2, <2>3, <2>5, DiskStep
  <2>7. \A i \in DOMAIN last : last[i].name = file.name => last[i] = file BY <1>3 DEF Listed
  <2>8. ASSUME NEW i \in DOMAIN last
        PROVE  disk'[last[i].name] = last[i].content
               \/ \E j \in DOMAIN writer'.todo : writer'.todo[j] = last[i]
    <3>1. CASE last[i] = file BY <2>3, <3>1
    <3>2. CASE last[i] # file /\ OnDisk(last[i])
      BY <1>3, <2>3, <2>7, <3>2 DEF OnDisk
    <3>3. ASSUME last[i] # file, NEW j \in DOMAIN writer.todo, writer.todo[j] = last[i]
          PROVE  \E m \in DOMAIN writer'.todo : writer'.todo[m] = last[i]
      <4>1. j # 1 /\ Len(writer.todo) # 1 BY <1>2, <3>3
      <4>2. j - 1 \in DOMAIN Tail(writer.todo) /\ Tail(writer.todo)[j - 1] = last[i]
        BY <1>2, <3>3, <4>1, TailOf
      <4> QED BY <2>5, <4>1, <4>2
    <3> QED BY <1>4, <3>1, <3>2, <3>3
  <2>9. \A j \in DOMAIN writer'.todo : \E i \in DOMAIN last : writer'.todo[j] = last[i]
    <3>1. CASE Len(writer.todo) = 1 BY <2>5, <3>1
    <3>2. CASE Len(writer.todo) # 1
      <4>1. \A j \in DOMAIN Tail(writer.todo) : j + 1 \in DOMAIN writer.todo
                /\ Tail(writer.todo)[j] = writer.todo[j + 1]
        BY <1>2, TailOf
      <4>2. \A j \in DOMAIN Tail(writer.todo) : \E i \in DOMAIN last : Tail(writer.todo)[j] = last[i]
        BY <1>4, <4>1
      <4>3. writer'.todo = Tail(writer.todo) BY <2>5, <3>2
      <4> QED BY <4>2, <4>3
    <3> QED BY <3>1, <3>2
  <2>10. ProgressInv'
    <3>1. last = written'[Len(written')] BY <1>1
    <3> QED BY <1>1, <1>2, <2>5, <2>8, <2>9, <3>1 DEF ProgressInv, OnDisk, Bundle!Writing
  <2> QED BY <2>6, <2>10 DEF BundleInv
<1>9. CASE Bundle!RemoveOld
  <2>1. disk' = [disk EXCEPT ![file.name] = Bundle!Missing] /\ UNCHANGED <<writer, outcome>>
    BY <1>9 DEF Bundle!RemoveOld
  <2>2. disk' \in [Bundle!Names -> Contents] BY <1>2, <1>5, <2>1, MissingContent
  <2>3. \A f \in Bundle!Names \ {file.name} : disk'[f] = disk[f] BY <1>2, <2>1
  <2>4. disk'[file.name] = Bundle!Missing BY <1>2, <1>5, <2>1
  <2>5. WritersInv' /\ ReaderInv' BY <1>1, <1>2, <2>1, <2>2, <2>3, <2>4, DiskStep
  <2>6. \A i \in DOMAIN last : last[i].name = file.name => last[i] = file BY <1>3 DEF Listed
  <2>7. 1 \in DOMAIN writer.todo /\ writer.todo[1] = file BY <1>2
  <2>8. \A i \in DOMAIN last : disk'[last[i].name] = last[i].content
            \/ \E j \in DOMAIN writer.todo : writer.todo[j] = last[i]
    BY <1>3, <1>4, <2>3, <2>6, <2>7 DEF OnDisk
  <2>9. ProgressInv'
    <3>1. last = written'[Len(written')] BY <1>1
    <3> QED BY <1>1, <1>2, <1>4, <2>1, <2>8, <3>1 DEF ProgressInv, OnDisk, Bundle!Writing
  <2> QED BY <2>5, <2>9 DEF BundleInv
<1>10. ASSUME writer' = Bundle!Idle, outcome' = "failed", disk' \in [Bundle!Names -> Contents],
              \A f \in Bundle!Names : disk'[f] = disk[f] \/ disk'[f] = Bundle!Missing
       PROVE  BundleInv'
  <2>1. writer' \in WriterRows /\ writer'.todo = <<>>
    BY <1>7, <1>10
  <2>2. WritersInv' /\ ReaderInv' BY <1>1, <1>10, <2>1, DiskStep
  <2>3. ProgressInv' BY <1>10, <2>1 DEF ProgressInv, Bundle!Writing
  <2> QED BY <2>2, <2>3 DEF BundleInv
<1>11. CASE Bundle!Throw
  <2>1. /\ writer' = Bundle!Idle /\ outcome' = "failed"
        /\ \E gone : disk' = [f \in DOMAIN disk |-> IF f \in gone THEN Bundle!Missing ELSE disk[f]]
    BY <1>11 DEF Bundle!Throw, Bundle!End
  <2> QED BY <1>2, <1>10, <2>1, MissingContent
<1>12. CASE Bundle!Killed
  BY <1>2, <1>10, <1>12 DEF Bundle!Killed, Bundle!End
<1> QED BY <1>8, <1>9, <1>11, <1>12

LEMMA ReadStep ==
    ASSUME BundleInv,
           \/ Bundle!Read
           \/ \E kind \in {"load", "validate"} : Bundle!Open(kind, NoKey)
           \/ \E kind \in {"verify", "validate"}, key \in SigningKeys : Bundle!Open(kind, key)
    PROVE  BundleInv'
<1>1. /\ WritersInv /\ ProgressInv /\ ReaderInv
      /\ UNCHANGED <<bundle, disk, writer, written, outcome>>
  BY DEF BundleInv, Bundle!Read, Bundle!Open
<1>2. WritersInv' /\ ProgressInv'
  BY <1>1 DEF WritersInv, ProgressInv, GivenAt, Backed, Numbered, Bundle!Names, OnDisk, Bundle!Writing
<1>3. /\ reader \in ReaderRows /\ reader.todo \in Seq(RunNames \cup DecisionNames)
      /\ reader.seen \in [Bundle!Names -> Contents] /\ Backed(reader.seen, written)
      /\ \A j \in DOMAIN reader.todo : reader.todo[j] \in Bundle!Names
  BY <1>1 DEF ReaderInv, ReaderRows
<1>4. CASE Bundle!Read
  <2> PICK name \in Bundle!Names : name = Head(reader.todo) /\ reader.todo # <<>>
    <3>1. reader.todo # <<>> BY <1>4 DEF Bundle!Read
    <3>2. 1 \in DOMAIN reader.todo /\ Head(reader.todo) = reader.todo[1] BY <1>3, <3>1
    <3> QED BY <1>3, <3>1, <3>2
  <2> PICK seen \in [Bundle!Names -> Contents] : seen = [reader.seen EXCEPT ![name] = disk[name]]
    BY <1>1, <1>3 DEF WritersInv
  <2> PICK verdict \in {"none", "accepted", "refused"} :
          verdict = IF Len(reader.todo) > 1 THEN reader.verdict
                    ELSE IF Bundle!Accepts(reader.kind, reader.key, seen)
                    THEN "accepted" ELSE "refused"
    BY <1>3 DEF ReaderRows
  <2>1. reader' = [reader EXCEPT !.todo = Tail(@), !.seen = seen, !.verdict = verdict]
    BY <1>4 DEF Bundle!Read
  <2>2. Tail(reader.todo) \in Seq(RunNames \cup DecisionNames) BY <1>3
  <2>3. /\ reader' \in ReaderRows /\ reader'.kind = reader.kind /\ reader'.key = reader.key
        /\ reader'.todo = Tail(reader.todo) /\ reader'.seen = seen /\ reader'.verdict = verdict
    BY <1>3, <2>1, <2>2 DEF ReaderRows
  <2>4. Backed(seen, written) BY <1>1, <1>3 DEF WritersInv, Backed, Numbered
  <2>5. \A j \in DOMAIN Tail(reader.todo) : Tail(reader.todo)[j] \in Bundle!Names
    <3>1. \A j \in DOMAIN Tail(reader.todo) : j + 1 \in DOMAIN reader.todo
              /\ Tail(reader.todo)[j] = reader.todo[j + 1]
      BY <1>3
    <3> QED BY <1>3, <3>1
  <2>6. reader.kind # "none" BY <1>1 DEF ReaderInv
  <2>7. verdict = "accepted" =>
            Tail(reader.todo) = <<>> /\ Bundle!Accepts(reader.kind, reader.key, seen)
    <3>1. ~(Len(reader.todo) > 1) => Tail(reader.todo) = <<>> BY <1>3
    <3> QED BY <1>1, <3>1 DEF ReaderInv
  <2>8. ReaderInv'
    <3>1. (reader.kind = "validate" <=> bundle = "decision") BY <1>1, <2>6 DEF ReaderInv
    <3>2. reader' \in ReaderRows' BY <1>1, <2>3 DEF ReaderRows, Bundle!Names
    <3>3. Backed(reader.seen, written)' BY <1>1, <2>3, <2>4 DEF Backed, Numbered, Bundle!Names
    <3> QED BY <1>1, <2>3, <2>5, <2>6, <2>7, <3>1, <3>2, <3>3
        DEF ReaderInv, Bundle!Names, Bundle!Accepts, Bundle!Recorded, Bundle!SignedWith,
            Bundle!Manifested
  <2> QED BY <1>2, <2>8 DEF BundleInv
<1>5. ASSUME NEW kind \in {"load", "verify", "validate"}, NEW key \in Keys, Bundle!Open(kind, key)
      PROVE  BundleInv'
  <2>1. /\ reader.kind = "none" /\ reader.verdict = "none"
        /\ (kind = "validate" <=> bundle = "decision")
    BY <1>1, <1>5 DEF Bundle!Open, ReaderInv
  <2>2. /\ Bundle!Order(kind) \in Seq(RunNames \cup DecisionNames)
        /\ \A j \in DOMAIN Bundle!Order(kind) : Bundle!Order(kind)[j] \in Bundle!Names
    <3>1. CASE kind = "validate"
      BY <2>1, <3>1, BundleNames DEF Bundle!Order, DecisionNames
    <3>2. CASE kind = "load"
      BY <1>1, <2>1, <3>2, BundleNames DEF WritersInv, Bundle!Order, RunNames
    <3>3. CASE kind = "verify"
      BY <1>1, <2>1, <3>3, BundleNames DEF WritersInv, Bundle!Order, RunNames
    <3> QED BY <3>1, <3>2, <3>3
  <2> PICK todo \in Seq(RunNames \cup DecisionNames) : todo = Bundle!Order(kind) BY <2>2
  <2>3. reader' = [reader EXCEPT !.kind = kind, !.key = key, !.todo = todo]
    BY <1>5 DEF Bundle!Open
  <2>4. /\ reader' \in ReaderRows /\ reader'.kind = kind /\ reader'.todo = todo
        /\ reader'.seen = reader.seen /\ reader'.verdict = "none"
    BY <1>3, <2>1, <2>3 DEF ReaderRows
  <2>5. reader' \in ReaderRows' /\ Backed(reader.seen, written)'
    BY <1>1, <1>3, <2>4 DEF ReaderRows, Backed, Numbered, Bundle!Names
  <2>6. ReaderInv' BY <1>1, <2>1, <2>2, <2>4, <2>5 DEF ReaderInv, Bundle!Names
  <2> QED BY <1>2, <2>6 DEF BundleInv
<1> QED BY <1>4, <1>5 DEF Keys

LEMMA BundleStep == BundleInv /\ [Bundle!Next]_bundles => BundleInv'
<1> SUFFICES ASSUME BundleInv, [Bundle!Next]_bundles PROVE BundleInv' OBVIOUS
<1>1. CASE UNCHANGED bundles
  BY <1>1 DEF bundles, BundleInv, WritersInv, ProgressInv, ReaderInv, ReaderRows, GivenAt, Backed,
       Numbered, Bundle!Names, OnDisk, Bundle!Writing
<1>2. ASSUME NEW doc \in Docs, NEW key \in Keys, Bundle!WriteRun(doc, key) PROVE BundleInv'
  <2> DEFINE list == Bundle!RunFiles(doc, key, Len(written) + 1)
  <2>1. Bundle!Start(key # NoKey, list) /\ bundle = "run" BY <1>2 DEF Bundle!WriteRun
  <2>2. GivenAt(Len(written) + 1, list) BY <2>1 DEF GivenAt
  <2>3. (key # NoKey) \in BOOLEAN OBVIOUS
  <2> HIDE DEF list
  <2> QED BY <2>1, <2>2, <2>3, StartStep
<1>3. ASSUME NEW doc \in Docs, NEW key \in Keys, NEW attested \in BOOLEAN,
             Bundle!WriteDecision(doc, key, attested)
      PROVE  BundleInv'
  <2> DEFINE list == Bundle!DecisionFiles(doc, key, attested, Len(written) + 1)
  <2>1. Bundle!Start(key # NoKey, list) /\ bundle = "decision" BY <1>3 DEF Bundle!WriteDecision
  <2>2. GivenAt(Len(written) + 1, list) BY <2>1 DEF GivenAt
  <2>3. (key # NoKey) \in BOOLEAN OBVIOUS
  <2> HIDE DEF list
  <2> QED BY <2>1, <2>2, <2>3, StartStep
<1> QED BY <1>1, <1>2, <1>3, WriteStep, ReadStep DEF Bundle!Next, Keys

\* Whatever commands write, fail and are killed while it reads, a reader accepts only
\* what one of them was given, and vouches for a signature of that write by its key
\* (loadCorpusRun, verifyRunBundleSignature, validateDecisionEvidenceBundle).
THEOREM AcceptedSafe == Bundle!Spec => []AcceptedIsOneWrite
<1>1. BundleInv => AcceptedIsOneWrite
  <2> SUFFICES ASSUME BundleInv, reader.verdict = "accepted" PROVE AcceptedIsOneWrite
    BY DEF AcceptedIsOneWrite, Bundle!AcceptedIsOneWrite
  <2> PICK seen \in [Bundle!Names -> Contents] : seen = reader.seen
    BY DEF BundleInv, ReaderInv, ReaderRows
  <2>1. /\ Bundle!Accepts(reader.kind, reader.key, seen) /\ Backed(seen, written)
        /\ reader.kind \in {"load", "verify", "validate"} /\ reader.key \in Keys
        /\ (reader.kind = "validate" <=> bundle = "decision")
    BY DEF BundleInv, ReaderInv, ReaderRows
  <2>2. /\ bundle \in {"run", "decision"} /\ written \in Seq(Seq(Files))
        /\ \A w \in DOMAIN written : w \in Nat /\ GivenAt(w, written[w])
    BY DEF BundleInv, WritersInv
  <2>3. CASE bundle = "run"
    <3>1. Bundle!Names = RunNames /\ Numbered = {"record"} BY <2>3, BundleNames
    <3>2. Bundle!Recorded(seen) /\ (reader.kind = "verify" => Bundle!SignedWith(reader.key, seen))
      BY <2>1, <2>3 DEF Bundle!Accepts
    <3> PICK w \in DOMAIN written : w = seen["record"].write /\ w \in Nat
                                  /\ seen["record"] = Bundle!Of(written[w], "record")
      BY <2>1, <2>2, <3>1, <3>2 DEF Backed, Bundle!Recorded
    <3> PICK doc \in Docs, key \in Keys : written[w] = Bundle!RunFiles(doc, key, w)
      BY <2>2, <2>3 DEF GivenAt
    <3>3. /\ Bundle!Of(written[w], "events") = Bundle!Plain(doc)
          /\ Bundle!Of(written[w], "result") = Bundle!Plain(doc)
          /\ Bundle!Of(written[w], "signature") =
                 IF key = NoKey THEN Bundle!Missing ELSE Bundle!Content(doc, key, 0)
          /\ Bundle!Of(written[w], "record") = Bundle!Content(doc, key, w)
      BY RunFilesAre
    <3>4. seen["record"].doc = doc /\ seen["record"].key = key BY <3>3 DEF Bundle!Content
    <3>5. /\ seen["events"] = Bundle!Of(written[w], "events")
          /\ seen["result"] = Bundle!Of(written[w], "result")
          /\ key # NoKey => seen["signature"] = Bundle!Of(written[w], "signature")
          /\ key # NoKey => seen["signature"].key = key
      <4>1. /\ seen["events"] = Bundle!Plain(doc) /\ seen["result"] = Bundle!Plain(doc)
            /\ key # NoKey => seen["signature"] = Bundle!Content(doc, key, 0)
        BY <3>2, <3>4 DEF Bundle!Recorded
      <4>2. Bundle!Content(doc, key, 0).key = key BY DEF Bundle!Content
      <4> QED BY <3>3, <4>1, <4>2
    <3>6. CASE reader.kind = "load"
      BY <2>1, <3>4, <3>5, <3>6 DEF AcceptedIsOneWrite, Bundle!AcceptedIsOneWrite
    <3>7. CASE reader.kind = "verify"
      <4>1. key # NoKey /\ seen["signature"].key = reader.key
        BY <3>2, <3>4, <3>7 DEF Bundle!SignedWith
      <4>2. \A f \in Bundle!Names : seen[f] = Bundle!Of(written[w], f)
        BY <3>1, <3>5, <4>1 DEF RunNames
      <4> QED BY <2>1, <3>5, <3>7, <4>1, <4>2 DEF AcceptedIsOneWrite, Bundle!AcceptedIsOneWrite
    <3> QED BY <2>1, <2>3, <3>6, <3>7
  <2>4. CASE bundle = "decision"
    <3>1. Bundle!Names = DecisionNames /\ Numbered = {"manifest", "sidecar"}
      BY <2>4, BundleNames
    <3>2. reader.kind = "validate" /\ Bundle!Manifested(reader.key, seen)
      BY <2>1, <2>4 DEF Bundle!Accepts
    <3> PICK w \in DOMAIN written : w = seen["manifest"].write /\ w \in Nat
                                  /\ seen["manifest"] = Bundle!Of(written[w], "manifest")
      BY <2>1, <2>2, <3>1, <3>2 DEF Backed, Bundle!Manifested
    <3> PICK doc \in Docs, key \in Keys, attested \in BOOLEAN :
            written[w] = Bundle!DecisionFiles(doc, key, attested, w)
      BY <2>2, <2>4 DEF GivenAt
    <3>3. /\ Bundle!Of(written[w], "certificate") = Bundle!Plain(doc)
          /\ Bundle!Of(written[w], "truth") = Bundle!Plain(doc)
          /\ Bundle!Of(written[w], "manifest") = Bundle!Content(doc, NoKey, w)
      BY DecisionFilesAre
    <3>4. seen["manifest"].doc = doc BY <3>3 DEF Bundle!Content
    <3>5. /\ seen["certificate"] = Bundle!Of(written[w], "certificate")
          /\ seen["truth"] = Bundle!Of(written[w], "truth")
      BY <3>2, <3>3, <3>4 DEF Bundle!Manifested
    <3>6. ASSUME seen["sidecar"] # Bundle!Missing
          PROVE  seen["sidecar"] = Bundle!Of(written[w], "sidecar")
                 /\ seen["sidecar"].key = reader.key
      <4>1. seen["manifest"] \in Contents BY <3>1 DEF DecisionNames
      <4>2. seen["sidecar"] = [seen["manifest"] EXCEPT !.key = reader.key]
        BY <3>2, <3>6 DEF Bundle!Manifested
      <4>3. seen["sidecar"].write = w /\ seen["sidecar"].key = reader.key
        BY <4>1, <4>2 DEF Contents
      <4> QED BY <2>1, <3>1, <3>6, <4>3 DEF Backed
    <3> QED BY <3>2, <3>5, <3>6 DEF AcceptedIsOneWrite, Bundle!AcceptedIsOneWrite
  <2> QED BY <2>2, <2>3, <2>4
<1> QED BY BundleInit, BundleStep, <1>1, PTL DEF Bundle!Spec, Bundle!vars, bundles

\* After a write that succeeded its readers accept what is in the directory, whatever
\* was left there, with the key it was signed with and no other; but for a decision
\* bundle written unsigned over a signature (writeAgentRunBundle,
\* writeDecisionEvidenceBundle).
THEOREM WrittenSafe == Bundle!Spec => []WrittenIsAccepted
<1>1. BundleInv => WrittenIsAccepted
  <2> SUFFICES ASSUME BundleInv, outcome = "written" PROVE WrittenIsAccepted
    BY DEF WrittenIsAccepted, Bundle!WrittenIsAccepted
  <2>1. /\ bundle \in {"run", "decision"} /\ written \in Seq(Seq(Files)) /\ written # <<>>
        /\ \A w \in DOMAIN written : w \in Nat /\ GivenAt(w, written[w])
        /\ disk \in [Bundle!Names -> Contents] /\ Backed(disk, written)
    BY DEF BundleInv, WritersInv, ProgressInv
  <2> PICK w \in DOMAIN written : w = Len(written) /\ w \in Nat \ {0} BY <2>1
  <2> PICK list \in Seq(Files) : list = written[w] BY <2>1
  <2>2. /\ \A i \in DOMAIN list : disk[list[i].name] = list[i].content
        /\ Listed(list)
    BY <2>1, GivenFiles DEF BundleInv, ProgressInv, OnDisk
  <2>3. ASSUME NEW name, Bundle!Of(list, name) # Bundle!Missing
        PROVE  disk[name] = Bundle!Of(list, name)
    <3>1. Has(list, name) BY <2>2, <2>3, OfFile
    <3> PICK i \in DOMAIN list : list[i].name = name BY <3>1 DEF Has
    <3>2. Bundle!Of(list, list[i].name) = list[i].content BY <2>2, OfFile
    <3> QED BY <2>2, <3>2
  <2>4. CASE bundle = "run"
    <3> PICK doc \in Docs, key \in Keys : list = Bundle!RunFiles(doc, key, w)
      BY <2>1, <2>4 DEF GivenAt
    <3>1. /\ Bundle!Of(list, "events") = Bundle!Plain(doc)
          /\ Bundle!Of(list, "result") = Bundle!Plain(doc)
          /\ Bundle!Of(list, "signature") =
                 IF key = NoKey THEN Bundle!Missing ELSE Bundle!Content(doc, key, 0)
          /\ Bundle!Of(list, "record") = Bundle!Content(doc, key, w)
      BY RunFilesAre
    <3>2. /\ Bundle!Plain(doc) # Bundle!Missing /\ Bundle!Content(doc, key, w) # Bundle!Missing
          /\ Bundle!Content(doc, key, 0) # Bundle!Missing
      BY MissingContent DEF Bundle!Plain
    <3>3. /\ disk["events"] = Bundle!Plain(doc) /\ disk["result"] = Bundle!Plain(doc)
          /\ disk["record"] = Bundle!Content(doc, key, w) /\ disk["record"] # Bundle!Missing
          /\ key # NoKey => disk["signature"] = Bundle!Content(doc, key, 0)
      BY <2>3, <3>1, <3>2
    <3>4. disk["record"].doc = doc /\ disk["record"].key = key /\ disk["result"].doc = doc
      BY <3>3 DEF Bundle!Content, Bundle!Plain
    <3>5. Bundle!Recorded(disk) BY <3>3, <3>4 DEF Bundle!Recorded
    <3>6. \A k \in SigningKeys : Bundle!SignedWith(k, disk) <=> k = key
      <4>1. NoKey \notin SigningKeys BY FlowsAssumption DEF FlowsAssumption
      <4>2. key # NoKey => disk["signature"].key = key /\ disk["signature"].doc = doc
        BY <3>3 DEF Bundle!Content
      <4> QED BY <3>4, <4>1, <4>2 DEF Bundle!SignedWith
    <3>7. /\ Bundle!Accepts("load", NoKey, disk)
          /\ \A k \in SigningKeys : Bundle!Accepts("verify", k, disk) <=> k = key
      BY <3>5, <3>6 DEF Bundle!Accepts
    <3>8. Bundle!Of(list, "record").key = key BY <3>1 DEF Bundle!Content
    <3> QED BY <2>2, <2>4, <3>7, <3>8 DEF WrittenIsAccepted, Bundle!WrittenIsAccepted
  <2>5. CASE bundle = "decision"
    <3>1. Bundle!Names = DecisionNames /\ Numbered = {"manifest", "sidecar"}
      BY <2>5, BundleNames
    <3> PICK doc \in Docs, key \in Keys, attested \in BOOLEAN :
            list = Bundle!DecisionFiles(doc, key, attested, w)
      BY <2>1, <2>5 DEF GivenAt
    <3>2. /\ Bundle!Of(list, "certificate") = Bundle!Plain(doc)
          /\ Bundle!Of(list, "truth") = Bundle!Plain(doc)
          /\ Bundle!Of(list, "manifest") = Bundle!Content(doc, NoKey, w)
          /\ Bundle!Of(list, "sidecar") =
                 IF key = NoKey THEN Bundle!Missing ELSE Bundle!Content(doc, key, w)
      BY DecisionFilesAre
    <3>3. /\ Bundle!Plain(doc) # Bundle!Missing /\ Bundle!Content(doc, key, w) # Bundle!Missing
          /\ Bundle!Content(doc, NoKey, w) # Bundle!Missing
      BY MissingContent DEF Bundle!Plain
    <3>4. /\ disk["certificate"] = Bundle!Plain(doc) /\ disk["truth"] = Bundle!Plain(doc)
          /\ disk["manifest"] = Bundle!Content(doc, NoKey, w) /\ disk["manifest"] # Bundle!Missing
          /\ key # NoKey => disk["sidecar"] = Bundle!Content(doc, key, w)
      BY <2>3, <3>2, <3>3
    <3>5. Bundle!Of(list, "sidecar").key = key
      BY <3>2, MissingContent DEF Bundle!Content
    <3>6. \A k : [disk["manifest"] EXCEPT !.key = k] = Bundle!Content(doc, k, w)
      BY <3>4 DEF Bundle!Content
    <3>7. disk["manifest"].doc = doc BY <3>4 DEF Bundle!Content
    <3>8. \A k : Bundle!Manifested(k, disk) <=>
              (disk["sidecar"] # Bundle!Missing =>
                  k # NoKey /\ disk["sidecar"] = Bundle!Content(doc, k, w))
      BY <3>4, <3>6, <3>7 DEF Bundle!Manifested
    <3>9. ASSUME NEW k \in SigningKeys \cup {NoKey}
          PROVE  Bundle!Manifested(k, disk) <=>
                     (key # NoKey /\ k = key) \/ disk["sidecar"] = Bundle!Missing
      <4>1. CASE key # NoKey
        <5>1. disk["sidecar"].key = key /\ disk["sidecar"] # Bundle!Missing
          BY <3>3, <3>4, <4>1 DEF Bundle!Content
        <5>2. disk["sidecar"] = Bundle!Content(doc, k, w) <=> k = key
          BY <3>4, <4>1, <5>1 DEF Bundle!Content
        <5> QED BY <3>8, <4>1, <5>1, <5>2
      <4>2. CASE key = NoKey
        <5>1. ASSUME disk["sidecar"] = Bundle!Content(doc, k, w), disk["sidecar"] # Bundle!Missing
              PROVE  FALSE
          <6>1. disk["sidecar"].write = w BY <5>1 DEF Bundle!Content
          <6>2. disk["sidecar"] = Bundle!Of(list, "sidecar")
            BY <2>1, <3>1, <5>1, <6>1 DEF Backed
          <6> QED BY <3>2, <4>2, <5>1, <6>2
        <5> QED BY <3>8, <4>2, <5>1
      <4> QED BY <4>1, <4>2
    <3>10. \A k \in SigningKeys \cup {NoKey} : Bundle!Accepts("validate", k, disk) <=>
               (key # NoKey /\ k = key) \/ disk["sidecar"] = Bundle!Missing
      BY <3>9 DEF Bundle!Accepts
    <3> QED BY <2>2, <2>5, <3>5, <3>10 DEF WrittenIsAccepted, Bundle!WrittenIsAccepted
  <2> QED BY <2>1, <2>4, <2>5
<1> QED BY BundleInit, BundleStep, <1>1, PTL DEF Bundle!Spec, Bundle!vars, bundles
-----------------------------------------------------------------------------
(* EnforceCommand: an exit code is backed by a record of the server. *)

HashOrNull == Hashes \cup {NoHash}
Quotes == [version : Nat, expected : HashOrNull]
JobPhases == {"idle", "reserve", "verify", "post", "await", "done", "killed"}
JobRows == [phase : JobPhases, mode : Enforce!Modes, run : RunIds \cup {"none"}, quote : Quotes,
            attempts : Nat, hash : HashOrNull, grade : BOOLEAN, status : Statuses \cup {"none"},
            exit : 0 .. 4]
RequestRows == [mode : Enforce!Modes \cup {"none"}, run : RunIds \cup {"none"}, quote : Quotes,
                hash : HashOrNull, grade : BOOLEAN]
Codes == Enforce!DecisionReasonCodes \cup
         {"none", "ERROR", "COMPLETED", "ENFORCE_INVALID_TRANSITION", "ENFORCE_STALE_STATE_VERSION",
          "ENFORCE_EXPECTED_HASH_MISMATCH", "ENFORCE_DECISION_GRADE_REQUIRED"}
AnswerRows == [http : {0, 200, 409, 500}, code : Codes, offer : Quotes]
RecordRows == [job : Jobs, run : RunIds \cup {"none"}, mode : Enforce!Modes, code : Codes,
               decision : Enforce!DecisionStates \cup {"none"}, hash : HashOrNull]

PipelineTypes ==
    /\ posture \in [state : Enforce!LifecycleStates, version : Nat, pending : HashOrNull]
    /\ truth \in [exists : BOOLEAN, hash : HashOrNull]
    /\ records \in Seq(RecordRows)
    /\ jobs \in [Jobs -> JobRows]
    /\ request \in [Jobs -> RequestRows]
    /\ answer \in [Jobs -> AnswerRows]
    /\ shown \subseteq Quotes

OwnIn(recs, j) == {i \in DOMAIN recs : recs[i].job = j}

\* A record of what the job verified, and of what it concludes.
Behind(j, row, trusted, recs) ==
    \E i \in OwnIn(recs, j) :
        /\ recs[i].mode = row.mode /\ recs[i].hash = row.hash
        /\ row.mode = "check" => (recs[i].decision = "decision_trusted" <=> trusted)

Drifted(ans) == ans.code \in {"DRIFT_DETECTED", "RERUN_FAIL"}

\* A job posts once, under a run that is charged; what answers it is on record.
JobInv(j, row, req, ans, paid, recs) ==
    /\ row.phase \in {"idle", "reserve", "verify", "post"} =>
          req = Enforce!NoRequest /\ OwnIn(recs, j) = {}
    /\ row.phase \in {"verify", "post", "await"} => row.run \in paid
    /\ row.phase \in {"post", "await"} => row.status \in Statuses
    /\ req # Enforce!NoRequest =>
          /\ OwnIn(recs, j) = {} /\ req.run \in paid
          /\ row.phase = "await" => req.mode = row.mode /\ req.hash = row.hash
    /\ ans # Enforce!NoAnswer => row.phase = "await" /\ req = Enforce!NoRequest
    /\ ans.http = 200 => Behind(j, row, ~Drifted(ans), recs)
    /\ row.phase = "done" /\ row.exit # 3 => Behind(j, row, row.exit # 4, recs)

PipelineInv ==
    /\ PipelineTypes
    /\ \A j \in Jobs : JobInv(j, jobs[j], request[j], answer[j], charged, records)
    /\ \A i \in DOMAIN records : records[i].run \in charged
    /\ \A i, k \in DOMAIN records : records[i].job = records[k].job => i = k

LEMMA PipelineInit == Enforce!Init => PipelineInv
<1> SUFFICES ASSUME Enforce!Init PROVE PipelineInv OBVIOUS
<1>1. /\ records = <<>> /\ charged = {} /\ jobs = [j \in Jobs |-> Enforce!NewJob]
      /\ request = [j \in Jobs |-> Enforce!NoRequest]
      /\ answer = [j \in Jobs |-> Enforce!NoAnswer]
  BY DEF Enforce!Init
<1>2. Enforce!NoQuote \in Quotes BY DEF Enforce!NoQuote, Quotes, HashOrNull
<1>3. Enforce!NewJob \in JobRows
  BY <1>2 DEF Enforce!NewJob, JobRows, JobPhases, Enforce!Modes, HashOrNull
<1>4. Enforce!NoRequest \in RequestRows /\ Enforce!NoAnswer \in AnswerRows
  BY <1>2 DEF Enforce!NoRequest, Enforce!NoAnswer, RequestRows, AnswerRows, Codes, HashOrNull
<1>5. /\ posture \in [state : Enforce!LifecycleStates, version : Nat, pending : HashOrNull]
      /\ truth \in [exists : BOOLEAN, hash : HashOrNull]
  <2>1. CASE /\ truth = [exists |-> FALSE, hash |-> NoHash]
             /\ posture = [state |-> "baseline_missing", version |-> 0, pending |-> NoHash]
    BY <2>1 DEF Enforce!LifecycleStates, HashOrNull
  <2>2. ASSUME NEW h \in Hashes, NEW s \in Enforce!LifecycleStates, NEW k \in HashOrNull,
               truth = [exists |-> TRUE, hash |-> h],
               posture = [state |-> s, version |-> 1, pending |-> k]
        PROVE  /\ posture \in [state : Enforce!LifecycleStates, version : Nat, pending : HashOrNull]
               /\ truth \in [exists : BOOLEAN, hash : HashOrNull]
    BY <2>2 DEF HashOrNull
  <2>3. CASE \E h \in Hashes, s \in Enforce!LifecycleStates \ {"baseline_missing"} :
                /\ truth = [exists |-> TRUE, hash |-> h]
                /\ posture = [state |-> s, version |-> 1,
                              pending |-> IF s = "action_required" THEN h ELSE NoHash]
    <3>1. PICK h \in Hashes, s \in Enforce!LifecycleStates :
             /\ truth = [exists |-> TRUE, hash |-> h]
             /\ posture = [state |-> s, version |-> 1,
                           pending |-> IF s = "action_required" THEN h ELSE NoHash]
      BY <2>3
    <3>2. (IF s = "action_required" THEN h ELSE NoHash) \in HashOrNull BY DEF HashOrNull
    <3> QED BY <2>2, <3>1, <3>2
  <2> QED BY <2>1, <2>3 DEF Enforce!Init
<1>6. shown \subseteq Quotes
  <2>1. [version |-> 1, expected |-> posture.pending] \in Quotes BY <1>5 DEF Quotes
  <2> QED BY <2>1 DEF Enforce!Init
<1>7. PipelineTypes
  BY <1>1, <1>3, <1>4, <1>5, <1>6 DEF PipelineTypes
<1>8. ASSUME NEW j \in Jobs PROVE JobInv(j, jobs[j], request[j], answer[j], charged, records)
  <2>1. /\ jobs[j].phase = "idle" /\ request[j] = Enforce!NoRequest /\ answer[j] = Enforce!NoAnswer
        /\ answer[j].http = 0 /\ OwnIn(records, j) = {}
    BY <1>1 DEF Enforce!NewJob, Enforce!NoAnswer, OwnIn
  <2> QED BY <2>1 DEF JobInv
<1> QED BY <1>1, <1>7, <1>8 DEF PipelineInv

\* What the pure functions answer is a code, and a check that answers 200 trusts
\* unless it reports drift.
LEMMA CheckEvaluated ==
    ASSUME NEW state \in Enforce!LifecycleStates,
           NEW base \in [exists : BOOLEAN, hash : HashOrNull], NEW actual,
           NEW e, e = Enforce!EvaluateCheck(state, base, actual)
    PROVE  /\ e.after \in Enforce!LifecycleStates /\ e.pending \in HashOrNull
           /\ e.reason \in Enforce!DecisionReasonCodes /\ e.http \in {200, 409}
           /\ e.decision \in Enforce!DecisionStates
           /\ e.http = 200 => (e.decision = "decision_trusted"
                                <=> e.reason \notin {"DRIFT_DETECTED", "RERUN_FAIL"})
<1> DEFINE lifeIn == IF state = "baseline_missing" /\ base.exists
                     THEN "baseline_active" ELSE state
<1> USE DEF Enforce!LifecycleStates, Enforce!DecisionStates, Enforce!DecisionReasonCodes,
            Enforce!TrustBlockedReasonCodes, HashOrNull
<1>1. base.hash \in HashOrNull /\ base.exists \in BOOLEAN OBVIOUS
<1>2. CASE ~base.exists
  <2>1. e = Enforce!Evaluation("baseline_missing", "decision_blocked", "BASELINE_MISSING", 409, NoHash)
    BY <1>2 DEF Enforce!EvaluateCheck
  <2> QED BY <2>1 DEF Enforce!Evaluation
<1>3. CASE base.exists
  <2>1. lifeIn \in {"baseline_active", "action_required", "rerun_required"} BY <1>3
  <2>2. \/ \E c \in {"CHECK_MATCH", "RERUN_PASS"} :
               e = Enforce!Evaluation("baseline_active", "decision_trusted", c, 200, NoHash)
        \/ \E c \in {"DRIFT_DETECTED", "RERUN_FAIL"} :
               e = Enforce!Evaluation("action_required", "decision_blocked", c, 200, base.hash)
        \/ e = Enforce!Evaluation("action_required", "decision_blocked",
                                  "REMEDIATION_ACK_REQUIRED", 409, base.hash)
    <3>1. CASE lifeIn = "baseline_active"
      BY <1>3, <3>1 DEF Enforce!EvaluateCheck, Enforce!PendingHash
    <3>2. CASE lifeIn = "action_required"
      BY <1>3, <3>2 DEF Enforce!EvaluateCheck, Enforce!PendingHash
    <3>3. CASE lifeIn = "rerun_required"
      BY <1>3, <3>3 DEF Enforce!EvaluateCheck, Enforce!PendingHash
    <3> QED BY <2>1, <3>1, <3>2, <3>3
  <2> QED BY <1>1, <2>2 DEF Enforce!Evaluation
<1> QED BY <1>1, <1>2, <1>3

LEMMA CreateEvaluated ==
    ASSUME NEW state, NEW grade PROVE Enforce!EvaluateCreateBaseline(state, grade) \in Codes
BY DEF Enforce!EvaluateCreateBaseline, Codes

LEMMA AcceptEvaluated ==
    ASSUME NEW row, NEW version, NEW expected, NEW grade
    PROVE  Enforce!EvaluateAccept(row, version, expected, grade) \in Codes
BY DEF Enforce!EvaluateAccept, Codes

\* What holds of a job still does when more runs are charged and others' records added.
LEMMA JobKept ==
    ASSUME NEW k, NEW row, NEW req, NEW ans, NEW paid, NEW recs, NEW more, NEW longer,
           JobInv(k, row, req, ans, paid, recs), paid \subseteq more,
           OwnIn(longer, k) = OwnIn(recs, k), \A i \in OwnIn(recs, k) : longer[i] = recs[i]
    PROVE  JobInv(k, row, req, ans, more, longer)
<1>1. ASSUME NEW trusted, Behind(k, row, trusted, recs) PROVE Behind(k, row, trusted, longer)
  BY <1>1 DEF Behind
<1> QED BY <1>1 DEF JobInv

LEMMA OtherJobs ==
    ASSUME NEW recs \in Seq(RecordRows), NEW rec \in RecordRows, NEW k, rec.job # k
    PROVE  /\ OwnIn(Append(recs, rec), k) = OwnIn(recs, k)
           /\ \A i \in OwnIn(recs, k) : Append(recs, rec)[i] = recs[i]
BY DEF OwnIn

\* A step of a job leaves the others, and adds one record at most: its first.
LEMMA PipelineFrame ==
    ASSUME PipelineInv, PipelineTypes', NEW j \in Jobs,
           \A k \in Jobs \ {j} :
              jobs'[k] = jobs[k] /\ request'[k] = request[k] /\ answer'[k] = answer[k],
           charged \subseteq charged',
           \/ records' = records
           \/ \E rec \in RecordRows :
                 /\ records' = Append(records, rec)
                 /\ rec.job = j /\ rec.run \in charged /\ OwnIn(records, j) = {},
           JobInv(j, jobs'[j], request'[j], answer'[j], charged', records')
    PROVE  PipelineInv'
<1>1. records \in Seq(RecordRows) BY DEF PipelineInv, PipelineTypes
<1>2. ASSUME NEW k \in Jobs PROVE JobInv(k, jobs'[k], request'[k], answer'[k], charged', records')
  <2>1. CASE k = j BY <2>1
  <2>2. CASE k # j
    <3>1. /\ OwnIn(records', k) = OwnIn(records, k)
          /\ \A i \in OwnIn(records, k) : records'[i] = records[i]
      <4>1. ASSUME NEW rec \in RecordRows, records' = Append(records, rec), rec.job = j
            PROVE  /\ OwnIn(records', k) = OwnIn(records, k)
                   /\ \A i \in OwnIn(records, k) : records'[i] = records[i]
        <5>1. rec.job # k BY <2>2, <4>1
        <5>2. /\ OwnIn(Append(records, rec), k) = OwnIn(records, k)
              /\ \A i \in OwnIn(records, k) : Append(records, rec)[i] = records[i]
          BY <1>1, <5>1, OtherJobs
        <5> QED BY <4>1, <5>2
      <4> QED BY <4>1
    <3>2. JobInv(k, jobs[k], request[k], answer[k], charged, records) BY DEF PipelineInv
    <3>3. jobs'[k] = jobs[k] /\ request'[k] = request[k] /\ answer'[k] = answer[k] BY <2>2
    <3>4. JobInv(k, jobs[k], request[k], answer[k], charged', records') BY <3>1, <3>2, JobKept
    <3> QED BY <3>3, <3>4
  <2> QED BY <2>1, <2>2
<1>3. /\ \A i \in DOMAIN records' : records'[i].run \in charged'
      /\ \A i, n \in DOMAIN records' : records'[i].job = records'[n].job => i = n
  <2>0. /\ \A i \in DOMAIN records : records[i].run \in charged
        /\ \A i, n \in DOMAIN records : records[i].job = records[n].job => i = n
    BY DEF PipelineInv
  <2>1. CASE records' = records BY <2>0, <2>1
  <2>2. CASE records' # records
    <3>1. PICK rec \in RecordRows :
             /\ records' = Append(records, rec)
             /\ rec.job = j /\ rec.run \in charged /\ OwnIn(records, j) = {}
      BY <2>2
    <3>2. /\ DOMAIN records' = DOMAIN records \cup {Len(records) + 1}
          /\ Len(records) + 1 \notin DOMAIN records
          /\ \A i \in DOMAIN records : records'[i] = records[i]
          /\ records'[Len(records) + 1] = rec
      BY <1>1, <3>1
    <3>3. \A i \in DOMAIN records : records[i].job # j BY <3>1 DEF OwnIn
    <3> QED BY <2>0, <3>1, <3>2, <3>3
  <2> QED BY <2>1, <2>2
<1> QED BY <1>2, <1>3 DEF PipelineInv

LEMMA PipelineTyped ==
    ASSUME PipelineInv, NEW j \in Jobs
    PROVE  /\ jobs[j] \in JobRows /\ request[j] \in RequestRows /\ answer[j] \in AnswerRows
           /\ JobInv(j, jobs[j], request[j], answer[j], charged, records)
BY DEF PipelineInv, PipelineTypes

\* A client step: the server's rows stay.
LEMMA ClientFrame ==
    ASSUME PipelineInv, NEW j \in Jobs, NEW row \in JobRows, NEW req \in RequestRows,
           NEW ans \in AnswerRows,
           jobs' = [jobs EXCEPT ![j] = row], request' = [request EXCEPT ![j] = req],
           answer' = [answer EXCEPT ![j] = ans], UNCHANGED <<posture, truth, records>>,
           charged \subseteq charged', shown' \subseteq Quotes,
           JobInv(j, row, req, ans, charged', records)
    PROVE  PipelineInv'
<1>1. PipelineTypes BY DEF PipelineInv
<1>2. /\ jobs \in [Jobs -> JobRows] /\ request \in [Jobs -> RequestRows]
      /\ answer \in [Jobs -> AnswerRows]
  BY <1>1 DEF PipelineTypes
<1>3. /\ jobs' \in [Jobs -> JobRows] /\ request' \in [Jobs -> RequestRows]
      /\ answer' \in [Jobs -> AnswerRows]
  BY <1>2
<1>4. PipelineTypes' BY <1>1, <1>3 DEF PipelineTypes
<1>5. /\ jobs'[j] = row /\ request'[j] = req /\ answer'[j] = ans
      /\ \A k \in Jobs \ {j} :
            jobs'[k] = jobs[k] /\ request'[k] = request[k] /\ answer'[k] = answer[k]
  BY <1>2
<1>6. records' = records OBVIOUS
<1>7. JobInv(j, jobs'[j], request'[j], answer'[j], charged', records') BY <1>5, <1>6
<1> QED BY <1>4, <1>5, <1>6, <1>7, PipelineFrame

LEMMA Untouched ==
    ASSUME PipelineInv, NEW j \in Jobs
    PROVE  /\ request = [request EXCEPT ![j] = request[j]]
           /\ answer = [answer EXCEPT ![j] = answer[j]]
           /\ shown \subseteq Quotes
BY DEF PipelineInv, PipelineTypes

\* The row of a job that has exited, with what its exit code has behind it.
LEMMA Exited ==
    ASSUME PipelineInv, NEW j \in Jobs, NEW code \in 0 .. 4, Enforce!Exit(j, code),
           code # 3 => Behind(j, jobs[j], code # 4, records)
    PROVE  \E row \in JobRows :
              /\ jobs' = [jobs EXCEPT ![j] = row] /\ row.phase = "done"
              /\ row.exit # 3 => Behind(j, row, row.exit # 4, records)
<1>1. jobs[j] \in JobRows BY PipelineTyped
<1>2. Enforce!NewJob \in JobRows
  BY DEF Enforce!NewJob, JobRows, JobPhases, Enforce!Modes, HashOrNull, Enforce!NoQuote, Quotes
<1>3. jobs[j].mode \in Enforce!Modes /\ jobs[j].hash \in HashOrNull BY <1>1 DEF JobRows
<1> DEFINE failed == [Enforce!NewJob EXCEPT !.phase = "done", !.exit = 3]
           row == [Enforce!NewJob EXCEPT !.phase = "done", !.exit = code,
                      !.mode = jobs[j].mode, !.hash = jobs[j].hash]
<1>4. failed \in JobRows /\ failed.phase = "done" /\ failed.exit = 3
  <2>1. 3 \in 0 .. 4 /\ 3 \in Int OBVIOUS
  <2>2. ASSUME NEW c \in 0 .. 4
        PROVE  LET f == [Enforce!NewJob EXCEPT !.phase = "done", !.exit = c]
               IN  f \in JobRows /\ f.phase = "done" /\ f.exit = c
    BY <1>2 DEF JobRows, JobPhases
  <2> QED BY <2>1, <2>2
<1>5. /\ row \in JobRows /\ row.phase = "done" /\ row.exit = code /\ row.mode = jobs[j].mode
      /\ row.hash = jobs[j].hash
  BY <1>2, <1>3 DEF JobRows, JobPhases
<1>6. CASE jobs' = [jobs EXCEPT ![j] = failed] BY <1>4, <1>6
<1>7. CASE code # 3 /\ jobs' = [jobs EXCEPT ![j] = row]
  <2>1. Behind(j, row, row.exit # 4, records) BY <1>5, <1>7 DEF Behind
  <2> QED BY <1>5, <1>7, <2>1
<1> QED BY <1>6, <1>7 DEF Enforce!Exit

\* An answer of 200 has a record behind it, so the exit code has.
LEMMA AnswerBacked ==
    ASSUME PipelineInv, NEW j \in Jobs, jobs[j].phase = "await"
    PROVE  /\ Enforce!ExitCode(j) \in 0 .. 4
           /\ Enforce!ExitCode(j) # 3 => Behind(j, jobs[j], Enforce!ExitCode(j) # 4, records)
<1> DEFINE code == Enforce!ExitCode(j)
<1>1. /\ JobInv(j, jobs[j], request[j], answer[j], charged, records)
      /\ jobs[j].status \in {"complete", "inconsistent", "incomplete"}
  BY PipelineTyped, FlowsAssumption DEF JobInv
<1>2. Enforce!ReportsDrift(j) <=> Drifted(answer[j]) BY DEF Enforce!ReportsDrift, Drifted
<1>3. CASE answer[j].http # 200
  <2>1. code = 3 BY <1>3 DEF Enforce!ExitCode
  <2> QED BY <2>1
<1>4. CASE answer[j].http = 200 /\ jobs[j].mode = "check" /\ Drifted(answer[j])
  <2>1. code = 4 BY <1>2, <1>4 DEF Enforce!ExitCode
  <2>2. Behind(j, jobs[j], ~Drifted(answer[j]), records) BY <1>1, <1>4 DEF JobInv
  <2> QED BY <1>4, <2>1, <2>2 DEF Behind
<1>5. CASE answer[j].http = 200 /\ ~(jobs[j].mode = "check" /\ Drifted(answer[j]))
  <2>1. code \in {0, 1, 2} BY <1>1, <1>2, <1>5 DEF Enforce!ExitCode
  <2>2. Behind(j, jobs[j], ~Drifted(answer[j]), records) BY <1>1, <1>5 DEF JobInv
  <2>3. code \in 0 .. 4 /\ code # 3 /\ code # 4 BY <2>1
  <2> QED BY <1>5, <2>2, <2>3 DEF Behind
<1> QED BY <1>3, <1>4, <1>5

\* A job that stops, with a backed exit code or killed, waits for no answer; its
\* request may still be on the way.
LEMMA Stopped ==
    ASSUME PipelineInv, NEW j \in Jobs, NEW row \in JobRows, row.phase \in {"done", "killed"},
           row.phase = "done" /\ row.exit # 3 => Behind(j, row, row.exit # 4, records),
           NEW paid, charged \subseteq paid
    PROVE  /\ Enforce!NoAnswer \in AnswerRows
           /\ JobInv(j, row, request[j], Enforce!NoAnswer, paid, records)
<1>1. JobInv(j, jobs[j], request[j], answer[j], charged, records) BY PipelineTyped
<1>2. Enforce!NoAnswer \in AnswerRows /\ Enforce!NoAnswer.http = 0
  BY DEF Enforce!NoAnswer, AnswerRows, Codes, Enforce!NoQuote, Quotes, HashOrNull
<1> QED BY <1>1, <1>2 DEF JobInv

\* The phases of a job that has no answer.
LEMMA Unanswered ==
    ASSUME PipelineInv, NEW j \in Jobs, jobs[j].phase # "await"
    PROVE  answer[j] = Enforce!NoAnswer
BY PipelineTyped DEF JobInv

LEMMA ExitStep ==
    ASSUME PipelineInv, NEW j \in Jobs, NEW code \in 0 .. 4, Enforce!Exit(j, code),
           code # 3 => Behind(j, jobs[j], code # 4, records),
           answer' = [answer EXCEPT ![j] = Enforce!NoAnswer], charged \subseteq charged',
           shown' \subseteq Quotes, UNCHANGED <<posture, truth, records, request>>
    PROVE  PipelineInv'
<1>1. PICK row \in JobRows :
         /\ jobs' = [jobs EXCEPT ![j] = row] /\ row.phase = "done"
         /\ row.exit # 3 => Behind(j, row, row.exit # 4, records)
  BY Exited
<1>2. /\ Enforce!NoAnswer \in AnswerRows
      /\ JobInv(j, row, request[j], Enforce!NoAnswer, charged', records)
  BY <1>1, Stopped
<1>3. request[j] \in RequestRows /\ request' = [request EXCEPT ![j] = request[j]]
  BY PipelineTyped, Untouched
<1> QED BY <1>1, <1>2, <1>3, ClientFrame

\* A job that goes on: before it has posted nothing is on the way and nothing recorded.
LEMMA GoOn ==
    ASSUME PipelineInv, NEW j \in Jobs, jobs[j].phase \in {"idle", "reserve", "verify", "post"},
           NEW row \in JobRows, row.phase \in {"reserve", "verify", "post"},
           jobs' = [jobs EXCEPT ![j] = row], charged \subseteq charged',
           row.phase \in {"verify", "post"} => row.run \in charged',
           row.phase = "post" => row.status \in Statuses,
           UNCHANGED <<posture, truth, records, request, answer, shown>>
    PROVE  PipelineInv'
<1>1. /\ request[j] = Enforce!NoRequest /\ OwnIn(records, j) = {}
      /\ answer[j] = Enforce!NoAnswer /\ answer[j].http = 0
  BY PipelineTyped DEF JobInv, Enforce!NoAnswer
<1>2. JobInv(j, row, request[j], answer[j], charged', records) BY <1>1 DEF JobInv
<1>3. request[j] \in RequestRows /\ answer[j] \in AnswerRows BY PipelineTyped
<1>4. /\ request' = [request EXCEPT ![j] = request[j]]
      /\ answer' = [answer EXCEPT ![j] = answer[j]] /\ shown' \subseteq Quotes
  BY Untouched
<1> QED BY <1>2, <1>3, <1>4, ClientFrame

LEMMA JobStartStep ==
    ASSUME PipelineInv, NEW j \in Jobs, Enforce!Start(j) PROVE PipelineInv'
<1>1. PICK mode \in Enforce!Modes, run \in RunIds, q \in shown \cup {Enforce!NoQuote} :
         jobs' = [jobs EXCEPT ![j] = [@ EXCEPT !.phase = "reserve", !.mode = mode,
                                              !.run = run, !.quote = q]]
  BY DEF Enforce!Start
<1> DEFINE row == [jobs[j] EXCEPT !.phase = "reserve", !.mode = mode, !.run = run, !.quote = q]
<1>2. jobs[j] \in JobRows BY PipelineTyped
<1>3. q \in Quotes
  <2>1. Enforce!NoQuote \in Quotes BY DEF Enforce!NoQuote, Quotes, HashOrNull
  <2> QED BY <2>1 DEF PipelineInv, PipelineTypes
<1>4. row \in JobRows /\ row.phase = "reserve" BY <1>2, <1>3 DEF JobRows, JobPhases
<1>5. jobs' = [jobs EXCEPT ![j] = row] BY <1>1
<1> QED BY <1>4, <1>5, GoOn DEF Enforce!Start, Enforce!server

LEMMA ReservedStep ==
    ASSUME PipelineInv, NEW j \in Jobs, Enforce!Reserved(j) PROVE PipelineInv'
<1> DEFINE row == [jobs[j] EXCEPT !.phase = "verify"]
<1>1. jobs[j] \in JobRows BY PipelineTyped
<1>2. row \in JobRows /\ row.phase = "verify" /\ row.run = jobs[j].run
  BY <1>1 DEF JobRows, JobPhases
<1>3. /\ jobs[j].phase = "reserve" /\ jobs' = [jobs EXCEPT ![j] = row]
      /\ charged' = charged \cup {jobs[j].run}
  BY DEF Enforce!Reserved, Enforce!Step
<1> QED BY <1>2, <1>3, GoOn DEF Enforce!Reserved, Enforce!server

LEMMA ReserveUnavailableStep ==
    ASSUME PipelineInv, NEW j \in Jobs, Enforce!ReserveUnavailable(j) PROVE PipelineInv'
<1>1. jobs[j] \in JobRows BY PipelineTyped
<1>2. jobs[j].phase = "reserve" /\ charged \subseteq charged' BY DEF Enforce!ReserveUnavailable
<1>3. CASE jobs' = [jobs EXCEPT ![j].attempts = @ + 1]
  <2> DEFINE row == [jobs[j] EXCEPT !.attempts = @ + 1]
  <2>0. jobs[j].attempts + 1 \in Nat BY <1>1 DEF JobRows
  <2>1. row \in JobRows /\ row.phase = "reserve" BY <1>1, <1>2, <2>0 DEF JobRows
  <2>2. jobs' = [jobs EXCEPT ![j] = row] BY <1>3
  <2> QED BY <1>2, <2>1, <2>2, GoOn DEF Enforce!ReserveUnavailable, Enforce!server
<1>4. CASE Enforce!Exit(j, 3)
  <2>1. answer' = [answer EXCEPT ![j] = Enforce!NoAnswer] /\ shown' \subseteq Quotes
    BY <1>2, Untouched, Unanswered DEF Enforce!ReserveUnavailable
  <2>2. UNCHANGED <<posture, truth, records, request>> /\ 3 \in 0 .. 4
    BY DEF Enforce!ReserveUnavailable, Enforce!server
  <2> QED BY <1>2, <1>4, <2>1, <2>2, ExitStep
<1> QED BY <1>3, <1>4 DEF Enforce!ReserveUnavailable, Enforce!AfterAttempts

LEMMA VerifyStep ==
    ASSUME PipelineInv, NEW j \in Jobs, Enforce!Verify(j) PROVE PipelineInv'
<1>1. PICK h \in Hashes, st \in Statuses, grade \in BOOLEAN :
         jobs' = [jobs EXCEPT ![j] = [@ EXCEPT !.phase = "post", !.hash = h,
                                              !.status = st, !.grade = grade]]
  BY DEF Enforce!Verify
<1> DEFINE row == [jobs[j] EXCEPT !.phase = "post", !.hash = h, !.status = st, !.grade = grade]
<1>2. /\ jobs[j] \in JobRows /\ jobs[j].phase = "verify"
      /\ JobInv(j, jobs[j], request[j], answer[j], charged, records)
  BY PipelineTyped DEF Enforce!Verify
<1>3. jobs[j].run \in charged BY <1>2 DEF JobInv
<1>4. /\ row \in JobRows /\ row.phase = "post" /\ row.run = jobs[j].run /\ row.status = st
  BY <1>2 DEF JobRows, JobPhases, HashOrNull
<1>5. jobs' = [jobs EXCEPT ![j] = row] BY <1>1
<1>6. UNCHANGED <<charged, posture, truth, records, request, answer, shown>>
  BY DEF Enforce!Verify, Enforce!server
<1> HIDE DEF row
<1> QED BY <1>2, <1>3, <1>4, <1>5, <1>6, GoOn

LEMMA PostsStep ==
    ASSUME PipelineInv, NEW j \in Jobs, Enforce!Post(j) PROVE PipelineInv'
<1> DEFINE row == [jobs[j] EXCEPT !.phase = "await"]
           req == [mode |-> jobs[j].mode, run |-> jobs[j].run, quote |-> jobs[j].quote,
                   hash |-> jobs[j].hash, grade |-> jobs[j].grade]
<1>1. /\ jobs[j] \in JobRows /\ answer[j] \in AnswerRows
      /\ JobInv(j, jobs[j], request[j], answer[j], charged, records)
  BY PipelineTyped
<1>2. /\ jobs[j].phase = "post" /\ jobs' = [jobs EXCEPT ![j] = row]
      /\ request' = [request EXCEPT ![j] = req]
  BY DEF Enforce!Post, Enforce!Step
<1>3. /\ row \in JobRows /\ row.phase = "await" /\ row.run = jobs[j].run
      /\ row.status = jobs[j].status /\ row.mode = jobs[j].mode /\ row.hash = jobs[j].hash
  BY <1>1 DEF JobRows, JobPhases
<1>4. req \in RequestRows BY <1>1 DEF JobRows, RequestRows
<1>5. /\ OwnIn(records, j) = {} /\ jobs[j].run \in charged /\ jobs[j].status \in Statuses
      /\ answer[j] = Enforce!NoAnswer /\ answer[j].http = 0
  BY <1>1, <1>2 DEF JobInv, Enforce!NoAnswer
<1>6. req.run = row.run /\ req.mode = row.mode /\ req.hash = row.hash BY <1>3
<1> HIDE DEF row, req
<1>7. JobInv(j, row, req, answer[j], charged', records)
  BY <1>3, <1>5, <1>6 DEF JobInv, Enforce!Post
<1>8. answer' = [answer EXCEPT ![j] = answer[j]] /\ shown' \subseteq Quotes /\ charged' = charged
  BY Untouched DEF Enforce!Post
<1>9. UNCHANGED <<posture, truth, records>> /\ charged \subseteq charged'
  BY <1>8 DEF Enforce!Post, Enforce!server
<1> QED BY <1>1, <1>2, <1>3, <1>4, <1>7, <1>8, <1>9, ClientFrame

\* ReserveDenied, VerifyFails, ConnectionBreaks: exit 3.
LEMMA FailStep ==
    ASSUME PipelineInv, NEW j \in Jobs,
           Enforce!ReserveDenied(j) \/ Enforce!VerifyFails(j) \/ Enforce!ConnectionBreaks(j)
    PROVE  PipelineInv'
<1>1. 3 \in 0 .. 4 /\ Enforce!Exit(j, 3)
  BY DEF Enforce!ReserveDenied, Enforce!VerifyFails, Enforce!ConnectionBreaks
<1>2. answer' = [answer EXCEPT ![j] = Enforce!NoAnswer]
  <2>1. CASE Enforce!ConnectionBreaks(j) BY <2>1 DEF Enforce!ConnectionBreaks
  <2>2. CASE Enforce!ReserveDenied(j) \/ Enforce!VerifyFails(j)
    <3>1. jobs[j].phase # "await" /\ answer' = answer
      BY <2>2 DEF Enforce!ReserveDenied, Enforce!VerifyFails
    <3> QED BY <3>1, Untouched, Unanswered
  <2> QED BY <2>1, <2>2
<1>3. /\ UNCHANGED <<posture, truth, records, request, charged>> /\ shown' \subseteq Quotes
  BY Untouched DEF Enforce!ReserveDenied, Enforce!VerifyFails, Enforce!ConnectionBreaks, Enforce!server
<1> QED BY <1>1, <1>2, <1>3, ExitStep

LEMMA AnswerArrivesStep ==
    ASSUME PipelineInv, NEW j \in Jobs, Enforce!AnswerArrives(j) PROVE PipelineInv'
<1>1. /\ jobs[j].phase = "await" /\ Enforce!Exit(j, Enforce!ExitCode(j))
      /\ answer' = [answer EXCEPT ![j] = Enforce!NoAnswer]
      /\ UNCHANGED <<posture, truth, records, request, charged>>
  BY DEF Enforce!AnswerArrives, Enforce!server
<1>2. /\ Enforce!ExitCode(j) \in 0 .. 4
      /\ Enforce!ExitCode(j) # 3 => Behind(j, jobs[j], Enforce!ExitCode(j) # 4, records)
  BY <1>1, AnswerBacked
<1>3. shown' \subseteq Quotes
  <2>1. answer[j].offer \in Quotes BY PipelineTyped DEF AnswerRows
  <2> QED BY <2>1, Untouched DEF Enforce!AnswerArrives
<1> QED BY <1>1, <1>2, <1>3, ExitStep

LEMMA KilledStep ==
    ASSUME PipelineInv, NEW j \in Jobs, Enforce!Killed(j) PROVE PipelineInv'
<1> DEFINE row == [Enforce!NewJob EXCEPT !.phase = "killed"]
<1>1. row \in JobRows /\ row.phase = "killed"
  <2>1. Enforce!NewJob \in JobRows
    BY DEF Enforce!NewJob, JobRows, JobPhases, Enforce!Modes, HashOrNull, Enforce!NoQuote, Quotes
  <2> QED BY <2>1 DEF JobRows, JobPhases
<1>2. /\ jobs' = [jobs EXCEPT ![j] = row] /\ answer' = [answer EXCEPT ![j] = Enforce!NoAnswer]
      /\ UNCHANGED <<charged, posture, truth, records, request, shown>>
  BY DEF Enforce!Killed, Enforce!server
<1>3. /\ Enforce!NoAnswer \in AnswerRows
      /\ JobInv(j, row, request[j], Enforce!NoAnswer, charged', records)
  BY <1>1, <1>2, Stopped
<1>4. request[j] \in RequestRows /\ request' = [request EXCEPT ![j] = request[j]] /\ shown' \subseteq Quotes
  BY <1>2, PipelineTyped, Untouched
<1> QED BY <1>1, <1>2, <1>3, <1>4, ClientFrame

\* The server has worked on a request: what it records, if anything, is the job's first.
LEMMA ServerFrame ==
    ASSUME PipelineInv, NEW j \in Jobs, request[j] # Enforce!NoRequest,
           NEW http \in {200, 409, 500}, NEW code \in Codes, NEW offer \in Quotes,
           Enforce!Answer(j, http, code, offer),
           posture' \in [state : Enforce!LifecycleStates, version : Nat, pending : HashOrNull],
           truth' \in [exists : BOOLEAN, hash : HashOrNull],
           \/ records' = records /\ http # 200
           \/ \E rec \in RecordRows :
                 /\ records' = Append(records, rec) /\ rec.job = j
                 /\ rec.run = request[j].run /\ rec.mode = request[j].mode
                 /\ rec.hash = request[j].hash
                 /\ http = 200 /\ rec.mode = "check" =>
                       (rec.decision = "decision_trusted"
                        <=> code \notin {"DRIFT_DETECTED", "RERUN_FAIL"})
    PROVE  PipelineInv'
<1> DEFINE given == [http |-> http, code |-> code, offer |-> offer]
           ans == IF jobs[j].phase = "await" THEN given ELSE answer[j]
<1>1. /\ jobs \in [Jobs -> JobRows] /\ request \in [Jobs -> RequestRows]
      /\ answer \in [Jobs -> AnswerRows] /\ records \in Seq(RecordRows) /\ shown \subseteq Quotes
  BY DEF PipelineInv, PipelineTypes
<1>2. JobInv(j, jobs[j], request[j], answer[j], charged, records) BY PipelineTyped
<1>3. /\ OwnIn(records, j) = {} /\ request[j].run \in charged
      /\ jobs[j].phase \notin {"idle", "reserve", "verify", "post"}
      /\ answer[j] = Enforce!NoAnswer /\ answer[j].http = 0
      /\ jobs[j].phase = "await" =>
            /\ request[j].mode = jobs[j].mode /\ request[j].hash = jobs[j].hash
            /\ jobs[j].run \in charged /\ jobs[j].status \in Statuses
      /\ ~(jobs[j].phase = "done" /\ jobs[j].exit # 3)
  BY <1>2 DEF JobInv, Enforce!NoAnswer, Behind
<1>4. /\ request' = [request EXCEPT ![j] = Enforce!NoRequest]
      /\ answer' = [answer EXCEPT ![j] = ans] /\ jobs' = jobs /\ charged' = charged /\ shown' = shown
  <2>1. CASE jobs[j].phase = "await" BY <2>1 DEF Enforce!Answer
  <2>2. CASE jobs[j].phase # "await"
    <3>1. answer' = answer /\ ans = answer[j] BY <2>2 DEF Enforce!Answer
    <3>2. answer' = [answer EXCEPT ![j] = ans]
      <4> HIDE DEF ans
      <4> QED BY <1>1, <3>1
    <3> QED BY <3>2 DEF Enforce!Answer
  <2> QED BY <2>1, <2>2
<1>5. given \in AnswerRows /\ given.http = http /\ given.code = code BY DEF AnswerRows
<1>6. ans \in AnswerRows BY <1>1, <1>5
<1>7. Enforce!NoRequest \in RequestRows
  BY DEF Enforce!NoRequest, RequestRows, Enforce!NoQuote, Quotes, HashOrNull
<1>8. request' \in [Jobs -> RequestRows] /\ answer' \in [Jobs -> AnswerRows]
  BY <1>1, <1>4, <1>6, <1>7
<1>9. records' \in Seq(RecordRows) BY <1>1
<1>10. PipelineTypes' BY <1>1, <1>4, <1>8, <1>9 DEF PipelineTypes
<1>11. /\ jobs'[j] = jobs[j] /\ request'[j] = Enforce!NoRequest /\ answer'[j] = ans
       /\ \A k \in Jobs \ {j} :
             jobs'[k] = jobs[k] /\ request'[k] = request[k] /\ answer'[k] = answer[k]
  BY <1>1, <1>4
<1>12. \/ records' = records
       \/ \E rec \in RecordRows :
             /\ records' = Append(records, rec)
             /\ rec.job = j /\ rec.run \in charged /\ OwnIn(records, j) = {}
  BY <1>3
<1>13. jobs[j].phase = "await" /\ http = 200 => Behind(j, jobs[j], ~Drifted(given), records')
  <2> SUFFICES ASSUME jobs[j].phase = "await", http = 200
               PROVE  Behind(j, jobs[j], ~Drifted(given), records')
    OBVIOUS
  <2>1. PICK rec \in RecordRows :
           /\ records' = Append(records, rec) /\ rec.job = j
           /\ rec.mode = request[j].mode /\ rec.hash = request[j].hash
           /\ rec.mode = "check" => (rec.decision = "decision_trusted"
                                     <=> code \notin {"DRIFT_DETECTED", "RERUN_FAIL"})
    OBVIOUS
  <2>2. /\ Len(records) + 1 \in DOMAIN records' /\ records'[Len(records) + 1] = rec
    BY <1>1, <2>1
  <2>3. Len(records) + 1 \in OwnIn(records', j) BY <2>1, <2>2 DEF OwnIn
  <2>4. Drifted(given) <=> code \in {"DRIFT_DETECTED", "RERUN_FAIL"} BY <1>5 DEF Drifted
  <2> HIDE DEF given
  <2> QED BY <1>3, <2>1, <2>2, <2>3, <2>4 DEF Behind
<1>14. JobInv(j, jobs[j], Enforce!NoRequest, ans, charged, records')
  <2>1. CASE jobs[j].phase = "await"
    <3>1. ans = given BY <2>1
    <3> HIDE DEF given, ans
    <3> QED BY <1>3, <1>5, <1>13, <2>1, <3>1 DEF JobInv
  <2>2. CASE jobs[j].phase # "await"
    <3>1. ans = Enforce!NoAnswer /\ ans.http = 0 BY <1>3, <2>2
    <3> HIDE DEF given, ans
    <3> QED BY <1>3, <2>2, <3>1 DEF JobInv
  <2> QED BY <2>1, <2>2
<1>15. JobInv(j, jobs'[j], request'[j], answer'[j], charged', records')
  BY <1>4, <1>11, <1>14
<1>16. charged \subseteq charged' BY <1>4
<1> HIDE DEF given, ans
<1> QED BY <1>10, <1>11, <1>12, <1>15, <1>16, PipelineFrame

\* What a commit leaves of the workflow, and its record.
LEMMA Committed ==
    ASSUME PipelineInv, NEW j \in Jobs, NEW state \in Enforce!LifecycleStates,
           NEW pending \in HashOrNull, NEW code \in Codes,
           NEW decision \in Enforce!DecisionStates \cup {"none"},
           request[j].mode \in Enforce!Modes, Enforce!Commit(j, state, pending, code, decision)
    PROVE  /\ posture' \in [state : Enforce!LifecycleStates, version : Nat, pending : HashOrNull]
           /\ posture'.version = posture.version + 1
           /\ posture.version + 1 \in Nat
           /\ \E rec \in RecordRows :
                 /\ records' = Append(records, rec) /\ rec.job = j
                 /\ rec.run = request[j].run /\ rec.mode = request[j].mode
                 /\ rec.hash = request[j].hash /\ rec.decision = decision
<1>1. posture.version + 1 \in Nat BY DEF PipelineInv, PipelineTypes
<1>2. /\ posture' \in [state : Enforce!LifecycleStates, version : Nat, pending : HashOrNull]
      /\ posture'.version = posture.version + 1
  BY <1>1 DEF Enforce!Commit
<1>3. request[j].run \in RunIds \cup {"none"} /\ request[j].hash \in HashOrNull
  BY PipelineTyped DEF RequestRows
<1> DEFINE rec == [job |-> j, run |-> request[j].run, mode |-> request[j].mode,
                   code |-> code, decision |-> decision, hash |-> request[j].hash]
<1>4. rec \in RecordRows BY <1>3 DEF RecordRows
<1>5. records' = Append(records, rec) BY DEF Enforce!Commit
<1> QED BY <1>1, <1>2, <1>4, <1>5

LEMMA HandleCheckStep ==
    ASSUME PipelineInv, NEW j \in Jobs, Enforce!HandleCheck(j) PROVE PipelineInv'
<1>1. /\ posture \in [state : Enforce!LifecycleStates, version : Nat, pending : HashOrNull]
      /\ truth \in [exists : BOOLEAN, hash : HashOrNull]
  BY DEF PipelineInv, PipelineTypes
<1>2. posture.state \in Enforce!LifecycleStates BY <1>1
<1>3. PICK e : e = Enforce!EvaluateCheck(posture.state, truth, request[j].hash) OBVIOUS
<1> DEFINE offer == IF e.pending = NoHash THEN Enforce!NoQuote
                    ELSE [version |-> posture.version + 1, expected |-> e.pending]
<1>4. /\ request[j].mode = "check" /\ truth' = truth
      /\ Enforce!Commit(j, e.after, e.pending, e.reason, e.decision)
      /\ Enforce!Answer(j, e.http, e.reason, offer)
  BY <1>3 DEF Enforce!HandleCheck
<1>5. /\ e.after \in Enforce!LifecycleStates /\ e.pending \in HashOrNull
      /\ e.reason \in Enforce!DecisionReasonCodes /\ e.http \in {200, 409}
      /\ e.decision \in Enforce!DecisionStates
      /\ e.http = 200 => (e.decision = "decision_trusted"
                          <=> e.reason \notin {"DRIFT_DETECTED", "RERUN_FAIL"})
  BY <1>1, <1>2, <1>3, CheckEvaluated
<1>6. e.reason \in Codes BY <1>5 DEF Codes
<1>7. /\ posture' \in [state : Enforce!LifecycleStates, version : Nat, pending : HashOrNull]
      /\ posture.version + 1 \in Nat
      /\ \E rec \in RecordRows :
            /\ records' = Append(records, rec) /\ rec.job = j
            /\ rec.run = request[j].run /\ rec.mode = request[j].mode
            /\ rec.hash = request[j].hash /\ rec.decision = e.decision
  <2>1. request[j].mode \in Enforce!Modes BY <1>4 DEF Enforce!Modes
  <2> QED BY <1>4, <1>5, <1>6, <2>1, Committed
<1>8. offer \in Quotes BY <1>5, <1>7 DEF Quotes, Enforce!NoQuote, HashOrNull
<1>9. request[j] # Enforce!NoRequest BY <1>4 DEF Enforce!NoRequest
<1>10. e.http \in {200, 409, 500} BY <1>5
<1>11. truth' \in [exists : BOOLEAN, hash : HashOrNull] BY <1>1, <1>4
<1>12. \E rec \in RecordRows :
          /\ records' = Append(records, rec) /\ rec.job = j
          /\ rec.run = request[j].run /\ rec.mode = request[j].mode
          /\ rec.hash = request[j].hash
          /\ e.http = 200 /\ rec.mode = "check" =>
                (rec.decision = "decision_trusted"
                 <=> e.reason \notin {"DRIFT_DETECTED", "RERUN_FAIL"})
  BY <1>5, <1>7
<1> HIDE DEF offer
<1> QED BY <1>4, <1>6, <1>7, <1>8, <1>9, <1>10, <1>11, <1>12, ServerFrame

\* A refused transition answers 409 and records nothing.
LEMMA RefusedStep ==
    ASSUME PipelineInv, NEW j \in Jobs, request[j] # Enforce!NoRequest,
           NEW http \in {409, 500}, NEW code \in Codes,
           Enforce!Answer(j, http, code, Enforce!NoQuote), UNCHANGED <<posture, truth, records>>
    PROVE  PipelineInv'
<1>1. Enforce!NoQuote \in Quotes BY DEF Enforce!NoQuote, Quotes, HashOrNull
<1>2. /\ posture' \in [state : Enforce!LifecycleStates, version : Nat, pending : HashOrNull]
      /\ truth' \in [exists : BOOLEAN, hash : HashOrNull]
      /\ records' = records /\ http # 200 /\ http \in {200, 409, 500}
  BY DEF PipelineInv, PipelineTypes
<1> QED BY <1>1, <1>2, ServerFrame

\* A baseline or an acceptance that takes effect.
LEMMA CompletedStep ==
    ASSUME PipelineInv, NEW j \in Jobs, request[j].mode \in {"create-baseline", "accept-drift"},
           NEW state \in Enforce!LifecycleStates, NEW code \in Codes,
           NEW decision \in Enforce!DecisionStates \cup {"none"},
           Enforce!Commit(j, state, NoHash, code, decision),
           truth' = [exists |-> TRUE, hash |-> request[j].hash],
           Enforce!Answer(j, 200, "COMPLETED", Enforce!NoQuote)
    PROVE  PipelineInv'
<1>1. Enforce!NoQuote \in Quotes BY DEF Enforce!NoQuote, Quotes, HashOrNull
<1>2. "COMPLETED" \in Codes /\ NoHash \in HashOrNull /\ 200 \in {200, 409, 500}
  BY DEF Codes, HashOrNull
<1>3. request[j].mode \in Enforce!Modes /\ request[j].mode # "check" BY DEF Enforce!Modes
<1>4. request[j] # Enforce!NoRequest BY DEF Enforce!NoRequest
<1>5. request[j].hash \in HashOrNull BY PipelineTyped DEF RequestRows
<1>6. truth' \in [exists : BOOLEAN, hash : HashOrNull] BY <1>5
<1>7. /\ posture' \in [state : Enforce!LifecycleStates, version : Nat, pending : HashOrNull]
      /\ \E rec \in RecordRows :
            /\ records' = Append(records, rec) /\ rec.job = j
            /\ rec.run = request[j].run /\ rec.mode = request[j].mode
            /\ rec.hash = request[j].hash /\ rec.decision = decision
  BY <1>2, <1>3, Committed
<1>8. \E rec \in RecordRows :
         /\ records' = Append(records, rec) /\ rec.job = j
         /\ rec.run = request[j].run /\ rec.mode = request[j].mode
         /\ rec.hash = request[j].hash
         /\ 200 = 200 /\ rec.mode = "check" =>
               (rec.decision = "decision_trusted"
                <=> "COMPLETED" \notin {"DRIFT_DETECTED", "RERUN_FAIL"})
  BY <1>3, <1>7
<1> QED BY <1>1, <1>2, <1>4, <1>6, <1>7, <1>8, ServerFrame

LEMMA HandleCreateStep ==
    ASSUME PipelineInv, NEW j \in Jobs, Enforce!HandleCreate(j) PROVE PipelineInv'
<1>1. PICK code : code = Enforce!EvaluateCreateBaseline(posture.state, request[j].grade) OBVIOUS
<1>2. code \in Codes BY <1>1, CreateEvaluated
<1>3. request[j].mode = "create-baseline" /\ request[j] # Enforce!NoRequest
  BY DEF Enforce!HandleCreate, Enforce!NoRequest
<1>4. CASE code = "COMPLETED"
  <2>1. /\ Enforce!Commit(j, "baseline_active", NoHash, "BASELINE_ESTABLISHED", "decision_trusted")
        /\ truth' = [exists |-> TRUE, hash |-> request[j].hash]
        /\ Enforce!Answer(j, 200, "COMPLETED", Enforce!NoQuote)
    BY <1>1, <1>4 DEF Enforce!HandleCreate
  <2>2. /\ "baseline_active" \in Enforce!LifecycleStates /\ "BASELINE_ESTABLISHED" \in Codes
        /\ "decision_trusted" \in Enforce!DecisionStates \cup {"none"}
    BY DEF Enforce!LifecycleStates, Codes, Enforce!DecisionReasonCodes, Enforce!DecisionStates
  <2> QED BY <1>3, <2>1, <2>2, CompletedStep
<1>5. CASE code # "COMPLETED"
  <2>1. /\ Enforce!Answer(j, 409, code, Enforce!NoQuote) /\ UNCHANGED <<posture, truth, records>>
    BY <1>1, <1>5 DEF Enforce!HandleCreate, Enforce!server
  <2> QED BY <1>2, <1>3, <2>1, RefusedStep
<1> QED BY <1>4, <1>5

LEMMA HandleAcceptStep ==
    ASSUME PipelineInv, NEW j \in Jobs, Enforce!HandleAccept(j) PROVE PipelineInv'
<1>1. PICK code : code = Enforce!EvaluateAccept(posture, request[j].quote.version,
                                               request[j].quote.expected, request[j].grade)
  OBVIOUS
<1>2. code \in Codes BY <1>1, AcceptEvaluated
<1>3. request[j].mode = "accept-drift" /\ request[j] # Enforce!NoRequest
  BY DEF Enforce!HandleAccept, Enforce!NoRequest
<1>4. CASE code = "COMPLETED"
  <2>1. /\ Enforce!Commit(j, "rerun_required", NoHash, "none", "none")
        /\ truth' = [exists |-> TRUE, hash |-> request[j].hash]
        /\ Enforce!Answer(j, 200, "COMPLETED", Enforce!NoQuote)
    BY <1>1, <1>4 DEF Enforce!HandleAccept
  <2>2. /\ "rerun_required" \in Enforce!LifecycleStates /\ "none" \in Codes
        /\ "none" \in Enforce!DecisionStates \cup {"none"}
    BY DEF Enforce!LifecycleStates, Codes
  <2> QED BY <1>3, <2>1, <2>2, CompletedStep
<1>5. CASE code # "COMPLETED"
  <2>1. /\ Enforce!Answer(j, 409, code, Enforce!NoQuote) /\ UNCHANGED <<posture, truth, records>>
    BY <1>1, <1>5 DEF Enforce!HandleAccept, Enforce!server
  <2> QED BY <1>2, <1>3, <2>1, RefusedStep
<1> QED BY <1>4, <1>5

LEMMA PipelineStep == PipelineInv /\ [Enforce!Next]_(Enforce!vars) => PipelineInv'
<1> SUFFICES ASSUME PipelineInv, [Enforce!Next]_(Enforce!vars) PROVE PipelineInv' OBVIOUS
<1>1. CASE UNCHANGED Enforce!vars
  BY <1>1 DEF Enforce!vars, Enforce!server, PipelineInv, PipelineTypes
<1>2. ASSUME NEW j \in Jobs, Enforce!Refuse(j) PROVE PipelineInv'
  <2>1. 500 \in {409, 500} /\ "ERROR" \in Codes BY DEF Codes
  <2> QED BY <1>2, <2>1, RefusedStep DEF Enforce!Refuse, Enforce!server
<1>3. ASSUME NEW j \in Jobs, Enforce!Handle(j) PROVE PipelineInv'
  BY <1>3, HandleCheckStep, HandleCreateStep, HandleAcceptStep DEF Enforce!Handle
<1> QED BY <1>1, <1>2, <1>3, JobStartStep, ReservedStep, ReserveUnavailableStep, VerifyStep, PostsStep,
        FailStep, AnswerArrivesStep, KilledStep DEF Enforce!Next

\* For any jobs, workflow statuses, attempts and breaks on the way: an exit code of the
\* enforce command says what the server has recorded of what this job verified, and no
\* job leaves two records or one under a run that is not charged (runStatefulEnforce).
THEOREM ExitSafe == Enforce!Spec => []ExitIsBacked
<1>1. ASSUME PipelineInv PROVE ExitIsBacked
  <2>1. ASSUME NEW j \in Jobs PROVE \A i, k \in Enforce!Own(j) : i = k
    BY <1>1 DEF PipelineInv, Enforce!Own
  <2>2. ASSUME NEW j \in Jobs, jobs[j].phase = "done" /\ jobs[j].exit # 3
        PROVE  \E i \in Enforce!Own(j) :
                  /\ records[i].mode = jobs[j].mode /\ records[i].hash = jobs[j].hash
                  /\ jobs[j].mode = "check" =>
                        (records[i].decision = "decision_trusted" <=> jobs[j].exit # 4)
    <3>1. Behind(j, jobs[j], jobs[j].exit # 4, records) BY <1>1, <2>2 DEF PipelineInv, JobInv
    <3>2. OwnIn(records, j) = Enforce!Own(j) BY DEF OwnIn, Enforce!Own
    <3> QED BY <3>1, <3>2 DEF Behind
  <2>3. \A i \in DOMAIN records : records[i].run \in charged BY <1>1 DEF PipelineInv
  <2> QED BY <2>1, <2>2, <2>3 DEF ExitIsBacked, Enforce!ExitIsBacked
<1> QED BY PipelineInit, PipelineStep, <1>1, PTL DEF Enforce!Spec
-----------------------------------------------------------------------------
(* TrustAlerts: a recorded digest suppresses the next, and each is worth sending. *)

AlertEvents == [account : Accounts, decision : Decisions, at : Nat]
JobRuns == [phase : {"idle", "count", "choose", "send", "record"}, at : Nat,
            accounts : SUBSET Accounts, alone : BOOLEAN]
DigestRows == [to : Accounts, at : Nat, run : Runs, recorded : BOOLEAN, about : Nat]

\* A decision is an event once.
EventsInv(evs, got) ==
    /\ evs \subseteq AlertEvents /\ IsFiniteSet(evs)
    /\ \A e \in evs : <<e.account, e.decision>> \in got
    /\ \A e, f \in evs : e.account = f.account /\ e.decision = f.decision => e = f

BlockedIn(evs, a, t) == {e \in evs : e.account = a /\ e.at + Day >= t}
DecisionsIn(evs, a, t) == {e.decision : e \in BlockedIn(evs, a, t)}
Worth(evs, a, t) == Cardinality(DecisionsIn(evs, a, t)) >= Threshold

AlertTypes ==
    /\ clock \in Nat \ {0}
    /\ checkpoint \in [Accounts -> Nat]
    /\ job \in [Runs -> JobRuns]
    /\ mails \in Seq(DigestRows)

\* The last digest of run r is the m-th.
LastIs(digests, r, m) ==
    /\ m \in DOMAIN digests /\ digests[m].run = r
    /\ \A i \in DOMAIN digests : digests[i].run = r => i <= m

\* A run has started, and counts what is worth a digest; it records what it sent last.
\* One that nothing overlapped has sent the last digest of all.
RunInv(r, row, digests, evs, time) ==
    row.phase # "idle" =>
        /\ row.at \in 1 .. time
        /\ row.phase # "count" => \A a \in row.accounts : Worth(evs, a, row.at)
        /\ row.phase = "record" =>
              \E m \in DOMAIN digests :
                 /\ LastIs(digests, r, m) /\ digests[m].at = row.at
                 /\ digests[m].to \in row.accounts
                 /\ row.alone => m = Len(digests)

\* The account of a recorded digest has the checkpoint; who goes on to send it another
\* is due, who has not asked yet started no earlier.
RecordedInv(digest, mark, rows) ==
    /\ digest.at >= 1 /\ mark[digest.to] >= digest.at
    /\ \A r \in Runs : rows[r].phase # "idle" =>
          /\ rows[r].at >= digest.at
          /\ rows[r].phase \in {"send", "record"} /\ digest.to \in rows[r].accounts =>
                rows[r].at >= digest.at + Day

AlertInv ==
    /\ AlertTypes
    /\ EventsInv(events, receipts)
    /\ \A r \in Runs : RunInv(r, job[r], mails, events, clock)
    /\ \A r, q \in Runs : job[r].phase # "idle" /\ job[r].alone /\ job[q].phase # "idle" => r = q
    /\ \A i \in DOMAIN mails : mails[i].about >= Threshold /\ mails[i].at <= clock
    /\ \A i \in DOMAIN mails : mails[i].recorded => RecordedInv(mails[i], checkpoint, job)
    /\ Alert!DigestsAreDue

LEMMA SameCardinality ==
    \A S : Alert!Cardinality(S) = Cardinality(S)
BY DEF Alert!Cardinality, Cardinality

LEMMA AlertBounds == Day \in Nat /\ Threshold \in Nat
BY FlowsAssumption

\* No decision counts twice.
LEMMA EachDecisionOnce ==
    ASSUME NEW evs, NEW got, EventsInv(evs, got), NEW a, NEW t
    PROVE  /\ IsFiniteSet(DecisionsIn(evs, a, t))
           /\ Cardinality(DecisionsIn(evs, a, t)) \in Nat
           /\ Cardinality(DecisionsIn(evs, a, t)) = Cardinality(BlockedIn(evs, a, t))
<1> DEFINE B == BlockedIn(evs, a, t)
           D == DecisionsIn(evs, a, t)
           f == [e \in B |-> e.decision]
<1>1. IsFiniteSet(B)
  <2>1. B \in SUBSET evs BY DEF BlockedIn
  <2> QED BY <2>1, FS_Subset DEF EventsInv
<1>2. f \in Bijection(B, D)
  <2>1. f \in [B -> D] BY DEF DecisionsIn
  <2>2. \A x, y \in B : f[x] = f[y] => x = y BY DEF BlockedIn, EventsInv
  <2>3. \A d \in D : \E x \in B : f[x] = d BY DEF DecisionsIn
  <2> QED BY <2>1, <2>2, <2>3 DEF Bijection, Injection, Surjection, IsInjective
<1>3. ExistsBijection(B, D) BY <1>2 DEF ExistsBijection
<1> QED BY <1>1, <1>3, FS_Bijection, FS_CardinalityType

\* What was worth a digest stays it while events are added.
LEMMA WorthKept ==
    ASSUME NEW evs, NEW more, NEW got, NEW got2, EventsInv(evs, got), EventsInv(more, got2),
           evs \subseteq more, NEW a, NEW t, Worth(evs, a, t)
    PROVE  Worth(more, a, t)
<1>1. DecisionsIn(evs, a, t) \in SUBSET DecisionsIn(more, a, t) BY DEF DecisionsIn, BlockedIn
<1>2. IsFiniteSet(DecisionsIn(more, a, t)) BY EachDecisionOnce
<1>3. Cardinality(DecisionsIn(evs, a, t)) <= Cardinality(DecisionsIn(more, a, t))
  BY <1>1, <1>2, FS_Subset
<1>4. /\ Cardinality(DecisionsIn(evs, a, t)) \in Nat /\ Cardinality(DecisionsIn(more, a, t)) \in Nat
      /\ Threshold \in Nat
  BY EachDecisionOnce, AlertBounds
<1> QED BY <1>3, <1>4 DEF Worth

LEMMA AlertInit == Alert!Init => AlertInv
<1> SUFFICES ASSUME Alert!Init PROVE AlertInv OBVIOUS
<1>1. /\ clock = 1 /\ receipts = {} /\ events = {} /\ mails = <<>>
      /\ checkpoint = [a \in Accounts |-> 0] /\ job = [r \in Runs |-> Alert!NoRun]
  BY DEF Alert!Init
<1>2. Alert!NoRun \in JobRuns /\ Alert!NoRun.phase = "idle" BY DEF Alert!NoRun, JobRuns
<1>3. AlertTypes
  <2>1. mails \in Seq(DigestRows) BY <1>1
  <2> QED BY <1>1, <1>2, <2>1 DEF AlertTypes
<1>4. EventsInv(events, receipts) BY <1>1, FS_EmptySet DEF EventsInv
<1>5. \A r \in Runs : job[r].phase = "idle" BY <1>1, <1>2
<1>6. \A r \in Runs : RunInv(r, job[r], mails, events, clock) BY <1>5 DEF RunInv
<1>7. Alert!DigestsAreDue BY <1>1 DEF Alert!DigestsAreDue
<1> QED BY <1>1, <1>3, <1>4, <1>5, <1>6, <1>7 DEF AlertInv

LEMMA AlertTyped ==
    ASSUME AlertInv, NEW r \in Runs
    PROVE  /\ job[r] \in JobRuns /\ job[r].accounts \subseteq Accounts
           /\ RunInv(r, job[r], mails, events, clock)
BY DEF AlertInv, AlertTypes, JobRuns

LEMMA MailTyped ==
    ASSUME AlertInv, NEW i \in DOMAIN mails
    PROVE  /\ mails[i] \in DigestRows /\ mails[i].at \in Nat /\ mails[i].to \in Accounts
           /\ mails[i].about >= Threshold /\ mails[i].at <= clock
           /\ mails[i].recorded => RecordedInv(mails[i], checkpoint, job)
<1>1. mails[i] \in DigestRows
  <2>1. mails \in Seq(DigestRows) BY DEF AlertInv, AlertTypes
  <2> QED BY <2>1
<1>2. mails[i].at \in Nat /\ mails[i].to \in Accounts BY <1>1 DEF DigestRows
<1> QED BY <1>1, <1>2 DEF AlertInv

LEMMA TickStep == ASSUME AlertInv, Alert!Tick PROVE AlertInv'
<1>1. /\ clock' = clock + 1 /\ clock \in Nat \ {0}
      /\ UNCHANGED <<receipts, events, checkpoint, job, mails>>
  BY DEF Alert!Tick, AlertInv, AlertTypes
<1>2. AlertTypes' BY <1>1 DEF AlertInv, AlertTypes
<1>3. ASSUME NEW r \in Runs PROVE RunInv(r, job'[r], mails', events', clock')
  <2>1. RunInv(r, job[r], mails, events, clock) /\ job[r].at \in Nat
    BY AlertTyped DEF JobRuns
  <2>2. RunInv(r, job[r], mails, events, clock + 1) BY <1>1, <2>1 DEF RunInv
  <2> QED BY <1>1, <2>2
<1>4. \A i \in DOMAIN mails' : mails'[i].about >= Threshold /\ mails'[i].at <= clock'
  <2>1. ASSUME NEW i \in DOMAIN mails
        PROVE  mails[i].at \in Nat /\ mails[i].about >= Threshold /\ mails[i].at <= clock
    BY MailTyped
  <2> QED BY <1>1, <2>1
<1>5. Alert!DigestsAreDue' BY <1>1 DEF AlertInv, Alert!DigestsAreDue
<1>6. \A i \in DOMAIN mails' : mails'[i].recorded => RecordedInv(mails'[i], checkpoint', job')
  BY <1>1 DEF AlertInv
<1> QED BY <1>1, <1>2, <1>3, <1>4, <1>5, <1>6 DEF AlertInv

LEMMA IngestStep ==
    ASSUME AlertInv, NEW a \in Accounts, NEW d \in Decisions, Alert!Ingest(a, d) PROVE AlertInv'
<1> DEFINE new == [account |-> a, decision |-> d, at |-> clock]
<1>1. /\ receipts' = receipts \cup {<<a, d>>}
      /\ events' = IF <<a, d>> \in receipts THEN events ELSE events \cup {new}
      /\ UNCHANGED <<clock, checkpoint, job, mails>>
  BY DEF Alert!Ingest, Alert!AlreadyReceived
<1>2. EventsInv(events, receipts) /\ clock \in Nat BY DEF AlertInv, AlertTypes
<1>3. EventsInv(events', receipts')
  <2>1. CASE <<a, d>> \in receipts BY <1>1, <1>2, <2>1 DEF EventsInv
  <2>2. CASE <<a, d>> \notin receipts
    <3>1. events' = events \cup {new} BY <1>1, <2>2
    <3>2. new \in AlertEvents BY <1>2 DEF AlertEvents
    <3>3. IsFiniteSet(events') BY <1>2, <3>1, FS_AddElement DEF EventsInv
    <3>4. new.account = a /\ new.decision = d OBVIOUS
    <3>5. \A e \in events : ~(e.account = a /\ e.decision = d) BY <1>2, <2>2 DEF EventsInv
    <3> HIDE DEF new
    <3> QED BY <1>1, <1>2, <3>1, <3>2, <3>3, <3>4, <3>5 DEF EventsInv
  <2> QED BY <2>1, <2>2
<1>4. events \subseteq events' BY <1>1
<1>5. ASSUME NEW r \in Runs PROVE RunInv(r, job'[r], mails', events', clock')
  <2>1. RunInv(r, job[r], mails, events, clock) BY AlertTyped
  <2>2. ASSUME NEW b, NEW t, Worth(events, b, t) PROVE Worth(events', b, t)
    BY <1>2, <1>3, <1>4, <2>2, WorthKept
  <2>3. RunInv(r, job[r], mails, events', clock) BY <2>1, <2>2 DEF RunInv
  <2> QED BY <1>1, <2>3
<1>6. AlertTypes' BY <1>1 DEF AlertInv, AlertTypes
<1>7. Alert!DigestsAreDue' BY <1>1 DEF AlertInv, Alert!DigestsAreDue
<1> QED BY <1>1, <1>3, <1>5, <1>6, <1>7 DEF AlertInv

LEMMA RunStartStep ==
    ASSUME AlertInv, NEW r \in Runs, Alert!Start(r) PROVE AlertInv'
<1> DEFINE fresh == [phase |-> "count", at |-> clock, accounts |-> {}, alone |-> Alert!Active = {}]
<1>1. /\ job[r].phase = "idle"
      /\ job' = [q \in Runs |-> IF q = r THEN fresh ELSE [job[q] EXCEPT !.alone = FALSE]]
      /\ UNCHANGED <<clock, receipts, events, checkpoint, mails>>
  BY DEF Alert!Start
<1>2. clock \in Nat \ {0} BY DEF AlertInv, AlertTypes
<1>3. /\ fresh \in JobRuns /\ fresh.phase = "count" /\ fresh.at = clock
      /\ fresh.alone <=> Alert!Active = {}
  BY <1>2 DEF JobRuns
<1>4. job'[r] = fresh BY <1>1
<1>5. ASSUME NEW q \in Runs \ {r}
      PROVE  /\ job'[q] \in JobRuns /\ ~job'[q].alone
             /\ job'[q].phase = job[q].phase /\ job'[q].at = job[q].at
             /\ job'[q].accounts = job[q].accounts
  <2>1. job[q] \in JobRuns BY AlertTyped
  <2>2. job'[q] = [job[q] EXCEPT !.alone = FALSE] BY <1>1
  <2> QED BY <2>1, <2>2 DEF JobRuns
<1> HIDE DEF fresh
<1>6. job' \in [Runs -> JobRuns]
  <2>1. \A q \in Runs : job'[q] \in JobRuns BY <1>3, <1>4, <1>5
  <2>2. job' = [q \in Runs |-> job'[q]] BY <1>1
  <2> QED BY <2>1, <2>2
<1>7. AlertTypes' BY <1>1, <1>6 DEF AlertInv, AlertTypes
<1>8. ASSUME NEW q \in Runs PROVE RunInv(q, job'[q], mails', events', clock')
  <2>1. CASE q = r BY <1>1, <1>2, <1>3, <1>4, <2>1 DEF RunInv
  <2>2. CASE q # r
    <3>1. RunInv(q, job[q], mails, events, clock) BY AlertTyped
    <3>2. RunInv(q, job'[q], mails, events, clock) BY <1>5, <2>2, <3>1 DEF RunInv
    <3> QED BY <1>1, <3>2
  <2> QED BY <2>1, <2>2
<1>9. \A p, q \in Runs : job'[p].phase # "idle" /\ job'[p].alone /\ job'[q].phase # "idle" => p = q
  <2> SUFFICES ASSUME NEW p \in Runs, NEW q \in Runs,
                      job'[p].phase # "idle", job'[p].alone, job'[q].phase # "idle", p # q
               PROVE  FALSE
    OBVIOUS
  <2>1. p = r BY <1>5
  <2>2. Alert!Active = {} BY <1>3, <1>4, <2>1
  <2>3. q # r /\ job[q].phase # "idle" BY <1>5, <2>1
  <2> QED BY <2>2, <2>3 DEF Alert!Active
<1>10. ASSUME NEW i \in DOMAIN mails, mails[i].recorded
       PROVE  RecordedInv(mails[i], checkpoint, job')
  <2>1. RecordedInv(mails[i], checkpoint, job) /\ mails[i].at <= clock /\ mails[i].at \in Nat
    BY <1>10, MailTyped
  <2>2. job'[r].at >= mails[i].at /\ job'[r].phase = "count" BY <1>2, <1>3, <1>4, <2>1
  <2>3. ASSUME NEW q \in Runs
        PROVE  job'[q].phase # "idle" =>
                  /\ job'[q].at >= mails[i].at
                  /\ job'[q].phase \in {"send", "record"} /\ mails[i].to \in job'[q].accounts =>
                        job'[q].at >= mails[i].at + Day
    <3>1. CASE q = r BY <2>2, <3>1
    <3>2. CASE q # r BY <1>5, <2>1, <3>2 DEF RecordedInv
    <3> QED BY <3>1, <3>2
  <2> QED BY <2>1, <2>3 DEF RecordedInv
<1>11. Alert!DigestsAreDue' BY <1>1 DEF AlertInv, Alert!DigestsAreDue
<1> QED BY <1>1, <1>7, <1>8, <1>9, <1>10, <1>11 DEF AlertInv

\* A run goes on with its accounts, or ends.
LEMMA RunFrame ==
    ASSUME AlertInv, NEW r \in Runs, NEW row \in JobRuns, job' = [job EXCEPT ![r] = row],
           UNCHANGED <<clock, receipts, events, checkpoint, mails>>,
           RunInv(r, row, mails, events, clock),
           row.phase # "idle" =>
              job[r].phase # "idle" /\ row.at = job[r].at /\ row.alone = job[r].alone,
           row.phase \in {"send", "record"} =>
              \A i \in DOMAIN mails : mails[i].recorded /\ mails[i].to \in row.accounts =>
                 row.at >= mails[i].at + Day
    PROVE  AlertInv'
<1>1. job \in [Runs -> JobRuns] BY DEF AlertInv, AlertTypes
<1>2. job' \in [Runs -> JobRuns] /\ job'[r] = row /\ \A q \in Runs \ {r} : job'[q] = job[q]
  BY <1>1
<1>3. AlertTypes' BY <1>2 DEF AlertInv, AlertTypes
<1>4. \A q \in Runs : RunInv(q, job'[q], mails', events', clock')
  BY <1>2, AlertTyped
<1>5. \A p, q \in Runs : job'[p].phase # "idle" /\ job'[p].alone /\ job'[q].phase # "idle" => p = q
  BY <1>2 DEF AlertInv
<1>6. ASSUME NEW i \in DOMAIN mails, mails[i].recorded
      PROVE  RecordedInv(mails[i], checkpoint, job')
  <2>1. RecordedInv(mails[i], checkpoint, job) BY <1>6 DEF AlertInv
  <2>2. ASSUME NEW q \in Runs
        PROVE  job'[q].phase # "idle" =>
                  /\ job'[q].at >= mails[i].at
                  /\ job'[q].phase \in {"send", "record"} /\ mails[i].to \in job'[q].accounts =>
                        job'[q].at >= mails[i].at + Day
    <3>1. CASE q = r BY <1>2, <1>6, <2>1, <3>1 DEF RecordedInv
    <3>2. CASE q # r BY <1>2, <2>1, <3>2 DEF RecordedInv
    <3> QED BY <3>1, <3>2
  <2> QED BY <2>1, <2>2 DEF RecordedInv
<1>7. Alert!DigestsAreDue' BY DEF AlertInv, Alert!DigestsAreDue
<1>8. UNCHANGED <<clock, receipts, events, checkpoint, mails>> OBVIOUS
<1> QED BY <1>3, <1>4, <1>5, <1>6, <1>7, <1>8 DEF AlertInv

LEMMA IdleRun == Alert!NoRun \in JobRuns /\ Alert!NoRun.phase = "idle"
BY DEF Alert!NoRun, JobRuns

\* A run that goes on has accounts left.
LEMMA ProceedStep ==
    ASSUME AlertInv, NEW r \in Runs, job[r].phase # "idle",
           NEW phase \in {"choose", "send"}, NEW left \in SUBSET Accounts,
           Alert!Proceed(r, phase, left), UNCHANGED <<clock, receipts, events, checkpoint, mails>>,
           \A a \in left : Worth(events, a, job[r].at),
           phase = "send" =>
              \A i \in DOMAIN mails : mails[i].recorded /\ mails[i].to \in left =>
                 job[r].at >= mails[i].at + Day
    PROVE  AlertInv'
<1>1. job[r] \in JobRuns /\ RunInv(r, job[r], mails, events, clock) BY AlertTyped
<1>2. CASE left = {}
  <2>1. job' = [job EXCEPT ![r] = Alert!NoRun] BY <1>2 DEF Alert!Proceed
  <2>2. RunInv(r, Alert!NoRun, mails, events, clock) BY IdleRun DEF RunInv
  <2> QED BY <2>1, <2>2, IdleRun, RunFrame
<1>3. CASE left # {}
  <2> DEFINE row == [job[r] EXCEPT !.phase = phase, !.accounts = left]
  <2>1. job' = [job EXCEPT ![r] = row] BY <1>3 DEF Alert!Proceed
  <2>2. /\ row \in JobRuns /\ row.phase = phase /\ row.accounts = left
        /\ row.at = job[r].at /\ row.alone = job[r].alone
    BY <1>1 DEF JobRuns
  <2> HIDE DEF row
  <2>3. RunInv(r, row, mails, events, clock) BY <1>1, <2>2 DEF RunInv
  <2> QED BY <2>1, <2>2, <2>3, RunFrame
<1> QED BY <1>2, <1>3

LEMMA CountStep ==
    ASSUME AlertInv, NEW r \in Runs, Alert!CountBlocked(r) PROVE AlertInv'
<1> DEFINE left == {a \in Accounts : Alert!Cardinality(Alert!Blocked(a, job[r].at)) >= Threshold}
<1>1. /\ job[r].phase = "count" /\ Alert!Proceed(r, "choose", left)
      /\ UNCHANGED <<clock, receipts, events, checkpoint, mails>>
  BY DEF Alert!CountBlocked
<1>2. ASSUME NEW a \in left PROVE Worth(events, a, job[r].at)
  <2>1. Cardinality(Alert!Blocked(a, job[r].at)) >= Threshold BY SameCardinality
  <2>2. Alert!Blocked(a, job[r].at) = BlockedIn(events, a, job[r].at)
    BY DEF Alert!Blocked, BlockedIn
  <2>3. Cardinality(DecisionsIn(events, a, job[r].at)) = Cardinality(BlockedIn(events, a, job[r].at))
    BY EachDecisionOnce DEF AlertInv
  <2> QED BY <2>1, <2>2, <2>3 DEF Worth
<1>3. left \in SUBSET Accounts OBVIOUS
<1> HIDE DEF left
<1> QED BY <1>1, <1>2, <1>3, ProceedStep

LEMMA ChooseStep ==
    ASSUME AlertInv, NEW r \in Runs, Alert!ReadCheckpoints(r) PROVE AlertInv'
<1> DEFINE left == {a \in job[r].accounts : Alert!Due(a, job[r].at)}
<1>1. /\ job[r].phase = "choose" /\ Alert!Proceed(r, "send", left)
      /\ UNCHANGED <<clock, receipts, events, checkpoint, mails>>
  BY DEF Alert!ReadCheckpoints
<1>2. left \in SUBSET Accounts /\ \A a \in left : Worth(events, a, job[r].at)
  BY <1>1, AlertTyped DEF RunInv
<1>3. ASSUME NEW i \in DOMAIN mails, mails[i].recorded, mails[i].to \in left
      PROVE  job[r].at >= mails[i].at + Day
  <2>1. /\ mails[i].at \in Nat /\ mails[i].at >= 1 /\ checkpoint[mails[i].to] >= mails[i].at
        /\ mails[i].to \in Accounts
    BY <1>3, MailTyped DEF RecordedInv
  <2>2. checkpoint[mails[i].to] \in Nat /\ job[r].at \in Nat
    BY <2>1, AlertTyped DEF AlertInv, AlertTypes, JobRuns
  <2>3. job[r].at >= checkpoint[mails[i].to] + Day BY <1>3, <2>1, <2>2 DEF Alert!Due
  <2> QED BY <2>1, <2>2, <2>3, AlertBounds
<1> HIDE DEF left
<1> QED BY <1>1, <1>2, <1>3, ProceedStep

LEMMA FailsStep ==
    ASSUME AlertInv, NEW r \in Runs, Alert!Fail(r) PROVE AlertInv'
<1>1. /\ job' = [job EXCEPT ![r] = Alert!NoRun]
      /\ UNCHANGED <<clock, receipts, events, checkpoint, mails>>
  BY DEF Alert!Fail
<1>2. RunInv(r, Alert!NoRun, mails, events, clock) BY IdleRun DEF RunInv
<1> QED BY <1>1, <1>2, IdleRun, RunFrame

LEMMA SendStep ==
    ASSUME AlertInv, NEW r \in Runs, Alert!SendDigest(r) PROVE AlertInv'
<1>1. PICK a \in job[r].accounts :
         mails' = Append(mails,
             [to |-> a, at |-> job[r].at, run |-> r, recorded |-> FALSE,
              about |-> Alert!Cardinality({e.decision : e \in Alert!Blocked(a, job[r].at)})])
  BY DEF Alert!SendDigest
<1>2. /\ job[r].phase = "send" /\ job' = [job EXCEPT ![r].phase = "record"]
      /\ UNCHANGED <<clock, receipts, events, checkpoint>>
  BY DEF Alert!SendDigest
<1>3. /\ job[r] \in JobRuns /\ RunInv(r, job[r], mails, events, clock) /\ a \in Accounts
      /\ job[r].at \in Nat
  BY AlertTyped DEF JobRuns
<1>4. job \in [Runs -> JobRuns] /\ mails \in Seq(DigestRows) /\ clock \in Nat
  BY DEF AlertInv, AlertTypes
<1> DEFINE about == Cardinality(DecisionsIn(events, a, job[r].at))
           digest == [to |-> a, at |-> job[r].at, run |-> r, recorded |-> FALSE, about |-> about]
           row == [job[r] EXCEPT !.phase = "record"]
           n == Len(mails) + 1
<1>5. about \in Nat /\ about >= Threshold
  <2>1. about \in Nat BY EachDecisionOnce DEF AlertInv
  <2> QED BY <1>2, <1>3, <2>1 DEF RunInv, Worth
<1>6. mails' = Append(mails, digest)
  <2>1. {e.decision : e \in Alert!Blocked(a, job[r].at)} = DecisionsIn(events, a, job[r].at)
    BY DEF DecisionsIn, BlockedIn, Alert!Blocked
  <2>2. Alert!Cardinality(DecisionsIn(events, a, job[r].at)) = about BY SameCardinality
  <2> QED BY <1>1, <2>1, <2>2
<1> HIDE DEF about
<1>7. /\ digest \in DigestRows /\ digest.to = a /\ digest.at = job[r].at /\ digest.run = r
      /\ ~digest.recorded /\ digest.about = about
  BY <1>3, <1>5 DEF DigestRows
<1>8. /\ row \in JobRuns /\ row.phase = "record" /\ row.accounts = job[r].accounts
      /\ row.at = job[r].at /\ row.alone = job[r].alone
  BY <1>3 DEF JobRuns
<1>9. /\ job' = [job EXCEPT ![r] = row] /\ job' \in [Runs -> JobRuns] /\ job'[r] = row
      /\ \A q \in Runs \ {r} : job'[q] = job[q]
  BY <1>2, <1>4, <1>8
<1> HIDE DEF digest, row
<1>10. /\ mails' \in Seq(DigestRows) /\ n \in Nat /\ n \notin DOMAIN mails
       /\ DOMAIN mails' = DOMAIN mails \cup {n} /\ mails'[n] = digest /\ Len(mails') = n
       /\ \A i \in DOMAIN mails : i \in Nat /\ i < n /\ mails'[i] = mails[i]
  BY <1>4, <1>6, <1>7
<1> HIDE DEF n
<1>11. AlertTypes' BY <1>2, <1>9, <1>10 DEF AlertInv, AlertTypes
<1>12. ASSUME NEW q \in Runs PROVE RunInv(q, job'[q], mails', events', clock')
  <2>1. CASE q = r
    <3>1. LastIs(mails', r, n) BY <1>7, <1>10 DEF LastIs
    <3>2. /\ row.at \in 1 .. clock /\ \A b \in row.accounts : Worth(events, b, row.at)
      BY <1>2, <1>3, <1>8 DEF RunInv
    <3>3. RunInv(r, row, mails', events, clock)
      BY <1>7, <1>8, <1>10, <3>1, <3>2 DEF RunInv
    <3> QED BY <1>2, <1>9, <2>1, <3>3
  <2>2. CASE q # r
    <3>1. RunInv(q, job[q], mails, events, clock) BY AlertTyped
    <3>2. ~(job[q].phase # "idle" /\ job[q].alone) BY <1>2, <2>2 DEF AlertInv
    <3>3. ASSUME NEW m, LastIs(mails, q, m) PROVE LastIs(mails', q, m) /\ mails'[m] = mails[m]
      BY <1>7, <1>10, <2>2, <3>3 DEF LastIs
    <3>4. job[q].phase = "record" =>
             \E m \in DOMAIN mails' :
                /\ LastIs(mails', q, m) /\ mails'[m].at = job[q].at
                /\ mails'[m].to \in job[q].accounts
                /\ job[q].alone => m = Len(mails')
      BY <1>10, <3>1, <3>2, <3>3 DEF RunInv
    <3>5. RunInv(q, job[q], mails', events, clock) BY <3>1, <3>4 DEF RunInv
    <3> QED BY <1>2, <1>9, <2>2, <3>5
  <2> QED BY <2>1, <2>2
<1>13. \A p, q \in Runs : job'[p].phase # "idle" /\ job'[p].alone /\ job'[q].phase # "idle" => p = q
  BY <1>2, <1>8, <1>9 DEF AlertInv
<1>14. \A i \in DOMAIN mails' : mails'[i].about >= Threshold /\ mails'[i].at <= clock'
  <2>1. digest.about >= Threshold /\ digest.at <= clock
    BY <1>2, <1>3, <1>4, <1>5, <1>7 DEF RunInv
  <2> QED BY <1>2, <1>10, <2>1, MailTyped
<1>15. ASSUME NEW i \in DOMAIN mails, mails[i].recorded
       PROVE  RecordedInv(mails[i], checkpoint, job')
  <2>1. RecordedInv(mails[i], checkpoint, job) BY <1>15, MailTyped
  <2> QED BY <1>2, <1>8, <1>9, <2>1 DEF RecordedInv
<1>16. \A i \in DOMAIN mails' : mails'[i].recorded => RecordedInv(mails'[i], checkpoint', job')
  BY <1>2, <1>7, <1>10, <1>15
<1>17. ASSUME NEW i \in DOMAIN mails, mails[i].recorded, mails[i].to = a
       PROVE  job[r].at >= mails[i].at + Day
  BY <1>2, <1>17, MailTyped DEF RecordedInv
<1>18. Alert!DigestsAreDue'
  <2>1. Alert!DigestsAreDue BY DEF AlertInv
  <2>2. ASSUME NEW i \in DOMAIN mails', NEW j \in DOMAIN mails', i < j,
               mails'[i].to = mails'[j].to, mails'[i].recorded
        PROVE  mails'[j].at >= mails'[i].at + Day
    <3>1. i \in DOMAIN mails BY <1>7, <1>10, <2>2
    <3>2. CASE j = n BY <1>7, <1>10, <1>17, <2>2, <3>1, <3>2
    <3>3. CASE j # n BY <1>10, <2>1, <2>2, <3>1, <3>3 DEF Alert!DigestsAreDue
    <3> QED BY <3>2, <3>3
  <2> QED BY <1>14, <2>2 DEF Alert!DigestsAreDue
<1> QED BY <1>2, <1>11, <1>12, <1>13, <1>14, <1>16, <1>18 DEF AlertInv

LEMMA LastFound ==
    ASSUME AlertInv, NEW r \in Runs, NEW m, LastIs(mails, r, m) PROVE Alert!LastOf(r) = m
<1> DEFINE S == {i \in DOMAIN mails : mails[i].run = r}
<1>1. DOMAIN mails \subseteq Nat BY DEF AlertInv, AlertTypes
<1>2. m \in S /\ \A i \in S : m >= i BY <1>1 DEF LastIs
<1>3. \A k \in S : (\A i \in S : k >= i) => k = m BY <1>1, <1>2
<1>4. Alert!LastOf(r) = CHOOSE k \in S : \A i \in S : k >= i BY DEF Alert!LastOf, Alert!Max
<1> QED BY <1>2, <1>3, <1>4

LEMMA RecordStep ==
    ASSUME AlertInv, NEW r \in Runs, Alert!RecordDigest(r) PROVE AlertInv'
<1>1. /\ job[r] \in JobRuns /\ RunInv(r, job[r], mails, events, clock)
      /\ job[r].phase = "record" /\ job[r].accounts \subseteq Accounts /\ job[r].at \in Nat
      /\ job[r].alone \in BOOLEAN
  BY AlertTyped DEF Alert!RecordDigest, JobRuns
<1>2. PICK m \in DOMAIN mails :
         /\ LastIs(mails, r, m) /\ mails[m].at = job[r].at
         /\ mails[m].to \in job[r].accounts
         /\ job[r].alone => m = Len(mails)
  BY <1>1 DEF RunInv
<1>3. PICK a \in Accounts : a = mails[m].to BY <1>1, <1>2
<1> DEFINE left == job[r].accounts \ {a}
<1>4. /\ checkpoint' = [checkpoint EXCEPT ![a] = job[r].at]
      /\ mails' = [mails EXCEPT ![m].recorded = job[r].alone]
      /\ Alert!Proceed(r, "send", left) /\ UNCHANGED <<clock, receipts, events>>
  <2>1. Alert!LastOf(r) = m BY <1>2, LastFound
  <2> QED BY <1>3, <2>1 DEF Alert!RecordDigest, Alert!Checkpointed
<1>5. /\ job \in [Runs -> JobRuns] /\ mails \in Seq(DigestRows) /\ clock \in Nat
      /\ checkpoint \in [Accounts -> Nat]
  BY DEF AlertInv, AlertTypes
<1>6. PICK row \in JobRuns :
         /\ job' = [job EXCEPT ![r] = row]
         /\ row.phase # "idle" => /\ row.phase = "send" /\ row.accounts = left
                                  /\ row.at = job[r].at /\ row.alone = job[r].alone
  <2>1. CASE left = {} BY <1>4, <2>1, IdleRun DEF Alert!Proceed
  <2>2. CASE left # {}
    <3> DEFINE row == [job[r] EXCEPT !.phase = "send", !.accounts = left]
    <3>1. job' = [job EXCEPT ![r] = row] BY <1>4, <2>2 DEF Alert!Proceed
    <3>2. /\ row \in JobRuns /\ row.accounts = left /\ row.phase = "send"
          /\ row.at = job[r].at /\ row.alone = job[r].alone
      BY <1>1 DEF JobRuns
    <3> HIDE DEF row
    <3> QED BY <3>1, <3>2
  <2> QED BY <2>1, <2>2
<1>7. /\ job' \in [Runs -> JobRuns] /\ job'[r] = row
      /\ \A q \in Runs \ {r} : job'[q] = job[q]
  BY <1>5, <1>6
<1>8. /\ mails' \in Seq(DigestRows) /\ DOMAIN mails' = DOMAIN mails /\ Len(mails') = Len(mails)
      /\ mails'[m].recorded = job[r].alone
      /\ \A i \in DOMAIN mails :
            /\ mails'[i].to = mails[i].to /\ mails'[i].at = mails[i].at
            /\ mails'[i].run = mails[i].run /\ mails'[i].about = mails[i].about
            /\ i # m => mails'[i] = mails[i]
  <2> DEFINE digest == [mails[m] EXCEPT !.recorded = job[r].alone]
  <2>1. mails[m] \in DigestRows BY MailTyped
  <2>2. /\ digest \in DigestRows /\ digest.to = mails[m].to /\ digest.at = mails[m].at
        /\ digest.run = mails[m].run /\ digest.about = mails[m].about
        /\ digest.recorded = job[r].alone
    BY <1>1, <2>1 DEF DigestRows
  <2>3. mails' = [mails EXCEPT ![m] = digest] BY <1>4
  <2> HIDE DEF digest
  <2> QED BY <1>5, <2>2, <2>3
<1>9. AlertTypes' BY <1>1, <1>4, <1>5, <1>7, <1>8 DEF AlertInv, AlertTypes
<1>10. checkpoint'[a] = job[r].at /\ \A b \in Accounts \ {a} : checkpoint'[b] = checkpoint[b]
  BY <1>4, <1>5
<1> HIDE DEF left
<1>11. ASSUME NEW q \in Runs PROVE RunInv(q, job'[q], mails', events', clock')
  <2>1. CASE q = r
    <3>1. row.phase # "idle" => \A b \in row.accounts : Worth(events, b, row.at)
      BY <1>1, <1>6 DEF RunInv, left
    <3>2. RunInv(r, row, mails', events, clock) BY <1>1, <1>6, <3>1 DEF RunInv
    <3> QED BY <1>4, <1>7, <2>1, <3>2
  <2>2. CASE q # r
    <3>1. RunInv(q, job[q], mails, events, clock) BY AlertTyped
    <3>2. ASSUME NEW k, LastIs(mails, q, k) PROVE LastIs(mails', q, k)
      BY <1>8, <3>2 DEF LastIs
    <3>3. job[q].phase = "record" =>
             \E k \in DOMAIN mails' :
                /\ LastIs(mails', q, k) /\ mails'[k].at = job[q].at
                /\ mails'[k].to \in job[q].accounts
                /\ job[q].alone => k = Len(mails')
      BY <1>8, <3>1, <3>2 DEF RunInv
    <3>4. RunInv(q, job[q], mails', events, clock) BY <3>1, <3>3 DEF RunInv
    <3> QED BY <1>4, <1>7, <2>2, <3>4
  <2> QED BY <2>1, <2>2
<1>12. \A p, q \in Runs : job'[p].phase # "idle" /\ job'[p].alone /\ job'[q].phase # "idle" => p = q
  BY <1>1, <1>6, <1>7 DEF AlertInv
<1>13. \A i \in DOMAIN mails' : mails'[i].about >= Threshold /\ mails'[i].at <= clock'
  BY <1>4, <1>8, MailTyped
<1>14. ASSUME NEW i \in DOMAIN mails, mails'[i].recorded
       PROVE  RecordedInv(mails'[i], checkpoint', job')
  <2>1. CASE i = m
    <3>1. \A q \in Runs \ {r} : job'[q].phase = "idle"
      BY <1>1, <1>7, <1>8, <1>14, <2>1 DEF AlertInv
    <3>2. mails'[m].to = a /\ mails'[m].at = job[r].at /\ job[r].at >= 1
      BY <1>1, <1>2, <1>3, <1>5, <1>8 DEF RunInv
    <3>3. row.phase # "idle" => row.at = job[r].at /\ a \notin row.accounts BY <1>6 DEF left
    <3> QED BY <1>1, <1>7, <1>10, <2>1, <3>1, <3>2, <3>3 DEF RecordedInv
  <2>2. CASE i # m
    <3>1. mails'[i] = mails[i] /\ mails[i].recorded BY <1>8, <1>14, <2>2
    <3>2. RecordedInv(mails[i], checkpoint, job) /\ mails[i].to \in Accounts BY <3>1, MailTyped
    <3>3. job[r].at >= mails[i].at BY <1>1, <3>2 DEF RecordedInv
    <3>4. checkpoint'[mails[i].to] >= mails[i].at BY <1>10, <3>2, <3>3 DEF RecordedInv
    <3>5. row.phase # "idle" =>
             /\ row.at >= mails[i].at
             /\ mails[i].to \in row.accounts => row.at >= mails[i].at + Day
      BY <1>1, <1>6, <3>2 DEF RecordedInv, left
    <3>6. ASSUME NEW q \in Runs \ {r}
          PROVE  job'[q].phase # "idle" =>
                    /\ job'[q].at >= mails[i].at
                    /\ job'[q].phase \in {"send", "record"} /\ mails[i].to \in job'[q].accounts =>
                          job'[q].at >= mails[i].at + Day
      BY <1>7, <3>2 DEF RecordedInv
    <3>7. RecordedInv(mails[i], checkpoint', job')
      BY <1>7, <3>2, <3>4, <3>5, <3>6 DEF RecordedInv
    <3> QED BY <3>1, <3>7
  <2> QED BY <2>1, <2>2
<1>15. Alert!DigestsAreDue'
  <2>1. Alert!DigestsAreDue BY DEF AlertInv
  <2>2. ASSUME NEW i \in DOMAIN mails', NEW j \in DOMAIN mails', i < j,
               mails'[i].to = mails'[j].to, mails'[i].recorded
        PROVE  mails'[j].at >= mails'[i].at + Day
    <3>1. i # m
      <4>1. j \in 1 .. Len(mails) BY <1>5, <1>8
      <4> QED BY <1>2, <1>5, <1>8, <2>2, <4>1
    <3> QED BY <1>8, <2>1, <2>2, <3>1 DEF Alert!DigestsAreDue
  <2> QED BY <1>13, <2>2 DEF Alert!DigestsAreDue
<1> QED BY <1>4, <1>8, <1>9, <1>11, <1>12, <1>13, <1>14, <1>15 DEF AlertInv

LEMMA AlertStep == AlertInv /\ [Alert!Next]_(Alert!vars) => AlertInv'
<1> SUFFICES ASSUME AlertInv, [Alert!Next]_(Alert!vars) PROVE AlertInv' OBVIOUS
<1>1. CASE UNCHANGED Alert!vars
  BY <1>1 DEF Alert!vars, AlertInv, AlertTypes, Alert!DigestsAreDue
<1>2. ASSUME NEW r \in Runs, Alert!RunStep(r) PROVE AlertInv'
  BY <1>2, CountStep, ChooseStep, SendStep, RecordStep, FailsStep DEF Alert!RunStep
<1> QED BY <1>1, <1>2, TickStep, IngestStep, RunStartStep DEF Alert!Next

\* For any accounts, runs of the job, decisions, threshold and day: a digest that a run
\* recorded while nothing overlapped it suppresses the next for a day, whatever overlaps
\* or fails later, and every digest speaks of enough decisions that differ
\* (runTrustAlertsCron, the ingest route).
THEOREM DigestsSafe == Alert!Spec => []DigestsAreDue
<1>1. AlertInv => DigestsAreDue BY DEF AlertInv, DigestsAreDue
<1> QED BY AlertInit, AlertStep, <1>1, PTL DEF Alert!Spec
-----------------------------------------------------------------------------
(* Sums over finite sets: the folds of the community modules take the elements in an *)
(* order of their own, and what follows holds for any.                               *)

\* A set of naturals has a least one.
LEMMA LeastNumber ==
    ASSUME NEW T \in SUBSET Nat, T # {} PROVE \E n \in T : \A k \in T : ~(k < n)
<1>1. PICK Less : Less = OpToRel(<, Nat) OBVIOUS
<1>2. IsWellFoundedOn(Less, Nat) BY <1>1, NatLessThanWellFounded
<1>3. \A k, n \in Nat : k < n => <<k, n>> \in Less BY <1>1 DEF OpToRel
<1>4. \E n \in T : \A k \in T : <<k, n>> \notin Less
  <2> HIDE <1>1
  <2> QED BY <1>2, WFMin
<1> QED BY <1>3, <1>4

\* The element of a set that a fold takes first.
First(s) == CHOOSE x \in s : TRUE

\* Of the subsets of a finite set for which something fails there is a smallest.
LEMMA SmallestSubset ==
    ASSUME NEW S, IsFiniteSet(S), NEW F \in SUBSET SUBSET S, F # {}
    PROVE  \E s \in F : \A t \in F : ~(Cardinality(t) < Cardinality(s))
<1> DEFINE T == {Cardinality(s) : s \in F}
<1>1. T \in SUBSET Nat /\ T # {}
  <2>1. ASSUME NEW s \in F PROVE Cardinality(s) \in Nat BY FS_Subset, FS_CardinalityType
  <2> QED BY <2>1
<1>2. PICK n \in T : \A k \in T : ~(k < n)
  <2> HIDE DEF T
  <2> QED BY <1>1, LeastNumber
<1>3. PICK s \in F : n = Cardinality(s) OBVIOUS
<1> QED BY <1>2, <1>3

LEMMA Smaller ==
    ASSUME NEW s, IsFiniteSet(s), NEW x \in s
    PROVE  IsFiniteSet(s \ {x}) /\ Cardinality(s \ {x}) < Cardinality(s)
<1>1. IsFiniteSet(s \ {x}) /\ Cardinality(s \ {x}) = Cardinality(s) - 1 BY FS_RemoveElement
<1>2. Cardinality(s) \in Nat BY FS_CardinalityType
<1> QED BY <1>1, <1>2

LEMMA FirstIn == ASSUME NEW s, s # {} PROVE First(s) \in s BY DEF First

\* What the sum of f over s is, if g holds the sums over its smaller subsets.
Step(f, g, s) == IF s = {} THEN 0 ELSE f[First(s)] + g[s \ {First(s)}]

\* g holds the sums of f over the subsets of S.
Sums(f, S, g) == g = [s \in SUBSET S |-> Step(f, g, s)]

LEMMA StepAgrees ==
    ASSUME NEW f, NEW g, NEW h, NEW s, s # {} => g[s \ {First(s)}] = h[s \ {First(s)}]
    PROVE  Step(f, g, s) = Step(f, h, s)
BY DEF Step

LEMMA SumsExist ==
    ASSUME NEW f, NEW S, IsFiniteSet(S) PROVE \E g : Sums(f, S, g)
<1> DEFINE UpTo(g, n) == \A s \in SUBSET S : ~(n < Cardinality(s)) => g[s] = Step(f, g, s)
           T == {n \in Nat : ~\E g : UpTo(g, n)}
<1>1. ASSUME NEW s \in SUBSET S PROVE IsFiniteSet(s) /\ Cardinality(s) \in Nat
  BY FS_Subset, FS_CardinalityType
<1>2. T = {}
  <2> SUFFICES ASSUME T # {} PROVE FALSE OBVIOUS
  <2>1. PICK n \in T : \A k \in T : ~(k < n)
    <3>1. T \in SUBSET Nat OBVIOUS
    <3> HIDE DEF T
    <3> QED BY <3>1, LeastNumber
  <2>2. n \in Nat /\ ~\E g : UpTo(g, n) OBVIOUS
  <2>3. PICK g : \A s \in SUBSET S : Cardinality(s) < n => g[s] = Step(f, g, s)
    <3>1. CASE n = 0 BY <1>1, <3>1
    <3>2. CASE n # 0
      <4>1. n - 1 \in Nat /\ n - 1 < n BY <2>2, <3>2
      <4>2. n - 1 \notin T BY <2>1, <4>1
      <4>3. PICK g : UpTo(g, n - 1) BY <4>1, <4>2
      <4>4. \A s \in SUBSET S : Cardinality(s) < n => ~(n - 1 < Cardinality(s)) BY <1>1, <2>2
      <4> QED BY <4>3, <4>4
    <3> QED BY <3>1, <3>2
  <2> DEFINE h == [s \in SUBSET S |-> IF Cardinality(s) < n THEN g[s] ELSE Step(f, g, s)]
  <2>4. ASSUME NEW s \in SUBSET S, ~(n < Cardinality(s)) PROVE h[s] = Step(f, h, s)
    <3>1. h[s] = Step(f, g, s) BY <2>3
    <3>2. s # {} => h[s \ {First(s)}] = g[s \ {First(s)}]
      <4> SUFFICES ASSUME s # {} PROVE h[s \ {First(s)}] = g[s \ {First(s)}] OBVIOUS
      <4> PICK x \in s : x = First(s) BY FirstIn
      <4>1. IsFiniteSet(s) /\ Cardinality(s) \in Nat BY <1>1
      <4>2. s \ {x} \in SUBSET S /\ Cardinality(s \ {x}) < Cardinality(s) BY <4>1, Smaller
      <4>3. Cardinality(s \ {x}) \in Nat BY <1>1, <4>2
      <4>4. Cardinality(s \ {x}) < n BY <2>2, <2>4, <4>1, <4>2, <4>3
      <4> QED BY <4>2, <4>4
    <3> HIDE DEF h
    <3> QED BY <3>1, <3>2, StepAgrees
  <2>5. UpTo(h, n)
    <3> HIDE DEF h
    <3> QED BY <2>4
  <2> QED BY <2>2, <2>5
<1>3. Cardinality(S) \in Nat BY FS_CardinalityType
<1>4. PICK g : UpTo(g, Cardinality(S)) BY <1>2, <1>3
<1> DEFINE h == [s \in SUBSET S |-> g[s]]
<1>5. ASSUME NEW s \in SUBSET S PROVE h[s] = Step(f, h, s)
  <2>1. ~(Cardinality(S) < Cardinality(s)) BY <1>1, <1>3, FS_Subset
  <2>2. h[s] = Step(f, g, s) BY <1>4, <2>1
  <2>3. s # {} => h[s \ {First(s)}] = g[s \ {First(s)}] BY FirstIn
  <2> HIDE DEF h
  <2> QED BY <2>2, <2>3, StepAgrees
<1>6. h = [s \in SUBSET S |-> Step(f, h, s)] BY <1>5
<1> QED BY <1>6 DEF Sums

\* A sum does not depend on the set it is computed in.
LEMMA SumsAgree ==
    ASSUME NEW f, NEW S, IsFiniteSet(S), NEW g, Sums(f, S, g), NEW R, IsFiniteSet(R), NEW h,
           Sums(f, R, h), NEW s \in SUBSET (S \cap R)
    PROVE  g[s] = h[s]
<1> DEFINE F == {t \in SUBSET (S \cap R) : g[t] # h[t]}
<1>1. F = {}
  <2> SUFFICES ASSUME F # {} PROVE FALSE OBVIOUS
  <2>1. PICK t \in F : \A u \in F : ~(Cardinality(u) < Cardinality(t))
    <3>1. F \in SUBSET SUBSET S OBVIOUS
    <3> HIDE DEF F
    <3> QED BY <3>1, SmallestSubset
  <2>2. t \in SUBSET (S \cap R) /\ g[t] # h[t] /\ IsFiniteSet(t) BY FS_Subset
  <2>3. g[t] = Step(f, g, t) /\ h[t] = Step(f, h, t) BY <2>2 DEF Sums
  <2>4. t # {} => g[t \ {First(t)}] = h[t \ {First(t)}]
    <3> SUFFICES ASSUME t # {} PROVE g[t \ {First(t)}] = h[t \ {First(t)}] OBVIOUS
    <3> PICK x \in t : x = First(t) BY FirstIn
    <3>1. Cardinality(t \ {x}) < Cardinality(t) BY <2>2, Smaller
    <3>2. t \ {x} \notin F BY <2>1, <3>1
    <3> QED BY <2>2, <3>2
  <2> QED BY <2>2, <2>3, <2>4, StepAgrees
<1> QED BY <1>1

-----------------------------------------------------------------------------
Sum(f, S) == SumFunctionOnSet(f, S)

LEMMA SumIs ==
    ASSUME NEW f, NEW S, IsFiniteSet(S) PROVE \E g : Sums(f, S, g) /\ Sum(f, S) = g[S]
<1> DEFINE G == CHOOSE g : Sums(f, S, g)
<1>1. Sums(f, S, G) BY SumsExist
<1>2. Sum(f, S) = G[S]
  BY Zenon DEF Sum, SumFunctionOnSet, FoldFunctionOnSet, MapThenFoldSet, Sums, Step, First
<1> QED BY <1>1, <1>2

LEMMA SumEmpty == ASSUME NEW f PROVE Sum(f, {}) = 0
<1>1. IsFiniteSet({}) BY FS_EmptySet
<1>2. PICK g : Sums(f, {}, g) /\ Sum(f, {}) = g[{}] BY <1>1, SumIs
<1>3. g[{}] = Step(f, g, {}) BY <1>2 DEF Sums
<1> QED BY <1>2, <1>3 DEF Step

LEMMA SumFirst ==
    ASSUME NEW f, NEW S, IsFiniteSet(S), S # {}
    PROVE  Sum(f, S) = f[First(S)] + Sum(f, S \ {First(S)})
<1> PICK R : R = S \ {First(S)} OBVIOUS
<1>1. IsFiniteSet(R) /\ R \subseteq S BY FS_Subset
<1>2. PICK g : Sums(f, S, g) /\ Sum(f, S) = g[S] BY SumIs
<1>3. PICK h : Sums(f, R, h) /\ Sum(f, R) = h[R] BY <1>1, SumIs
<1>4. g[R] = h[R] BY <1>1, <1>2, <1>3, SumsAgree
<1>5. g[S] = Step(f, g, S) BY <1>2 DEF Sums
<1> QED BY <1>2, <1>3, <1>4, <1>5 DEF Step

LEMMA SumType ==
    ASSUME NEW f, NEW S, IsFiniteSet(S), \A x \in S : f[x] \in Nat PROVE Sum(f, S) \in Nat
<1> DEFINE F == {t \in SUBSET S : Sum(f, t) \notin Nat}
<1>1. F = {}
  <2> SUFFICES ASSUME F # {} PROVE FALSE OBVIOUS
  <2>1. PICK t \in F : \A u \in F : ~(Cardinality(u) < Cardinality(t))
    <3>1. F \in SUBSET SUBSET S OBVIOUS
    <3> HIDE DEF F
    <3> QED BY <3>1, SmallestSubset
  <2>2. t \in SUBSET S /\ Sum(f, t) \notin Nat /\ IsFiniteSet(t) BY FS_Subset
  <2>3. t # {} BY <2>2, SumEmpty
  <2> PICK x \in t : x = First(t) BY <2>3, FirstIn
  <2>4. Cardinality(t \ {x}) < Cardinality(t) BY <2>2, Smaller
  <2>5. t \ {x} \notin F BY <2>1, <2>4
  <2>6. Sum(f, t) = f[x] + Sum(f, t \ {x}) BY <2>2, <2>3, SumFirst
  <2>7. Sum(f, t \ {x}) \in Nat BY <2>2, <2>5
  <2>8. f[x] \in Nat BY <2>2
  <2> QED BY <2>2, <2>6, <2>7, <2>8
<1> QED BY <1>1

\* Any element may be taken first.
LEMMA SumTake ==
    ASSUME NEW f, NEW S, IsFiniteSet(S), \A x \in S : f[x] \in Nat, NEW a \in S
    PROVE  Sum(f, S) = f[a] + Sum(f, S \ {a})
<1> DEFINE F == {t \in SUBSET S : \E b \in t : Sum(f, t) # f[b] + Sum(f, t \ {b})}
<1>1. F = {}
  <2> SUFFICES ASSUME F # {} PROVE FALSE OBVIOUS
  <2>1. PICK t \in F : \A u \in F : ~(Cardinality(u) < Cardinality(t))
    <3>1. F \in SUBSET SUBSET S OBVIOUS
    <3> HIDE DEF F
    <3> QED BY <3>1, SmallestSubset
  <2>2. t \in SUBSET S /\ IsFiniteSet(t) BY FS_Subset
  <2>3. PICK b \in t : Sum(f, t) # f[b] + Sum(f, t \ {b}) OBVIOUS
  <2> PICK x \in t : x = First(t) BY FirstIn
  <2>4. Sum(f, t) = f[x] + Sum(f, t \ {x}) BY <2>2, SumFirst
  <2>5. x # b BY <2>3, <2>4
  <2>6. t \ {x} \notin F /\ t \ {b} \notin F
    <3>1. Cardinality(t \ {x}) < Cardinality(t) BY <2>2, Smaller
    <3>2. Cardinality(t \ {b}) < Cardinality(t) BY <2>2, Smaller
    <3> QED BY <2>1, <3>1, <3>2
  <2> PICK u : u = (t \ {x}) \ {b} OBVIOUS
  <2>7. Sum(f, t \ {x}) = f[b] + Sum(f, u) BY <2>2, <2>5, <2>6
  <2>8. Sum(f, t \ {b}) = f[x] + Sum(f, u)
    <3>1. u = (t \ {b}) \ {x} OBVIOUS
    <3> QED BY <2>2, <2>5, <2>6, <3>1
  <2>9. f[x] \in Nat /\ f[b] \in Nat BY <2>2
  <2>10. Sum(f, u) \in Nat
    <3>1. IsFiniteSet(u) /\ u \subseteq S BY <2>2, FS_Subset
    <3> QED BY <3>1, SumType
  <2> QED BY <2>3, <2>4, <2>7, <2>8, <2>9, <2>10
<1> QED BY <1>1

\* A sum is no more than another one whose every part is at least as much; what the
\* other leaves out is nothing.
LEMMA SumLess ==
    ASSUME NEW f, NEW A, IsFiniteSet(A), \A x \in A : f[x] \in Nat,
           NEW g, NEW B, IsFiniteSet(B), \A x \in B : g[x] \in Nat,
           \A x \in A : IF x \in B THEN f[x] <= g[x] ELSE f[x] = 0
    PROVE  Sum(f, A) <= Sum(g, B)
<1> DEFINE Beside(t) == (t \cap B) \cup (B \ A)
           F == {t \in SUBSET A : ~(Sum(f, t) <= Sum(g, Beside(t)))}
<1>1. F = {}
  <2> SUFFICES ASSUME F # {} PROVE FALSE OBVIOUS
  <2>1. PICK t \in F : \A u \in F : ~(Cardinality(u) < Cardinality(t))
    <3>1. F \in SUBSET SUBSET A OBVIOUS
    <3> HIDE DEF F
    <3> QED BY <3>1, SmallestSubset
  <2>2. t \in SUBSET A /\ IsFiniteSet(t) /\ ~(Sum(f, t) <= Sum(g, Beside(t))) BY FS_Subset
  <2> PICK v : v = Beside(t) OBVIOUS
  <2>3. IsFiniteSet(v) /\ Sum(g, v) \in Nat
    <3>1. v \subseteq B OBVIOUS
    <3>2. IsFiniteSet(v) BY <3>1, FS_Subset
    <3> QED BY <3>1, <3>2, SumType
  <2>4. t # {} BY <2>2, <2>3, SumEmpty
  <2> PICK x \in t : x = First(t) BY <2>4, FirstIn
  <2> PICK u : u = t \ {x} OBVIOUS
  <2>5. u \in SUBSET A /\ IsFiniteSet(u) /\ u \notin F
    <3>1. Cardinality(u) < Cardinality(t) /\ IsFiniteSet(u) BY <2>2, Smaller
    <3> QED BY <2>1, <2>2, <3>1
  <2> PICK w : w = Beside(u) OBVIOUS
  <2>6. Sum(f, u) <= Sum(g, w) BY <2>5
  <2>7. Sum(f, t) = f[x] + Sum(f, u) /\ f[x] \in Nat BY <2>2, <2>4, SumFirst
  <2>8. Sum(f, u) \in Nat /\ Sum(g, w) \in Nat
    <3>1. w \subseteq B OBVIOUS
    <3>2. IsFiniteSet(w) BY <3>1, FS_Subset
    <3>3. Sum(g, w) \in Nat BY <3>1, <3>2, SumType
    <3>4. Sum(f, u) \in Nat BY <2>5, SumType
    <3> QED BY <3>3, <3>4
  <2>9. CASE x \in B
    <3>1. v \ {x} = w /\ x \in v BY <2>2, <2>9
    <3>2. Sum(g, v) = g[x] + Sum(g, w) BY <2>3, <3>1, SumTake
    <3>3. f[x] <= g[x] /\ g[x] \in Nat BY <2>2, <2>9
    <3> HIDE DEF F, Beside
    <3> QED BY <2>2, <2>6, <2>7, <2>8, <3>2, <3>3
  <2>10. CASE x \notin B
    <3>1. v = w /\ f[x] = 0 BY <2>2, <2>10
    <3> HIDE DEF F, Beside
    <3> QED BY <2>2, <2>6, <2>7, <2>8, <3>1
  <2> QED BY <2>9, <2>10
<1>2. Beside(A) = B OBVIOUS
<1>3. A \notin F BY <1>1
<1> HIDE DEF Beside
<1> QED BY <1>2, <1>3
-----------------------------------------------------------------------------
(* OverageReport: what the quantity is made of. *)

ReportPlans == Report!Plans \cup {"none"}
Stages == {"idle", "keys", "counters", "retrieve", "set"}
Turns ==
    [at : Stages, month : Report!Months, plan : ReportPlans, keys : SUBSET ApiKeys, used : Nat,
     fetched : BOOLEAN, before : [ApiKeys -> Nat]]

ReportTypes ==
    /\ month \in Report!Months
    /\ held \in SUBSET ApiKeys /\ revoked \in SUBSET ApiKeys /\ held \cap revoked = {}
    /\ count \in [ApiKeys -> [Report!Months -> Nat]]
    /\ plan \in ReportPlans /\ item \in ReportPlans
    /\ turn \in Turns

\* What the keys were charged in a month, by the counters c.
Charged(c, keys, m) == Sum([k \in keys |-> c[k][m]], keys)

\* What the keys had been charged when the turn began.
Before(t, keys) == Sum([k \in keys |-> t.before[k]], keys)

\* A key that was never created has no counter; a turn knows of each key at most what
\* its counter says by now, and has read the keys that had any.
TurnInv ==
    /\ \A k \in ApiKeys \ (held \cup revoked), m \in Report!Months : count[k][m] = 0
    /\ turn.at # "idle" => turn.plan \in Report!Plans
    /\ turn.at # "idle" => \A k \in ApiKeys : turn.before[k] <= count[k][turn.month]
    /\ turn.at \notin {"idle", "keys"} => \A k \in held \ turn.keys : turn.before[k] = 0
    /\ turn.at \in {"retrieve", "set"} =>
          /\ Before(turn, turn.keys) <= turn.used
          /\ turn.used <= Charged(count, ApiKeys, turn.month)
    /\ turn.fetched => turn.at = "set" /\ item = turn.plan

ReportInv == ReportTypes /\ TurnInv

LEMMA UsedIs ==
    ASSUME NEW keys, NEW m PROVE Report!Used(keys, m) = Charged(count, keys, m)
<1> DEFINE f == [k \in keys |-> count[k][m]]
<1>1. Report!Used(keys, m) = Report!SumFunctionOnSet(f, DOMAIN f)
  BY DEF Report!Used, Report!SumFunction
<1>2. DOMAIN f = keys OBVIOUS
<1> HIDE DEF f
<1>3. Report!SumFunctionOnSet(f, keys) = Sum(f, keys)
  BY Zenon DEF Sum, SumFunctionOnSet, FoldFunctionOnSet, MapThenFoldSet,
               Report!SumFunctionOnSet, Report!FoldFunctionOnSet, Report!MapThenFoldSet
<1> QED BY <1>1, <1>2, <1>3 DEF Charged, f

LEMMA BeforeIs ==
    ASSUME NEW keys
    PROVE  Report!SumFunction([k \in keys |-> turn.before[k]]) = Before(turn, keys)
<1> DEFINE f == [k \in keys |-> turn.before[k]]
<1>1. Report!SumFunction(f) = Report!SumFunctionOnSet(f, DOMAIN f) BY DEF Report!SumFunction
<1>2. DOMAIN f = keys OBVIOUS
<1> HIDE DEF f
<1>3. Report!SumFunctionOnSet(f, keys) = Sum(f, keys)
  BY Zenon DEF Sum, SumFunctionOnSet, FoldFunctionOnSet, MapThenFoldSet,
               Report!SumFunctionOnSet, Report!FoldFunctionOnSet, Report!MapThenFoldSet
<1> QED BY <1>1, <1>2, <1>3 DEF Before, f

Counts == [ApiKeys -> [Report!Months -> Nat]]

LEMMA KeysFinite ==
    ASSUME NEW keys \in SUBSET ApiKeys PROVE IsFiniteSet(keys)
BY FlowsAssumption, FS_Subset DEF FlowsAssumption

\* More keys and later counters add up to no less.
LEMMA ChargedMore ==
    ASSUME NEW c \in Counts, NEW d \in Counts, NEW A \in SUBSET ApiKeys, NEW B \in SUBSET ApiKeys,
           A \subseteq B, NEW m \in Report!Months, \A k \in A : c[k][m] <= d[k][m]
    PROVE  Charged(c, A, m) <= Charged(d, B, m)
<1> DEFINE f == [k \in A |-> c[k][m]]
           g == [k \in B |-> d[k][m]]
<1>1. /\ \A k \in A : f[k] \in Nat
      /\ \A k \in B : g[k] \in Nat
      /\ \A k \in A : IF k \in B THEN f[k] <= g[k] ELSE f[k] = 0
  BY DEF Counts
<1>2. IsFiniteSet(A) /\ IsFiniteSet(B) BY KeysFinite
<1> HIDE DEF f, g
<1>3. Sum(f, A) <= Sum(g, B) BY <1>1, <1>2, SumLess
<1> QED BY <1>3 DEF Charged, f, g

LEMMA ChargedType ==
    ASSUME NEW c \in Counts, NEW A \in SUBSET ApiKeys, NEW m \in Report!Months
    PROVE  Charged(c, A, m) \in Nat
<1> DEFINE f == [k \in A |-> c[k][m]]
<1>1. \A k \in A : f[k] \in Nat BY DEF Counts
<1>2. IsFiniteSet(A) BY KeysFinite
<1> HIDE DEF f
<1>3. Sum(f, A) \in Nat BY <1>1, <1>2, SumType
<1> QED BY <1>3 DEF Charged, f

LEMMA BeforeLess ==
    ASSUME NEW t \in Turns, NEW c \in Counts, NEW A \in SUBSET ApiKeys, NEW m \in Report!Months,
           \A k \in A : t.before[k] <= c[k][m]
    PROVE  Before(t, A) <= Charged(c, A, m)
<1> DEFINE f == [k \in A |-> t.before[k]]
           g == [k \in A |-> c[k][m]]
<1>1. /\ \A k \in A : f[k] \in Nat /\ g[k] \in Nat
      /\ \A k \in A : IF k \in A THEN f[k] <= g[k] ELSE f[k] = 0
  BY DEF Counts, Turns
<1>2. IsFiniteSet(A) BY KeysFinite
<1> HIDE DEF f, g
<1>3. Sum(f, A) <= Sum(g, A) BY <1>1, <1>2, SumLess
<1> QED BY <1>3 DEF Charged, Before, f, g

LEMMA BeforeType ==
    ASSUME NEW t \in Turns, NEW A \in SUBSET ApiKeys PROVE Before(t, A) \in Nat
<1> DEFINE f == [k \in A |-> t.before[k]]
<1>1. \A k \in A : f[k] \in Nat BY DEF Turns
<1>2. IsFiniteSet(A) BY KeysFinite
<1> HIDE DEF f
<1>3. Sum(f, A) \in Nat BY <1>1, <1>2, SumType
<1> QED BY <1>3 DEF Before, f

\* Keys without a counter of before add nothing.
LEMMA BeforeOf ==
    ASSUME NEW t \in Turns, NEW A \in SUBSET ApiKeys, NEW B \in SUBSET ApiKeys,
           \A k \in A \ B : t.before[k] = 0
    PROVE  Before(t, A) <= Before(t, B)
<1> DEFINE f == [k \in A |-> t.before[k]]
           g == [k \in B |-> t.before[k]]
<1>1. /\ \A k \in A : f[k] \in Nat
      /\ \A k \in B : g[k] \in Nat
      /\ \A k \in A : IF k \in B THEN f[k] <= g[k] ELSE f[k] = 0
  BY DEF Turns
<1>2. IsFiniteSet(A) /\ IsFiniteSet(B) BY KeysFinite
<1> HIDE DEF f, g
<1>3. Sum(f, A) <= Sum(g, B) BY <1>1, <1>2, SumLess
<1> QED BY <1>3 DEF Before, f, g

-----------------------------------------------------------------------------
(* The turn of the job, and what goes on around it. *)

LEMMA ReportInit == Report!Init => ReportInv
<1> SUFFICES ASSUME Report!Init PROVE ReportInv OBVIOUS
<1>1. 1 \in Report!Months BY FlowsAssumption DEF FlowsAssumption, Report!Months
<1>2. /\ turn = [at |-> "idle", month |-> 1, plan |-> "none", keys |-> {}, used |-> 0,
                 fetched |-> FALSE, before |-> [k \in ApiKeys |-> 0]]
      /\ month = 1 /\ held = {} /\ revoked = {} /\ plan = "none" /\ item = "none"
      /\ count = [k \in ApiKeys |-> [m \in Report!Months |-> 0]]
  BY DEF Report!Init, Report!Idle
<1>3. turn \in Turns BY <1>1, <1>2 DEF Turns, Stages, ReportPlans
<1>4. ReportTypes BY <1>1, <1>2, <1>3 DEF ReportTypes, ReportPlans
<1>5. TurnInv BY <1>2 DEF TurnInv
<1> QED BY <1>4, <1>5 DEF ReportInv

\* Time, webhooks and the subscription leave the keys and the counters alone.
LEMMA OutsideStep ==
    ASSUME ReportInv,
           \/ Report!NewMonth
           \/ \E p \in ReportPlans : Report!Webhook(p) \/ Report!Resubscribe(p)
    PROVE  ReportInv'
<1>1. month \in Nat /\ LastMonth \in Nat
  BY FlowsAssumption DEF FlowsAssumption, ReportInv, ReportTypes, Report!Months
<1>2. /\ month' \in Report!Months /\ plan' \in ReportPlans /\ item' \in ReportPlans
      /\ UNCHANGED <<held, revoked, count>>
      /\ \/ turn' = turn /\ item' = item
         \/ turn' = [turn EXCEPT !.fetched = FALSE]
  BY <1>1 DEF ReportInv, ReportTypes, Report!NewMonth, Report!Webhook, Report!Resubscribe,
              Report!Months
<1>3. turn' \in Turns /\ turn'.fetched \in BOOLEAN BY <1>2 DEF ReportInv, ReportTypes, Turns
<1>4. /\ turn'.at = turn.at /\ turn'.month = turn.month /\ turn'.plan = turn.plan
      /\ turn'.keys = turn.keys /\ turn'.used = turn.used /\ turn'.before = turn.before
      /\ turn'.fetched => turn.fetched /\ item' = item
  BY <1>2 DEF ReportInv, ReportTypes, Turns
<1>5. Before(turn', turn'.keys) = Before(turn, turn.keys) BY <1>4 DEF Before
<1>6. ReportTypes' BY <1>2, <1>3 DEF ReportInv, ReportTypes
<1>7. TurnInv' BY <1>2, <1>4, <1>5 DEF ReportInv, TurnInv
<1> QED BY <1>6, <1>7 DEF ReportInv

\* A key that is created while a turn is under way had not been charged before it.
LEMMA KeyStep ==
    ASSUME ReportInv, NEW k \in ApiKeys, Report!CreateKey(k) \/ Report!RevokeKey(k)
    PROVE  ReportInv'
<1>1. /\ UNCHANGED <<month, count, plan, item, turn>>
      /\ held' \in SUBSET ApiKeys /\ revoked' \in SUBSET ApiKeys /\ held' \cap revoked' = {}
      /\ held \cup revoked \subseteq held' \cup revoked'
      /\ \A x \in held' : x \in held \/ x \in ApiKeys \ (held \cup revoked)
  BY DEF ReportInv, ReportTypes, Report!CreateKey, Report!RevokeKey
<1>2. turn \in Turns BY DEF ReportInv, ReportTypes
<1>3. ASSUME turn.at # "idle", NEW x \in ApiKeys \ (held \cup revoked)
      PROVE  turn.before[x] = 0
  <2>1. turn.before[x] \in Nat /\ turn.month \in Report!Months BY <1>2 DEF Turns
  <2>2. turn.before[x] <= count[x][turn.month] /\ count[x][turn.month] = 0
    BY <1>3, <2>1 DEF ReportInv, TurnInv
  <2> QED BY <2>1, <2>2
<1>4. ReportTypes' BY <1>1 DEF ReportInv, ReportTypes
<1>5. TurnInv'
  <2>1. \A x \in ApiKeys \ (held' \cup revoked') : x \in ApiKeys \ (held \cup revoked)
    BY <1>1
  <2>2. turn.at \notin {"idle", "keys"} => \A x \in held' \ turn.keys : turn.before[x] = 0
    BY <1>1, <1>3 DEF ReportInv, TurnInv
  <2>3. Before(turn, turn.keys)' = Before(turn, turn.keys) BY <1>1 DEF Before
  <2>4. Charged(count, ApiKeys, turn.month)' = Charged(count, ApiKeys, turn.month)
    BY <1>1 DEF Charged
  <2> QED BY <1>1, <2>1, <2>2, <2>3, <2>4 DEF ReportInv, TurnInv
<1> QED BY <1>4, <1>5 DEF ReportInv

\* Counters only grow.
LEMMA ChargeStep ==
    ASSUME ReportInv, NEW k \in ApiKeys, NEW m \in Report!Months, Report!Charge(k, m)
    PROVE  ReportInv'
<1>1. /\ k \in held \cup revoked
      /\ count' = [count EXCEPT ![k][m] = @ + 1]
      /\ UNCHANGED <<month, held, revoked, plan, item, turn>>
  BY DEF Report!Charge
<1>2. count \in Counts /\ turn \in Turns BY DEF ReportInv, ReportTypes, Counts
<1>3. count' \in Counts BY <1>1, <1>2 DEF Counts
<1>4. \A x \in ApiKeys, n \in Report!Months :
         /\ count[x][n] <= count'[x][n] /\ count[x][n] \in Nat /\ count'[x][n] \in Nat
         /\ x # k => count'[x][n] = count[x][n]
  BY <1>1, <1>2 DEF Counts
<1>5. turn.month \in Report!Months /\ turn.used \in Nat /\ turn.before \in [ApiKeys -> Nat]
  BY <1>2 DEF Turns
<1>6. Charged(count, ApiKeys, turn.month) <= Charged(count', ApiKeys, turn.month)
  BY <1>2, <1>3, <1>4, <1>5, ChargedMore
<1>7. /\ Charged(count, ApiKeys, turn.month) \in Nat
      /\ Charged(count', ApiKeys, turn.month) \in Nat
  BY <1>2, <1>3, <1>5, ChargedType
<1>8. ReportTypes' BY <1>1, <1>3 DEF ReportInv, ReportTypes, Counts
<1>9. TurnInv'
  <2>1. \A x \in ApiKeys \ (held \cup revoked), n \in Report!Months : count'[x][n] = 0
    BY <1>1, <1>4 DEF ReportInv, TurnInv
  <2>2. turn.at # "idle" => \A x \in ApiKeys : turn.before[x] <= count'[x][turn.month]
    BY <1>4, <1>5 DEF ReportInv, TurnInv
  <2>3. turn.at \in {"retrieve", "set"} => turn.used <= Charged(count', ApiKeys, turn.month)
    BY <1>5, <1>6, <1>7 DEF ReportInv, TurnInv
  <2>4. Before(turn, turn.keys)' = Before(turn, turn.keys) BY <1>1 DEF Before
  <2>5. turn' = turn /\ Charged(count, ApiKeys, turn.month)' = Charged(count', ApiKeys, turn.month)
    BY <1>1
  <2> QED BY <1>1, <2>1, <2>2, <2>3, <2>4, <2>5 DEF ReportInv, TurnInv
<1> QED BY <1>8, <1>9 DEF ReportInv

\* The statements and calls of the turn.
LEMMA TurnStep ==
    ASSUME ReportInv,
           \/ Report!List \/ Report!ReadKeys \/ Report!ReadCounters \/ Report!Retrieve
           \/ Report!SetQuantity \/ Report!Fail
    PROVE  ReportInv'
<1>1. UNCHANGED <<month, held, revoked, count, plan, item>>
  BY DEF Report!List, Report!ReadKeys, Report!ReadCounters, Report!Retrieve,
         Report!SetQuantity, Report!Fail
<1>2. /\ turn \in Turns /\ count \in Counts /\ month \in Report!Months
      /\ held \in SUBSET ApiKeys /\ plan \in ReportPlans
  BY DEF ReportInv, ReportTypes, Counts
<1>3. turn.keys \in SUBSET ApiKeys /\ turn.month \in Report!Months /\ turn.before \in [ApiKeys -> Nat]
  BY <1>2 DEF Turns
<1>4. ASSUME turn' \in Turns, TurnInv' PROVE ReportInv'
  BY <1>1, <1>4 DEF ReportInv, ReportTypes
<1>5. ASSUME turn' = Report!Idle PROVE ReportInv'
  <2>1. turn' \in Turns /\ turn'.at = "idle" /\ turn'.fetched = FALSE
    <3>1. 1 \in Report!Months BY FlowsAssumption DEF FlowsAssumption, Report!Months
    <3> QED BY <3>1, <1>5 DEF Report!Idle, Turns, Stages, ReportPlans
  <2>2. TurnInv' BY <1>1, <2>1 DEF ReportInv, TurnInv
  <2> QED BY <1>4, <2>1, <2>2
<1>6. CASE Report!SetQuantity \/ Report!Fail
  BY <1>5, <1>6 DEF Report!SetQuantity, Report!Fail
<1>7. CASE Report!List
  <2>1. /\ turn' = [at |-> "keys", month |-> month, plan |-> plan, keys |-> {}, used |-> 0,
                    fetched |-> FALSE, before |-> [k \in ApiKeys |-> count[k][month]]]
        /\ plan \in Report!Plans
    BY <1>7 DEF Report!List, Report!Idle
  <2>2. turn' \in Turns BY <1>2, <2>1 DEF Turns, Stages, Counts
  <2>3. \A k \in ApiKeys : turn'.before[k] <= count[k][turn'.month]
    BY <1>2, <2>1 DEF Counts
  <2>4. TurnInv' BY <1>1, <2>1, <2>3 DEF ReportInv, TurnInv
  <2> QED BY <1>4, <2>2, <2>4
<1>8. CASE Report!ReadKeys
  <2>1. turn.at = "keys" /\ turn' = [turn EXCEPT !.at = "counters", !.keys = held]
    BY <1>8 DEF Report!ReadKeys, Report!KeysRead
  <2>2. turn' \in Turns BY <1>2, <2>1 DEF Turns, Stages
  <2>3. /\ turn'.at = "counters" /\ turn'.keys = held /\ turn'.plan = turn.plan
        /\ turn'.before = turn.before /\ turn'.month = turn.month
        /\ turn'.fetched = turn.fetched
    BY <1>2, <2>1 DEF Turns
  <2>4. TurnInv' BY <1>1, <2>1, <2>3 DEF ReportInv, TurnInv
  <2> QED BY <1>4, <2>2, <2>4
<1>9. CASE Report!ReadCounters
  <2> PICK n : n = Charged(count, turn.keys, turn.month) OBVIOUS
  <2>1. turn.at = "counters" /\ turn' = [turn EXCEPT !.at = "retrieve", !.used = n]
    BY <1>9, UsedIs DEF Report!ReadCounters, Report!CountersRead
  <2>2. n \in Nat BY <1>2, <1>3, ChargedType
  <2>3. turn' \in Turns BY <1>2, <2>1, <2>2 DEF Turns, Stages
  <2>4. /\ turn'.at = "retrieve" /\ turn'.keys = turn.keys /\ turn'.plan = turn.plan
        /\ turn'.before = turn.before /\ turn'.month = turn.month
        /\ turn'.fetched = turn.fetched /\ turn'.used = n
    BY <1>2, <2>1 DEF Turns
  <2>5. Before(turn', turn.keys) <= n
    <3>1. \A k \in turn.keys : turn.before[k] <= count[k][turn.month]
      BY <1>3, <2>1 DEF ReportInv, TurnInv
    <3>2. Before(turn, turn.keys) <= n BY <1>2, <1>3, <3>1, BeforeLess
    <3> QED BY <3>2, <2>4 DEF Before
  <2>6. n <= Charged(count, ApiKeys, turn.month)
    <3>1. \A k \in turn.keys : count[k][turn.month] <= count[k][turn.month]
      BY <1>2, <1>3 DEF Counts
    <3> QED BY <1>2, <1>3, <3>1, ChargedMore
  <2>7. Charged(count, ApiKeys, turn.month)' = Charged(count, ApiKeys, turn.month)
    BY <1>1, <2>4 DEF Charged
  <2>8. TurnInv'
    <3>1. Before(turn, turn.keys)' <= turn'.used BY <2>4, <2>5
    <3>2. turn'.used <= Charged(count, ApiKeys, turn.month)' BY <2>4, <2>6, <2>7
    <3> QED BY <1>1, <2>1, <2>4, <3>1, <3>2 DEF ReportInv, TurnInv
  <2> QED BY <1>4, <2>3, <2>8
<1>10. CASE Report!Retrieve
  <2>1. CASE turn' = Report!Idle BY <1>5, <2>1
  <2>2. CASE turn' # Report!Idle
    <3>1. /\ turn.at = "retrieve" /\ item = turn.plan
          /\ turn' = [turn EXCEPT !.at = "set", !.fetched = TRUE]
      BY <1>10, <2>2 DEF Report!Retrieve, Report!MeteredItem
    <3>2. turn' \in Turns BY <1>2, <3>1 DEF Turns, Stages
    <3>3. /\ turn'.at = "set" /\ turn'.keys = turn.keys /\ turn'.plan = turn.plan
          /\ turn'.before = turn.before /\ turn'.month = turn.month /\ turn'.used = turn.used
      BY <1>2, <3>1 DEF Turns
    <3>4. /\ Before(turn, turn.keys)' = Before(turn, turn.keys)
          /\ Charged(count, ApiKeys, turn.month)' = Charged(count, ApiKeys, turn.month)
      BY <1>1, <3>3 DEF Before, Charged
    <3>5. TurnInv' BY <1>1, <3>1, <3>3, <3>4 DEF ReportInv, TurnInv
    <3> QED BY <1>4, <3>2, <3>5
  <2> QED BY <2>1, <2>2
<1> QED BY <1>6, <1>7, <1>8, <1>9, <1>10

LEMMA ReportStep == ReportInv /\ [Report!Next]_report => ReportInv'
<1> SUFFICES ASSUME ReportInv, [Report!Next]_report PROVE ReportInv' OBVIOUS
<1>1. CASE UNCHANGED report
  <2>1. UNCHANGED <<month, held, revoked, count, plan, item, turn>> BY <1>1 DEF report
  <2>2. ReportTypes' BY <2>1 DEF ReportInv, ReportTypes
  <2>3. Before(turn, turn.keys)' = Before(turn, turn.keys) BY <2>1 DEF Before
  <2>4. Charged(count, ApiKeys, turn.month)' = Charged(count, ApiKeys, turn.month)
    BY <2>1 DEF Charged
  <2>5. TurnInv' BY <2>1, <2>3, <2>4 DEF ReportInv, TurnInv
  <2> QED BY <2>2, <2>5 DEF ReportInv
<1>2. CASE Report!Next
  BY <1>2, OutsideStep, KeyStep, ChargeStep, TurnStep DEF Report!Next, ReportPlans
<1> QED BY <1>1, <1>2

LEMMA MoreOwed ==
    ASSUME NEW p \in Report!Plans, NEW n \in Nat, NEW k \in Nat, n <= k
    PROVE  Report!Overage(p, n) <= Report!Overage(p, k)
<1>1. Allowance[p] \in Nat BY FlowsAssumption DEF Report!Plans
<1> PICK a \in Nat : a = Allowance[p] BY <1>1
<1>2. /\ Report!Overage(p, n) = IF n > a THEN n - a ELSE 0
      /\ Report!Overage(p, k) = IF k > a THEN k - a ELSE 0
  BY DEF Report!Overage
<1> QED BY <1>2

\* For any keys, months and charges: however keys come and go, runs are charged and the
\* subscription changes while the job takes its turn, it sets the item at Stripe to no
\* more than the month owes under that item's plan, and to no less than the keys still
\* held owed when the turn began (runReconcile, loadUsageSnapshotForUser).
THEOREM OwedSafe == Report!Spec => SetsWhatIsOwed
<1>1. ASSUME ReportInv, Report!SetQuantity
      PROVE  /\ meter' <= Report!Overage(item, Report!Used(ApiKeys, turn.month))
             /\ meter' >= Report!Overage(item, Report!SumFunction([k \in held |-> turn.before[k]]))
  <2>1. turn.at = "set" /\ turn.fetched /\ meter' = Report!Overage(turn.plan, turn.used)
    BY <1>1 DEF Report!SetQuantity
  <2>2. turn \in Turns /\ count \in Counts /\ held \in SUBSET ApiKeys
    BY <1>1 DEF ReportInv, ReportTypes, Counts
  <2>3. turn.keys \in SUBSET ApiKeys /\ turn.month \in Report!Months /\ turn.used \in Nat
    BY <2>2 DEF Turns
  <2>4. /\ item = turn.plan /\ item \in Report!Plans
        /\ \A k \in held \ turn.keys : turn.before[k] = 0
        /\ Before(turn, turn.keys) <= turn.used
        /\ turn.used <= Charged(count, ApiKeys, turn.month)
    BY <1>1, <2>1 DEF ReportInv, TurnInv
  <2>5. /\ Charged(count, ApiKeys, turn.month) \in Nat
        /\ Before(turn, turn.keys) \in Nat /\ Before(turn, held) \in Nat
    BY <2>2, <2>3, ChargedType, BeforeType
  <2>6. Before(turn, held) <= Before(turn, turn.keys) BY <2>2, <2>3, <2>4, BeforeOf
  <2>7. Before(turn, held) <= turn.used BY <2>3, <2>4, <2>5, <2>6
  <2>8. /\ Report!Overage(item, turn.used)
              <= Report!Overage(item, Charged(count, ApiKeys, turn.month))
        /\ Report!Overage(item, Before(turn, held)) <= Report!Overage(item, turn.used)
    BY <2>3, <2>4, <2>5, <2>7, MoreOwed
  <2>9. /\ Report!Overage(item, turn.used) \in Nat
        /\ Report!Overage(item, Before(turn, held)) \in Nat
    BY <2>3, <2>4, <2>5, FlowsAssumption DEF Report!Overage, Report!Plans
  <2> QED BY <2>1, <2>4, <2>8, <2>9, UsedIs, BeforeIs
<1>2. ReportInv /\ [Report!Next]_report =>
        [Report!SetQuantity =>
            /\ meter' <= Report!Overage(item, Report!Used(ApiKeys, turn.month))
            /\ meter' >= Report!Overage(item, Report!SumFunction([k \in held |-> turn.before[k]]))]_report
  BY <1>1
<1> QED BY ReportInit, ReportStep, <1>2, PTL
       DEF Report!Spec, Report!meterVars, report, SetsWhatIsOwed, Report!SetsWhatIsOwed
-----------------------------------------------------------------------------
(* RunComparison: the step that stands for a key. *)

StepRow(s, k, o) ==
    [seq |-> s, key |-> k, status |-> o.status, codes |-> o.codes, effects |-> o.effects]
StepRows ==
    {StepRow(p[1], p[2], p[3]) : p \in StepSeqs \X (StepKeys \cup {NoStepKey}) \X StepOutcomes}

\* The map after each of the first n steps.
Empty == [map |-> <<>>, dropped |-> {}]
KeptIn(f, steps, n) ==
    f = [i \in 0 .. n |-> IF i = 0 THEN Empty ELSE Compare!Keep(f[i - 1], steps[i])]

LEMMA KeptExists == ASSUME NEW steps, NEW n \in Nat PROVE \E f : KeptIn(f, steps, n)
<1> DEFINE T == {k \in Nat : ~\E f : KeptIn(f, steps, k)}
<1>1. ASSUME T # {} PROVE FALSE
  <2>1. PICK k \in T : \A j \in T : ~(j < k)
    <3>1. T \in SUBSET Nat OBVIOUS
    <3> HIDE DEF T
    <3> QED BY <1>1, <3>1, LeastNumber
  <2>2. k \in Nat /\ ~\E f : KeptIn(f, steps, k) OBVIOUS
  <2>3. CASE k = 0
    <3> DEFINE f == [i \in 0 .. 0 |-> Empty]
    <3>1. KeptIn(f, steps, 0) BY DEF KeptIn
    <3> QED BY <2>2, <2>3, <3>1
  <2>4. CASE k # 0
    <3>1. k - 1 \in Nat /\ k - 1 < k BY <2>2, <2>4
    <3>2. k - 1 \notin T BY <2>1, <3>1
    <3>3. PICK f : KeptIn(f, steps, k - 1) BY <3>1, <3>2
    <3> DEFINE g == [i \in 0 .. k |->
                       IF i = 0 THEN Empty ELSE Compare!Keep(f[i - 1], steps[i])]
    <3>4. ASSUME NEW i \in 0 .. k - 1 PROVE g[i] = f[i] BY <3>3, <2>2 DEF KeptIn
    <3>5. \A i \in 0 .. k : i # 0 => g[i - 1] = f[i - 1] BY <3>4, <2>2
    <3>6. g = [i \in 0 .. k |-> IF i = 0 THEN Empty ELSE Compare!Keep(g[i - 1], steps[i])]
      BY <3>5
    <3> QED BY <2>2, <3>6 DEF KeptIn
  <2> QED BY <2>3, <2>4
<1> QED BY <1>1

\* Of the first n steps, one stands for each key, and each that has a key stands for it
\* or is named as dropped.
Kept(acc, steps, n) ==
    /\ acc = [map |-> acc.map, dropped |-> acc.dropped]
    /\ \A k \in DOMAIN acc.map :
          k # NoStepKey /\ \E i \in 1 .. n : acc.map[k] = steps[i] /\ steps[i].key = k
    /\ \A i \in 1 .. n : steps[i].key # NoStepKey =>
          /\ steps[i].key \in DOMAIN acc.map
          /\ \/ acc.map[steps[i].key] = steps[i]
             \/ \E d \in acc.dropped : d.dropped = steps[i].seq

LEMMA KeptOneMore ==
    ASSUME NEW steps \in Seq(StepRows), NEW n \in Nat, n + 1 <= Len(steps),
           NEW acc, Kept(acc, steps, n)
    PROVE  Kept(Compare!Keep(acc, steps[n + 1]), steps, n + 1)
<1> PICK step : step = steps[n + 1] OBVIOUS
<1> PICK new : new = Compare!Keep(acc, step) OBVIOUS
<1> SUFFICES Kept(new, steps, n + 1) OBVIOUS
<1> PICK map, dropped : map = acc.map /\ dropped = acc.dropped OBVIOUS
<1>0. acc = [map |-> map, dropped |-> dropped] BY DEF Kept
<1>1. /\ \A k \in DOMAIN map :
            k # NoStepKey /\ \E i \in 1 .. n : map[k] = steps[i] /\ steps[i].key = k
      /\ \A i \in 1 .. n : steps[i].key # NoStepKey =>
            /\ steps[i].key \in DOMAIN map
            /\ map[steps[i].key] = steps[i] \/ \E d \in dropped : d.dropped = steps[i].seq
  BY DEF Kept
<1>2. 1 .. n + 1 = 1 .. n \cup {n + 1} OBVIOUS
<1>3. CASE step.key = NoStepKey
  <2>1. new = acc BY <1>3 DEF Compare!Keep
  <2> QED BY <1>0, <1>1, <1>2, <1>3, <2>1 DEF Kept
<1>4. CASE step.key # NoStepKey /\ step.key \notin DOMAIN map
  <2>1. new = [map |-> Compare!Put(map, step), dropped |-> dropped]
    BY <1>0, <1>4 DEF Compare!Keep
  <2>2. /\ DOMAIN Compare!Put(map, step) = DOMAIN map \cup {step.key}
        /\ Compare!Put(map, step)[step.key] = step
        /\ \A k \in DOMAIN map : Compare!Put(map, step)[k] = map[k]
    BY <1>4 DEF Compare!Put
  <2> QED BY <1>1, <1>2, <1>4, <2>1, <2>2 DEF Kept
<1>5. CASE step.key # NoStepKey /\ step.key \in DOMAIN map /\ step.seq < map[step.key].seq
  <2> DEFINE drop == Compare!DroppedFor(step, map[step.key])
  <2>1. new = [map |-> Compare!Put(map, step), dropped |-> dropped \cup {drop}]
    BY <1>0, <1>5 DEF Compare!Keep
  <2>2. /\ DOMAIN Compare!Put(map, step) = DOMAIN map
        /\ Compare!Put(map, step)[step.key] = step
        /\ \A k \in DOMAIN map : k # step.key => Compare!Put(map, step)[k] = map[k]
    BY <1>5 DEF Compare!Put
  <2>3. drop.dropped = map[step.key].seq BY DEF Compare!DroppedFor
  <2>4. ASSUME NEW i \in 1 .. n, steps[i].key # NoStepKey
        PROVE  \/ Compare!Put(map, step)[steps[i].key] = steps[i]
               \/ \E d \in dropped \cup {drop} : d.dropped = steps[i].seq
    <3>1. CASE \E d \in dropped : d.dropped = steps[i].seq BY <3>1
    <3>2. CASE map[steps[i].key] = steps[i] BY <1>1, <2>2, <2>3, <2>4, <3>2
    <3> QED BY <1>1, <2>4, <3>1, <3>2
  <2> HIDE DEF drop
  <2> QED BY <1>1, <1>2, <1>5, <2>1, <2>2, <2>4 DEF Kept
<1>6. CASE step.key # NoStepKey /\ step.key \in DOMAIN map /\ ~(step.seq < map[step.key].seq)
  <2> DEFINE drop == Compare!DroppedFor(map[step.key], step)
  <2>1. new = [map |-> map, dropped |-> dropped \cup {drop}]
    BY <1>0, <1>6 DEF Compare!Keep
  <2>2. drop.dropped = step.seq BY DEF Compare!DroppedFor
  <2> HIDE DEF drop
  <2> QED BY <1>1, <1>2, <1>6, <2>1, <2>2 DEF Kept
<1> QED BY <1>3, <1>4, <1>5, <1>6

LEMMA KeyMapIs ==
    ASSUME NEW steps \in Seq(StepRows)
    PROVE  Kept(Compare!KeyMap(steps), steps, Len(steps))
<1> PICK n \in Nat : n = Len(steps) OBVIOUS
<1> PICK f : f = Compare!KeyMaps(steps) OBVIOUS
<1>1. KeptIn(f, steps, n)
  BY KeptExists DEF Compare!KeyMaps, KeptIn, Empty
<1>2. f[0] = Empty /\ \A i \in 1 .. n : f[i] = Compare!Keep(f[i - 1], steps[i])
  BY <1>1 DEF KeptIn
<1> DEFINE T == {i \in Nat : i <= n /\ ~Kept(f[i], steps, i)}
<1>3. ASSUME T # {} PROVE FALSE
  <2>1. PICK k \in T : \A j \in T : ~(j < k)
    <3>1. T \in SUBSET Nat OBVIOUS
    <3> HIDE DEF T
    <3> QED BY <1>3, <3>1, LeastNumber
  <2>2. k # 0
    <3>1. Kept(Empty, steps, 0)
      <4>1. DOMAIN Empty.map = {} BY DEF Empty
      <4>2. Empty = [map |-> Empty.map, dropped |-> Empty.dropped] BY DEF Empty
      <4>3. 1 .. 0 = {} OBVIOUS
      <4> QED BY <4>1, <4>2, <4>3 DEF Kept
    <3> QED BY <1>2, <3>1
  <2>3. k - 1 \in Nat /\ k \in 1 .. n /\ Kept(f[k - 1], steps, k - 1)
    BY <2>1, <2>2
  <2>4. Kept(Compare!Keep(f[k - 1], steps[k - 1 + 1]), steps, k - 1 + 1)
    BY <2>3, KeptOneMore
  <2> QED BY <1>2, <2>3, <2>4
<1>4. Kept(f[n], steps, n) BY <1>3
<1> QED BY <1>4 DEF Compare!KeyMap

-----------------------------------------------------------------------------
(* RunComparison: multisets. *)

\* Whatever is in a bag is in it a positive number of times.
Bag(b) == \A x \in DOMAIN b : b[x] \in Nat /\ b[x] > 0

LEMMA CountedPositive ==
    ASSUME NEW S, IsFiniteSet(S), S # {} PROVE Cardinality(S) \in Nat /\ Cardinality(S) > 0
BY FS_CardinalityType, FS_EmptySet

LEMMA CompareCounts == \A S : Compare!Cardinality(S) = Cardinality(S)
BY DEF Compare!Cardinality, Cardinality

LEMMA CodesBag ==
    ASSUME NEW codes, IsFiniteSet(DOMAIN codes) PROVE Bag(Compare!ToBag(codes))
<1> SUFFICES ASSUME NEW x \in DOMAIN Compare!ToBag(codes)
             PROVE  Compare!ToBag(codes)[x] \in Nat /\ Compare!ToBag(codes)[x] > 0
  BY DEF Bag
<1> DEFINE places == {i \in DOMAIN codes : codes[i] = x}
<1>1. /\ Compare!ToBag(codes)[x] = Compare!Cardinality(places)
      /\ places # {}
  BY DEF Compare!ToBag, Compare!Range
<1>2. IsFiniteSet(places) BY FS_Subset
<1> HIDE DEF places
<1> QED BY <1>1, <1>2, CountedPositive, CompareCounts

LEMMA SignaturesBag ==
    ASSUME NEW steps, NEW places, IsFiniteSet(places)
    PROVE  Bag(Compare!Signatures(steps, places))
<1> DEFINE at(s) == {i \in places : Compare!Signature(steps[i]) = s}
           bag == Compare!Signatures(steps, places)
<1> SUFFICES ASSUME NEW s \in DOMAIN bag PROVE bag[s] \in Nat /\ bag[s] > 0
  BY DEF Bag
<1>1. bag[s] = Compare!Cardinality(at(s)) /\ at(s) # {} BY DEF Compare!Signatures
<1>2. IsFiniteSet(at(s)) BY FS_Subset
<1> HIDE DEF at, bag
<1> QED BY <1>1, <1>2, CountedPositive, CompareCounts


LEMMA LessIs ==
    ASSUME NEW a, NEW b, Bag(a), Bag(b), NEW less, less = Compare!MultisetSubtract(a, b)
    PROVE  /\ \A x : x \in DOMAIN less <=> x \in DOMAIN a /\ (x \in DOMAIN b => a[x] > b[x])
           /\ \A x \in DOMAIN less : less[x] = IF x \in DOMAIN b THEN a[x] - b[x] ELSE a[x]
<1> DEFINE rest == [x \in DOMAIN a |-> IF x \in DOMAIN b THEN a[x] - b[x] ELSE a[x]]
<1>1. Compare!MultisetSubtract(a, b) = [x \in {y \in DOMAIN rest : rest[y] > 0} |-> rest[x]]
  BY DEF Compare!MultisetSubtract, Compare!(-)
<1>2. ASSUME NEW x \in DOMAIN a PROVE rest[x] > 0 <=> (x \in DOMAIN b => a[x] > b[x])
  <2>1. CASE x \in DOMAIN b
    <3>1. a[x] \in Nat /\ b[x] \in Nat BY <2>1 DEF Bag
    <3> QED BY <2>1, <3>1
  <2>2. CASE x \notin DOMAIN b BY <2>2 DEF Bag
  <2> QED BY <2>1, <2>2
<1>3. {y \in DOMAIN rest : rest[y] > 0} = {x \in DOMAIN a : x \in DOMAIN b => a[x] > b[x]}
  BY <1>2
<1> QED BY <1>1, <1>3

\* Nothing is left of what is taken from itself.
LEMMA NothingLeft == ASSUME NEW a, Bag(a) PROVE Compare!MultisetSubtract(a, a) = Compare!EmptyBag
<1> PICK less : less = Compare!MultisetSubtract(a, a) OBVIOUS
<1>1. DOMAIN less = {}
  <2>1. \A x \in DOMAIN a : ~(a[x] > a[x]) BY DEF Bag
  <2>2. \A x : x \in DOMAIN less <=> x \in DOMAIN a /\ (x \in DOMAIN a => a[x] > a[x])
    BY LessIs
  <2> QED BY <2>1, <2>2
<1>2. less = [x \in DOMAIN less |-> less[x]] BY DEF Compare!MultisetSubtract, Compare!(-)
<1>3. Compare!EmptyBag = [x \in {} |-> 1] BY DEF Compare!EmptyBag, Compare!SetToBag
<1> QED BY <1>1, <1>2, <1>3

LEMMA Least ==
    ASSUME NEW m \in Nat, NEW n \in Nat
    PROVE  Compare!Min({m, n}) = IF m <= n THEN m ELSE n
<1> PICK l : l = IF m <= n THEN m ELSE n OBVIOUS
<1>1. l \in {m, n} /\ \A y \in {m, n} : l <= y OBVIOUS
<1>2. \A x \in {m, n} : (\A y \in {m, n} : x <= y) => x = l OBVIOUS
<1> QED BY <1>1, <1>2 DEF Compare!Min

-----------------------------------------------------------------------------
(* RunComparison: the report in the other order. *)

LEMMA ChangeIs ==
    ASSUME NEW p, NEW c
    PROVE  /\ Compare!Change(p, c) =
                 IF ~Compare!Failing(p)
                 THEN IF Compare!Failing(c) THEN "introducedFailure" ELSE "unchangedOk"
                 ELSE IF Compare!Failing(c) THEN "bothFailing" ELSE "resolvedFailure"
           /\ Compare!Change(c, p) = Compare!Opposite(Compare!Change(p, c))
<1>1. Compare!Change(p, c) =
         IF ~Compare!Failing(p)
         THEN IF Compare!Failing(c) THEN "introducedFailure" ELSE "unchangedOk"
         ELSE IF Compare!Failing(c) THEN "bothFailing" ELSE "resolvedFailure"
  BY DEF Compare!Change, Compare!Failing
<1>2. Compare!Change(c, p) =
         IF ~Compare!Failing(c)
         THEN IF Compare!Failing(p) THEN "introducedFailure" ELSE "unchangedOk"
         ELSE IF Compare!Failing(p) THEN "bothFailing" ELSE "resolvedFailure"
  BY DEF Compare!Change, Compare!Failing
<1>3. /\ Compare!Opposite("introducedFailure") = "resolvedFailure"
      /\ Compare!Opposite("resolvedFailure") = "introducedFailure"
      /\ Compare!Opposite("structuralAddition") = "structuralRemoval"
      /\ Compare!Opposite("structuralRemoval") = "structuralAddition"
      /\ Compare!Opposite("bothFailing") = "bothFailing"
      /\ Compare!Opposite("unchangedOk") = "unchangedOk"
  BY DEF Compare!Opposite
<1> QED BY <1>1, <1>2, <1>3

LEMMA DeltasOpposite ==
    ASSUME NEW p, NEW c
    PROVE  Compare!EffectDeltas(c, p)
              = {Compare!OppositeDelta(d) : d \in Compare!EffectDeltas(p, c)}
<1> DEFINE pe(id) == Compare!Effect(p, id)
           ce(id) == Compare!Effect(c, id)
           forth(id) == [effect |-> id, kind |-> Compare!Change(pe(id), ce(id)),
                         introduced |-> Compare!Gained(pe(id), ce(id)),
                         resolved |-> Compare!Gained(ce(id), pe(id))]
           back(id) == [effect |-> id, kind |-> Compare!Change(ce(id), pe(id)),
                        introduced |-> Compare!Gained(ce(id), pe(id)),
                        resolved |-> Compare!Gained(pe(id), ce(id))]
           ids == DOMAIN p.effects \cup DOMAIN c.effects
<1>1. Compare!EffectDeltas(p, c) = {forth(id) : id \in ids} BY DEF Compare!EffectDeltas
<1>2. Compare!EffectDeltas(c, p) = {back(id) : id \in ids} BY DEF Compare!EffectDeltas
<1>3. ASSUME NEW id PROVE Compare!OppositeDelta(forth(id)) = back(id)
  BY ChangeIs DEF Compare!OppositeDelta
<1> HIDE DEF forth, back, ids
<1> QED BY <1>1, <1>2, <1>3


LEMMA EntryOpposite ==
    ASSUME NEW key, NEW p, NEW c, key \in DOMAIN p \cup DOMAIN c
    PROVE  Compare!View(Compare!Entry(key, c, p))
              = Compare!OppositeView(Compare!Entry(key, p, c))
<1> DEFINE Row(kind, at, failing, delta) ==
               [key |-> key, kind |-> kind, at |-> at, failing |-> failing,
                introduced |-> delta.introduced, resolved |-> delta.resolved,
                effects |-> delta.effects]
           flip(effects) == {Compare!OppositeDelta(d) : d \in effects}
<1>1. ASSUME NEW kind, NEW m, NEW n, NEW f, NEW g, NEW d, NEW e,
             d.introduced = e.resolved, d.resolved = e.introduced,
             d.effects = flip(e.effects)
      PROVE  Compare!View(Row(Compare!Opposite(kind), <<m, n>>, f, d))
                = Compare!OppositeView(Row(kind, <<n, m>>, g, e))
  <2>1. Compare!View(Row(Compare!Opposite(kind), <<m, n>>, f, d)) =
           [key |-> key, kind |-> Compare!Opposite(kind), at |-> <<m, n>>,
            effects |-> d.effects, introduced |-> d.introduced, resolved |-> d.resolved]
    BY DEF Compare!View
  <2>2. Compare!OppositeView(Row(kind, <<n, m>>, g, e)) =
           [key |-> key, kind |-> Compare!Opposite(kind), at |-> <<m, n>>,
            effects |-> flip(e.effects), introduced |-> e.resolved, resolved |-> e.introduced]
    BY DEF Compare!OppositeView
  <2> QED BY <1>1, <2>1, <2>2
<1>2. LET none == Compare!NoDelta IN
      none.introduced = none.resolved /\ none.effects = flip(none.effects)
  BY DEF Compare!NoDelta
<1>3. /\ Compare!Opposite("structuralAddition") = "structuralRemoval"
      /\ Compare!Opposite("structuralRemoval") = "structuralAddition"
  BY DEF Compare!Opposite
<1>4. CASE key \notin DOMAIN c
  <2>1. /\ Compare!Entry(key, p, c) = Row("structuralRemoval", <<p[key].seq, 0>>,
                                         Compare!Failing(p[key]), Compare!NoDelta)
        /\ Compare!Entry(key, c, p) = Row("structuralAddition", <<0, p[key].seq>>,
                                         Compare!Failing(p[key]), Compare!NoDelta)
    BY <1>4 DEF Compare!Entry
  <2> HIDE DEF Row, flip
  <2> QED BY <1>1, <1>2, <1>3, <2>1
<1>5. CASE key \in DOMAIN c /\ key \notin DOMAIN p
  <2>1. /\ Compare!Entry(key, p, c) = Row("structuralAddition", <<0, c[key].seq>>,
                                         Compare!Failing(c[key]), Compare!NoDelta)
        /\ Compare!Entry(key, c, p) = Row("structuralRemoval", <<c[key].seq, 0>>,
                                         Compare!Failing(c[key]), Compare!NoDelta)
    BY <1>5 DEF Compare!Entry
  <2> HIDE DEF Row, flip
  <2> QED BY <1>1, <1>2, <1>3, <2>1
<1>6. CASE key \in DOMAIN c /\ key \in DOMAIN p
  <2> PICK before, after : before = p[key] /\ after = c[key] OBVIOUS
  <2>1. /\ Compare!Entry(key, p, c) =
              Row(Compare!Change(before, after), <<before.seq, after.seq>>,
                  Compare!Failing(after), Compare!Delta(before, after))
        /\ Compare!Entry(key, c, p) =
              Row(Compare!Change(after, before), <<after.seq, before.seq>>,
                  Compare!Failing(before), Compare!Delta(after, before))
    BY <1>6 DEF Compare!Entry
  <2>2. Compare!Change(after, before) = Compare!Opposite(Compare!Change(before, after))
    BY ChangeIs
  <2>3. Compare!Change(before, after) = "bothFailing"
           <=> Compare!Change(after, before) = "bothFailing"
    BY ChangeIs
  <2>4. LET d == Compare!Delta(after, before)
            e == Compare!Delta(before, after)
        IN  /\ d.introduced = e.resolved /\ d.resolved = e.introduced
            /\ d.effects = flip(e.effects)
    <3>1. CASE Compare!Change(before, after) = "bothFailing"
      <4>1. /\ Compare!Delta(after, before) =
                  [introduced |-> Compare!Gained(after, before),
                   resolved |-> Compare!Gained(before, after),
                   effects |-> Compare!EffectDeltas(after, before)]
            /\ Compare!Delta(before, after) =
                  [introduced |-> Compare!Gained(before, after),
                   resolved |-> Compare!Gained(after, before),
                   effects |-> Compare!EffectDeltas(before, after)]
        BY <2>3, <3>1 DEF Compare!Delta
      <4> QED BY <4>1, DeltasOpposite
    <3>2. CASE Compare!Change(before, after) # "bothFailing"
      <4>1. /\ Compare!Delta(after, before) = Compare!NoDelta
            /\ Compare!Delta(before, after) = Compare!NoDelta
        BY <2>3, <3>2 DEF Compare!Delta
      <4> HIDE DEF flip
      <4> QED BY <1>2, <4>1
    <3> QED BY <3>1, <3>2
  <2> HIDE DEF Row, flip
  <2> QED BY <1>1, <2>1, <2>2, <2>4
<1> QED BY <1>4, <1>5, <1>6

LEMMA ReportMirrored == Compare!Mirrored
<1> PICK p, c : p = Compare!KeyMap(Compare!Prior).map
                /\ c = Compare!KeyMap(Compare!Current).map OBVIOUS
<1> PICK keys : keys = DOMAIN p \cup DOMAIN c OBVIOUS
<1>1. /\ Compare!BucketA(Compare!Prior, Compare!Current)
            = {Compare!Entry(key, p, c) : key \in keys}
      /\ Compare!BucketA(Compare!Current, Compare!Prior)
            = {Compare!Entry(key, c, p) : key \in keys}
  BY DEF Compare!BucketA
<1>2. {Compare!View(e) : e \in {Compare!Entry(key, c, p) : key \in keys}}
         = {Compare!OppositeView(e) : e \in {Compare!Entry(key, p, c) : key \in keys}}
  <2>1. \A key \in keys : Compare!View(Compare!Entry(key, c, p))
                             = Compare!OppositeView(Compare!Entry(key, p, c))
    BY EntryOpposite
  <2> QED BY <2>1
<1>3. Compare!Unchanged(Compare!Current, Compare!Prior)
         = Compare!Unchanged(Compare!Prior, Compare!Current)
  <2> PICK q, d : q = Compare!Unresolved(Compare!Prior)
                  /\ d = Compare!Unresolved(Compare!Current) OBVIOUS
  <2>1. DOMAIN q \cap DOMAIN d = DOMAIN d \cap DOMAIN q
        /\ \A s : {q[s], d[s]} = {d[s], q[s]}
    OBVIOUS
  <2>2. [s \in DOMAIN q \cap DOMAIN d |-> Compare!Min({q[s], d[s]})]
           = [s \in DOMAIN d \cap DOMAIN q |-> Compare!Min({d[s], q[s]})]
    BY <2>1
  <2> QED BY <2>2 DEF Compare!Unchanged
<1> QED BY <1>1, <1>2, <1>3 DEF Compare!Mirrored

-----------------------------------------------------------------------------
(* RunComparison: every failure is in the report. *)

LEMMA StepsBag ==
    ASSUME NEW steps \in Seq(StepRows) PROVE Bag(Compare!Unresolved(steps))
<1> DEFINE places == {i \in Compare!FailingAt(steps) : steps[i].key = NoStepKey}
<1>1. IsFiniteSet(places)
  <2>1. DOMAIN steps = 1 .. Len(steps) /\ Len(steps) \in Nat OBVIOUS
  <2>2. IsFiniteSet(DOMAIN steps) BY <2>1, FS_Interval
  <2>3. places \subseteq DOMAIN steps BY DEF Compare!FailingAt
  <2> HIDE DEF places
  <2> QED BY <2>2, <2>3, FS_Subset
<1> HIDE DEF places
<1>2. Bag(Compare!Signatures(steps, places)) BY <1>1, SignaturesBag
<1> QED BY <1>2 DEF Compare!Unresolved, places

\* What is introduced and what is unchanged make up the failures of the current run.
LEMMA UnresolvedRestored ==
    ASSUME NEW prior \in Seq(StepRows), NEW current \in Seq(StepRows)
    PROVE  Compare!(+)(Compare!Introduced(prior, current), Compare!Unchanged(prior, current))
              = Compare!Unresolved(current)
<1> PICK p, c : p = Compare!Unresolved(prior) /\ c = Compare!Unresolved(current) OBVIOUS
<1>1. Bag(p) /\ Bag(c) BY StepsBag
<1>2. c = [x \in DOMAIN c |-> c[x]] BY DEF Compare!Unresolved, Compare!Signatures
<1> PICK less : less = Compare!MultisetSubtract(c, p) OBVIOUS
<1> PICK common : common = [s \in DOMAIN p \cap DOMAIN c |-> Compare!Min({p[s], c[s]})] OBVIOUS
<1>3. less = Compare!Introduced(prior, current) /\ common = Compare!Unchanged(prior, current)
  BY DEF Compare!Introduced, Compare!Unchanged
<1>4. /\ \A x : x \in DOMAIN less <=> x \in DOMAIN c /\ (x \in DOMAIN p => c[x] > p[x])
      /\ \A x \in DOMAIN less : less[x] = IF x \in DOMAIN p THEN c[x] - p[x] ELSE c[x]
  BY <1>1, LessIs
<1>5. /\ DOMAIN common = DOMAIN p \cap DOMAIN c
      /\ \A x \in DOMAIN common : common[x] = IF p[x] <= c[x] THEN p[x] ELSE c[x]
  BY <1>1, Least DEF Bag
<1>6. Compare!(+)(less, common) =
         [x \in DOMAIN less \cup DOMAIN common |->
            (IF x \in DOMAIN less THEN less[x] ELSE 0)
               + (IF x \in DOMAIN common THEN common[x] ELSE 0)]
  BY DEF Compare!(+)
<1>7. DOMAIN less \cup DOMAIN common = DOMAIN c BY <1>4, <1>5
<1>8. ASSUME NEW x \in DOMAIN c
      PROVE  (IF x \in DOMAIN less THEN less[x] ELSE 0)
                + (IF x \in DOMAIN common THEN common[x] ELSE 0) = c[x]
  <2>1. c[x] \in Nat /\ (x \in DOMAIN p => p[x] \in Nat) BY <1>1 DEF Bag
  <2>2. CASE x \notin DOMAIN p
    <3>1. x \in DOMAIN less /\ less[x] = c[x] /\ x \notin DOMAIN common
      BY <1>4, <1>5, <2>2
    <3> QED BY <2>1, <3>1
  <2>3. CASE x \in DOMAIN p /\ c[x] > p[x]
    <3>1. x \in DOMAIN less /\ less[x] = c[x] - p[x] BY <1>4, <2>3
    <3>2. x \in DOMAIN common /\ common[x] = p[x] BY <1>5, <2>1, <2>3
    <3> QED BY <2>1, <2>3, <3>1, <3>2
  <2>4. CASE x \in DOMAIN p /\ ~(c[x] > p[x])
    <3>1. x \notin DOMAIN less BY <1>4, <2>4
    <3>2. x \in DOMAIN common /\ common[x] = c[x] BY <1>5, <2>1, <2>4
    <3> QED BY <2>1, <3>1, <3>2
  <2> QED BY <2>2, <2>3, <2>4
<1>9. Compare!(+)(less, common) = [x \in DOMAIN c |-> c[x]] BY <1>6, <1>7, <1>8
<1> QED BY <1>2, <1>3, <1>9


LEMMA FailuresReported ==
    ASSUME Compare!Prior \in Seq(StepRows), Compare!Current \in Seq(StepRows)
    PROVE  Compare!FailuresAccounted
<1> PICK prior, current : prior = Compare!Prior /\ current = Compare!Current OBVIOUS
<1> PICK kept : kept = Compare!KeyMap(current) OBVIOUS
<1>1. Kept(kept, current, Len(current)) BY KeyMapIs
<1>2. ASSUME NEW i \in DOMAIN current, Compare!Failing(current[i]), current[i].key # NoStepKey
      PROVE  \/ \E e \in Compare!BucketA(prior, current) : e.at[2] = current[i].seq /\ e.failing
             \/ \E d \in Compare!Dropped(current) : d.dropped = current[i].seq
  <2> PICK key : key = current[i].key OBVIOUS
  <2>1. DOMAIN current = 1 .. Len(current) OBVIOUS
  <2>2. key \in DOMAIN kept.map
        /\ (kept.map[key] = current[i] \/ \E d \in kept.dropped : d.dropped = current[i].seq)
    BY <1>1, <1>2, <2>1 DEF Kept
  <2>3. CASE \E d \in kept.dropped : d.dropped = current[i].seq
    BY <2>3 DEF Compare!Dropped
  <2>4. CASE kept.map[key] = current[i]
    <3> PICK p : p = Compare!KeyMap(prior).map OBVIOUS
    <3> DEFINE e == Compare!Entry(key, p, kept.map)
    <3>1. e \in Compare!BucketA(prior, current) BY <2>2 DEF Compare!BucketA
    <3>2. e.at[2] = kept.map[key].seq /\ (e.failing <=> Compare!Failing(kept.map[key]))
      <4>1. CASE key \notin DOMAIN p BY <2>2, <4>1 DEF Compare!Entry
      <4>2. CASE key \in DOMAIN p BY <2>2, <4>2 DEF Compare!Entry
      <4> QED BY <4>1, <4>2
    <3> HIDE DEF e
    <3> QED BY <1>2, <2>4, <3>1, <3>2
  <2> QED BY <2>2, <2>3, <2>4
<1>3. Compare!(+)(Compare!Introduced(prior, current), Compare!Unchanged(prior, current))
         = Compare!Unresolved(current)
  BY UnresolvedRestored
<1> QED BY <1>2, <1>3 DEF Compare!FailuresAccounted


-----------------------------------------------------------------------------
(* RunComparison: the parts of the report agree. *)

OwnSeqs(steps) == \A i, j \in DOMAIN steps : steps[i].seq = steps[j].seq => i = j

RunsInv ==
    /\ runs \in Seq(Seq(StepRows)) /\ Len(runs) >= 1
    /\ \A r \in DOMAIN runs : OwnSeqs(runs[r])

\* Runs to compare, under short names.
LEMMA BothRuns ==
    ASSUME RunsInv, Len(runs) >= 2
    PROVE  /\ Len(runs) \in Nat /\ DOMAIN runs = 1 .. Len(runs)
           /\ Len(runs) - 1 \in DOMAIN runs /\ Len(runs) \in DOMAIN runs
           /\ Compare!Prior \in Seq(StepRows) /\ Compare!Current \in Seq(StepRows)
           /\ OwnSeqs(Compare!Prior) /\ OwnSeqs(Compare!Current)
BY DEF RunsInv, Compare!Prior, Compare!Current

\* A signature that fails in both runs is a recurring one.
Recurring == {p.signature : p \in {q \in Compare!Patterns : {Len(runs) - 1, Len(runs)} \subseteq q.runs}}

LEMMA Recurs ==
    ASSUME RunsInv, Len(runs) >= 2, NEW s,
           NEW i \in Compare!FailingAt(Compare!Prior), s = Compare!Signature(Compare!Prior[i]),
           NEW j \in Compare!FailingAt(Compare!Current), s = Compare!Signature(Compare!Current[j])
    PROVE  s \in Recurring
<1> DEFINE failed(r) == {Compare!Signature(runs[r][k]) : k \in Compare!FailingAt(runs[r])}
           hits(t) == {r \in DOMAIN runs : t \in failed(r)}
           both == {Len(runs) - 1, Len(runs)}
<1>1. both \subseteq hits(s)
  BY BothRuns DEF Compare!Prior, Compare!Current
<1>2. Compare!Cardinality(hits(s)) >= 2
  <2>1. IsFiniteSet(hits(s))
    <3>1. IsFiniteSet(DOMAIN runs) BY BothRuns, FS_Interval
    <3>2. hits(s) \subseteq DOMAIN runs OBVIOUS
    <3> HIDE DEF hits
    <3> QED BY <3>1, <3>2, FS_Subset
  <2>2. Cardinality(both) = 2
    <3> HIDE DEF failed, hits
    <3> PICK n \in Nat : n = Len(runs) BY BothRuns
    <3>1. both = {n - 1} \cup {n} /\ n \notin {n - 1} OBVIOUS
    <3>2. IsFiniteSet({n - 1}) /\ Cardinality({n - 1}) = 1 BY FS_Singleton
    <3>3. Cardinality({n - 1} \cup {n}) = Cardinality({n - 1}) + 1
      BY <3>1, <3>2, FS_AddElement
    <3>4. Cardinality({n - 1} \cup {n}) = 2 BY <3>2, <3>3
    <3> QED BY <3>1, <3>4, Zenon
  <2> HIDE DEF hits, both
  <2>3. Cardinality(both) <= Cardinality(hits(s)) BY <1>1, <2>1, FS_Subset
  <2>4. Cardinality(hits(s)) \in Nat BY <2>1, FS_CardinalityType
  <2> QED BY <2>2, <2>3, <2>4, CompareCounts
<1>3. s \in UNION {failed(r) : r \in DOMAIN runs} BY <1>1, BothRuns
<1>4. Compare!Patterns =
         {[signature |-> t, runs |-> hits(t)] :
             t \in {u \in UNION {failed(r) : r \in DOMAIN runs} : Compare!Cardinality(hits(u)) >= 2}}
  BY DEF Compare!Patterns
<1>5. [signature |-> s, runs |-> hits(s)] \in Compare!Patterns
  <2> HIDE DEF failed, hits
  <2> QED BY <1>2, <1>3, <1>4
<1> HIDE DEF failed, hits
<1> QED BY <1>1, <1>5 DEF Recurring

LEMMA RowsReasons ==
    ASSUME NEW x \in StepRows
    PROVE  /\ IsFiniteSet(DOMAIN x.codes)
           /\ \A id \in DOMAIN x.effects :
                 /\ IsFiniteSet(DOMAIN x.effects[id].codes)
                 /\ ~Compare!Failing(x.effects[id]) => x.effects[id].codes = <<>>
<1>1. PICK o \in StepOutcomes : x.codes = o.codes /\ x.effects = o.effects
  BY DEF StepRows, StepRow
<1> QED BY <1>1, OutcomesAssumption

\* Steps of one signature give the same reasons, and so do their effects.
LEMMA SameReasons ==
    ASSUME NEW x \in StepRows, NEW y \in StepRows,
           Compare!Signature(x) = Compare!Signature(y)
    PROVE  Compare!Gained(x, y) = Compare!EmptyBag /\ Compare!Gained(y, x) = Compare!EmptyBag
<1>1. Compare!ToBag(x.codes) = Compare!ToBag(y.codes)
  BY DEF Compare!Signature
<1>2. Bag(Compare!ToBag(x.codes)) BY RowsReasons, CodesBag
<1> QED BY <1>1, <1>2, NothingLeft DEF Compare!Gained

FailingEffects(x) ==
    {<<id, x.effects[id].status, Compare!ToBag(x.effects[id].codes)>> :
        id \in {e \in DOMAIN x.effects : Compare!Failing(x.effects[e])}}

LEMMA FailingEffect ==
    ASSUME NEW x \in StepRows, NEW y \in StepRows, NEW id,
           FailingEffects(x) = FailingEffects(y),
           id \in DOMAIN x.effects, Compare!Failing(x.effects[id])
    PROVE  /\ id \in DOMAIN y.effects /\ Compare!Failing(y.effects[id])
           /\ Compare!ToBag(x.effects[id].codes) = Compare!ToBag(y.effects[id].codes)
<1>1. <<id, x.effects[id].status, Compare!ToBag(x.effects[id].codes)>> \in FailingEffects(y)
  BY DEF FailingEffects
<1>2. PICK e \in DOMAIN y.effects :
         /\ Compare!Failing(y.effects[e])
         /\ <<id, x.effects[id].status, Compare!ToBag(x.effects[id].codes)>>
               = <<e, y.effects[e].status, Compare!ToBag(y.effects[e].codes)>>
  BY <1>1 DEF FailingEffects
<1> QED BY <1>2

LEMMA SameEffect ==
    ASSUME NEW x \in StepRows, NEW y \in StepRows, NEW id,
           Compare!Signature(x) = Compare!Signature(y)
    PROVE  Compare!Gained(Compare!Effect(x, id), Compare!Effect(y, id)) = Compare!EmptyBag
<1>1. FailingEffects(x) = FailingEffects(y)
  BY DEF Compare!Signature, FailingEffects
<1> PICK p, q : p = Compare!Effect(x, id) /\ q = Compare!Effect(y, id) OBVIOUS
<1>2. Compare!ToBag(p.codes) = Compare!ToBag(q.codes) /\ IsFiniteSet(DOMAIN p.codes)
  <2>1. CASE id \in DOMAIN x.effects /\ Compare!Failing(x.effects[id])
    <3>1. p = x.effects[id] /\ q = y.effects[id]
      BY <1>1, <2>1, FailingEffect DEF Compare!Effect
    <3> QED BY <1>1, <2>1, <3>1, FailingEffect, RowsReasons
  <2>2. CASE id \in DOMAIN y.effects /\ Compare!Failing(y.effects[id])
    <3>1. id \in DOMAIN x.effects /\ Compare!Failing(x.effects[id])
      BY <1>1, <2>2, FailingEffect
    <3> QED BY <2>1, <3>1
  <2>3. CASE /\ ~(id \in DOMAIN x.effects /\ Compare!Failing(x.effects[id]))
             /\ ~(id \in DOMAIN y.effects /\ Compare!Failing(y.effects[id]))
    <3>1. p.codes = <<>> /\ q.codes = <<>>
      BY <2>3, RowsReasons DEF Compare!Effect
    <3>2. DOMAIN p.codes = {} BY <3>1
    <3> QED BY <3>1, <3>2, FS_EmptySet
  <2> QED BY <2>1, <2>2, <2>3
<1>3. Bag(Compare!ToBag(p.codes)) BY <1>2, CodesBag
<1> QED BY <1>2, <1>3, NothingLeft DEF Compare!Gained

\* The step with this seq.
LEMMA FoundBySeq ==
    ASSUME NEW steps, OwnSeqs(steps), NEW i \in DOMAIN steps, NEW seq, seq = steps[i].seq
    PROVE  (CHOOSE j \in DOMAIN steps : steps[j].seq = seq) = i
BY DEF OwnSeqs

LEMMA PartsInAgreement ==
    ASSUME RunsInv, Len(runs) >= 2
    PROVE  Compare!PartsAgree
<1> PICK prior, current : prior = Compare!Prior /\ current = Compare!Current OBVIOUS
<1>1. prior \in Seq(StepRows) /\ current \in Seq(StepRows) /\ OwnSeqs(prior) /\ OwnSeqs(current)
  BY BothRuns
<1> PICK p, c : p = Compare!KeyMap(prior).map /\ c = Compare!KeyMap(current).map OBVIOUS
<1>2. /\ \A k \in DOMAIN p : \E i \in DOMAIN prior : p[k] = prior[i]
      /\ \A k \in DOMAIN c : \E i \in DOMAIN current : c[k] = current[i]
  <2>1. DOMAIN prior = 1 .. Len(prior) /\ DOMAIN current = 1 .. Len(current) BY <1>1
  <2>2. /\ Kept(Compare!KeyMap(prior), prior, Len(prior))
        /\ Kept(Compare!KeyMap(current), current, Len(current))
    BY <1>1, KeyMapIs
  <2> QED BY <2>1, <2>2 DEF Kept
<1> PICK bucketA : bucketA = Compare!BucketA(prior, current) OBVIOUS
<1>3. bucketA = {Compare!Entry(key, p, c) : key \in DOMAIN p \cup DOMAIN c}
  BY DEF Compare!BucketA
<1> DEFINE SignatureAt(steps, seq) ==
               Compare!Signature(steps[CHOOSE i \in DOMAIN steps : steps[i].seq = seq])
<1>4. DOMAIN Compare!Unchanged(prior, current) \subseteq Recurring
  <2> SUFFICES ASSUME NEW s \in DOMAIN Compare!Unchanged(prior, current) PROVE s \in Recurring
    OBVIOUS
  <2>1. s \in DOMAIN Compare!Unresolved(prior) /\ s \in DOMAIN Compare!Unresolved(current)
    BY DEF Compare!Unchanged
  <2>2. /\ \E i \in Compare!FailingAt(prior) : s = Compare!Signature(prior[i])
        /\ \E j \in Compare!FailingAt(current) : s = Compare!Signature(current[j])
    BY <2>1 DEF Compare!Unresolved, Compare!Signatures
  <2> QED BY <2>2, Recurs
<1>5. ASSUME NEW e \in bucketA, e.kind = "bothFailing",
             SignatureAt(prior, e.at[1]) = SignatureAt(current, e.at[2])
      PROVE  /\ SignatureAt(current, e.at[2]) \in Recurring
             /\ \A d \in e.effects \cup {e} :
                   d.introduced = Compare!EmptyBag /\ d.resolved = Compare!EmptyBag
  <2>1. PICK key \in DOMAIN p \cup DOMAIN c : e = Compare!Entry(key, p, c) BY <1>3, <1>5
  <2>2. key \in DOMAIN p /\ key \in DOMAIN c BY <1>5, <2>1 DEF Compare!Entry
  <2> PICK x, y : x = p[key] /\ y = c[key] OBVIOUS
  <2>3. /\ e.kind = Compare!Change(x, y) /\ e.at = <<x.seq, y.seq>>
        /\ e.introduced = Compare!Delta(x, y).introduced
        /\ e.resolved = Compare!Delta(x, y).resolved
        /\ e.effects = Compare!Delta(x, y).effects
    BY <2>1, <2>2 DEF Compare!Entry
  <2>4. /\ e.introduced = Compare!Gained(x, y) /\ e.resolved = Compare!Gained(y, x)
        /\ e.effects = Compare!EffectDeltas(x, y)
    BY <1>5, <2>3 DEF Compare!Delta
  <2>5. PICK i \in DOMAIN prior : x = prior[i] BY <1>2, <2>2
  <2>6. PICK j \in DOMAIN current : y = current[j] BY <1>2, <2>2
  <2>7. SignatureAt(prior, e.at[1]) = Compare!Signature(x)
    <3>1. e.at[1] = prior[i].seq BY <2>3, <2>5
    <3>2. (CHOOSE k \in DOMAIN prior : prior[k].seq = e.at[1]) = i
      BY <1>1, <3>1, FoundBySeq
    <3> QED BY <2>5, <3>2
  <2>8. SignatureAt(current, e.at[2]) = Compare!Signature(y)
    <3>1. e.at[2] = current[j].seq BY <2>3, <2>6
    <3>2. (CHOOSE k \in DOMAIN current : current[k].seq = e.at[2]) = j
      BY <1>1, <3>1, FoundBySeq
    <3> QED BY <2>6, <3>2
  <2>9. x \in StepRows /\ y \in StepRows BY <1>1, <2>5, <2>6
  <2>10. Compare!Signature(x) = Compare!Signature(y) BY <1>5, <2>7, <2>8
  <2>11. Compare!Failing(x) /\ Compare!Failing(y) BY <1>5, <2>3, ChangeIs
  <2>12. i \in Compare!FailingAt(prior) /\ j \in Compare!FailingAt(current)
    BY <2>5, <2>6, <2>11 DEF Compare!FailingAt
  <2>13. Compare!Signature(y) \in Recurring BY <2>5, <2>6, <2>10, <2>12, Recurs
  <2>14. e.introduced = Compare!EmptyBag /\ e.resolved = Compare!EmptyBag
    BY <2>4, <2>9, <2>10, SameReasons
  <2>15. ASSUME NEW d \in e.effects
         PROVE  d.introduced = Compare!EmptyBag /\ d.resolved = Compare!EmptyBag
    <3>1. PICK id : /\ d.introduced = Compare!Gained(Compare!Effect(x, id), Compare!Effect(y, id))
                    /\ d.resolved = Compare!Gained(Compare!Effect(y, id), Compare!Effect(x, id))
      BY <2>4, <2>15 DEF Compare!EffectDeltas
    <3> QED BY <2>9, <2>10, <3>1, SameEffect
  <2> HIDE DEF SignatureAt
  <2> QED BY <2>8, <2>13, <2>14, <2>15
<1>6. Compare!Highlighted("introducedFailure", bucketA)
         \cap Compare!Highlighted("resolvedFailure", bucketA) = {}
  <2> SUFFICES ASSUME NEW k \in Compare!Highlighted("introducedFailure", bucketA),
                      k \in Compare!Highlighted("resolvedFailure", bucketA)
               PROVE  FALSE
    OBVIOUS
  <2>1. /\ \E e \in bucketA : e.key = k /\ e.kind = "introducedFailure"
        /\ \E e \in bucketA : e.key = k /\ e.kind = "resolvedFailure"
    BY DEF Compare!Highlighted
  <2>2. \A key : Compare!Entry(key, p, c).key = key BY DEF Compare!Entry
  <2>3. \A e \in bucketA : e = Compare!Entry(e.key, p, c) BY <1>3, <2>2
  <2> QED BY <2>1, <2>3
<1> HIDE DEF SignatureAt
<1> QED BY <1>4, <1>5, <1>6 DEF Compare!PartsAgree, SignatureAt, Recurring

-----------------------------------------------------------------------------
LEMMA RunsInit == Compare!Init => RunsInv
<1> SUFFICES ASSUME Compare!Init PROVE RunsInv OBVIOUS
<1>1. runs = <<<<>>>> BY DEF Compare!Init
<1>2. <<>> \in Seq(StepRows) /\ OwnSeqs(<<>>) BY DEF OwnSeqs
<1> QED BY <1>1, <1>2 DEF RunsInv

LEMMA RunsStep == RunsInv /\ [Compare!Next]_runs => RunsInv'
<1> SUFFICES ASSUME RunsInv, [Compare!Next]_runs PROVE RunsInv' OBVIOUS
<1>1. runs \in Seq(Seq(StepRows)) /\ Len(runs) >= 1 /\ \A r \in DOMAIN runs : OwnSeqs(runs[r])
  BY DEF RunsInv
<1> PICK n \in Nat : n = Len(runs) BY <1>1
<1>2. CASE UNCHANGED runs BY <1>2 DEF RunsInv
<1>3. ASSUME NEW seq \in StepSeqs, NEW key \in StepKeys \cup {NoStepKey},
             NEW o \in StepOutcomes, Compare!AddStep(seq, key, o)
      PROVE  RunsInv'
  <2> PICK last : last = runs[n] OBVIOUS
  <2> PICK step : step = [seq |-> seq, key |-> key, status |-> o.status, codes |-> o.codes,
                          effects |-> o.effects] OBVIOUS
  <2>1. /\ \A i \in DOMAIN last : last[i].seq # seq
        /\ runs' = [runs EXCEPT ![n] = Append(last, step)]
    BY <1>3 DEF Compare!AddStep
  <2>2. step \in StepRows /\ step.seq = seq
    <3> DEFINE p == <<seq, key, o>>
    <3>1. p \in StepSeqs \X (StepKeys \cup {NoStepKey}) \X StepOutcomes OBVIOUS
    <3>2. step = StepRow(p[1], p[2], p[3]) BY DEF StepRow
    <3>3. step \in StepRows
      <4> HIDE DEF p
      <4> QED BY <3>1, <3>2 DEF StepRows
    <3> QED BY <3>3
  <2>3. last \in Seq(StepRows) /\ OwnSeqs(last) BY <1>1
  <2>4. Append(last, step) \in Seq(StepRows) BY <2>2, <2>3
  <2>5. OwnSeqs(Append(last, step))
    <3> PICK m \in Nat : m = Len(last) BY <2>3
    <3> PICK more : more = Append(last, step) OBVIOUS
    <3>1. /\ DOMAIN more = 1 .. m + 1 /\ DOMAIN last = 1 .. m /\ more[m + 1] = step
          /\ \A i \in 1 .. m : more[i] = last[i]
      BY <2>2, <2>3
    <3> QED BY <2>1, <2>2, <2>3, <3>1 DEF OwnSeqs
  <2> PICK more : more = Append(last, step) OBVIOUS
  <2>6. runs' \in Seq(Seq(StepRows)) /\ Len(runs') = n BY <1>1, <2>1, <2>4
  <2>7. DOMAIN runs' = DOMAIN runs /\ \A r \in DOMAIN runs : runs'[r] = IF r = n THEN more ELSE runs[r]
    BY <1>1, <2>1
  <2>8. \A r \in DOMAIN runs' : OwnSeqs(runs'[r]) BY <1>1, <2>5, <2>7
  <2> QED BY <1>1, <2>6, <2>8 DEF RunsInv, OwnSeqs, StepRows
<1>4. CASE Compare!NextRun
  <2>1. runs' = Append(runs, <<>>) BY <1>4 DEF Compare!NextRun
  <2>2. <<>> \in Seq(StepRows) /\ OwnSeqs(<<>>) BY DEF OwnSeqs
  <2>3. runs' \in Seq(Seq(StepRows)) /\ Len(runs') = n + 1 BY <1>1, <2>1, <2>2
  <2>4. /\ DOMAIN runs' = 1 .. n + 1 /\ DOMAIN runs = 1 .. n /\ runs'[n + 1] = <<>>
        /\ \A r \in 1 .. n : runs'[r] = runs[r]
    BY <1>1, <2>1
  <2>5. \A r \in DOMAIN runs' : OwnSeqs(runs'[r]) BY <1>1, <2>2, <2>4
  <2> QED BY <2>3, <2>5 DEF RunsInv, OwnSeqs, StepRows
<1> QED BY <1>2, <1>3, <1>4 DEF Compare!Next

\* No failing step of the current run is lost, the report of the runs in the other order
\* says the opposite, and the parts of a report do not contradict each other: for runs of
\* any number of steps, in any order, with any keys, reasons and effects
\* (buildRunComparisonReport).
THEOREM ReportSafe == Compare!Spec => []ReportIsSound
<1>1. RunsInv => ReportIsSound
  <2>1. ASSUME RunsInv, Len(runs) >= 2 PROVE Compare!FailuresAccounted
    BY <2>1, BothRuns, FailuresReported
  <2>2. ASSUME RunsInv, Len(runs) >= 2 PROVE Compare!PartsAgree
    BY <2>2, PartsInAgreement
  <2> QED BY <2>1, <2>2, ReportMirrored DEF ReportIsSound, Compare!ReportIsSound
<1> QED BY <1>1, RunsInit, RunsStep, PTL DEF Compare!Spec
=============================================================================
