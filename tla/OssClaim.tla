------------------------------ MODULE OssClaim ------------------------------
(***************************************************************************)
(* Linking an anonymous run to an account: one claim_secret, from the      *)
(* command that registers it (src/src/telemetry/postOssClaimTicket.ts)     *)
(* over the link it prints (website/src/lib/runOssClaimHandoffGet.ts) and  *)
(* the pending cookie to POST /api/oss/claim-redeem.                       *)
(*                                                                         *)
(* Each route is one SERIALIZABLE transaction, retried on conflict, so it  *)
(* is one step; what is hard is what lies between: attempts the command    *)
(* gave up on and that arrive later, links opened twice or elsewhere,      *)
(* cookies that expire, caps of the hour that others use up.               *)
(***************************************************************************)
EXTENDS Naturals, Sequences

CONSTANTS Users, Browsers,
          NoUser,
          MaxAttempts,                \* POSTs of one command
          TicketTtl, CookieTtl,       \* 72 h and 15 min
          HourLength,                 \* ticks of an hour of the caps
          TicketCap, OpenCap, BindCap,\* OSS_CLAIM_{TICKET_IP,HANDOFF_IP,REDEEM_USER}_CAP
          MaxNow                      \* bound: ticks that pass

ASSUME OssClaimAssumption ==
    /\ NoUser \notin Users
    /\ {MaxAttempts, TicketTtl, CookieTtl, HourLength} \subseteq Nat \ {0}
    /\ {TicketCap, OpenCap, BindCap, MaxNow} \subseteq Nat

VARIABLES now,
          ticket,               \* the oss_claim_ticket row
          tickets, opens,       \* oss_claim_rate_limit_counter rows of this hour and
          binds,                \*   of the client IP; per user
          cli,                  \* the command that registers the ticket
          late,                 \* its attempts under way that it no longer awaits
          cookie,               \* per browser: exp of the pending cookie, 0 without
          session,              \* per browser: who is signed in
          redeemed,             \* the oss_claim_redeemed events
          minted                \* history: the tokens that were traded for a cookie

caps == <<tickets, opens, binds>>
command == <<cli, late>>
browsers == <<cookie, session>>
vars == <<now, ticket, caps, command, browsers, redeemed, minted>>

\* token 0: the row does not exist.  Tokens are numbered in the order of minting.
NoTicket == [token |-> 0, consumed |-> FALSE, user |-> NoUser, expires |-> 0,
             human |-> FALSE, continued |-> FALSE]

Init ==
    /\ now = 0
    /\ ticket = NoTicket
    /\ tickets = 0 /\ opens = 0 /\ binds = [u \in Users |-> 0]
    /\ cli = [phase |-> "start", attempts |-> 0, printed |-> 0, told |-> "nothing"]
    /\ late = 0
    /\ cookie = [b \in Browsers |-> 0] /\ session = [b \in Browsers |-> NoUser]
    /\ redeemed = <<>> /\ minted = <<>>

Exists == ticket.token # 0
Claimed == ticket.user # NoUser

Expired == ticket.expires < now

-----------------------------------------------------------------------------
(* The clock, and the other clients behind the same address. *)

\* A cookie ends with its Max-Age; the counters of a new hour are new rows.
Tick ==
    /\ now < MaxNow
    /\ now' = now + 1
    /\ cookie' = [b \in Browsers |-> IF cookie[b] < now' THEN 0 ELSE cookie[b]]
    /\ IF now' % HourLength = 0
       THEN tickets' = 0 /\ opens' = 0 /\ binds' = [u \in Users |-> 0]
       ELSE UNCHANGED caps
    /\ UNCHANGED <<ticket, command, session, redeemed, minted>>

\* The last slot of the hour goes to someone else.
OthersUseCap ==
    /\ \/ tickets' = TicketCap /\ UNCHANGED <<opens, binds>>
       \/ opens' = OpenCap /\ UNCHANGED <<tickets, binds>>
       \/ \E u \in Users : binds' = [binds EXCEPT ![u] = BindCap] /\ UNCHANGED <<tickets, opens>>
    /\ UNCHANGED <<now, ticket, command, browsers, redeemed, minted>>

-----------------------------------------------------------------------------
(* POST /api/oss/claim-ticket. *)

\* Mutant: every repeated POST gets a new token.
Reminted_Always ==
    [ticket EXCEPT !.token = @ + 1, !.consumed = FALSE]

\* A repeated POST: the token stays while unused, and is rotated once used.
Reminted ==
    IF ticket.consumed THEN [ticket EXCEPT !.token = @ + 1, !.consumed = FALSE]
    ELSE ticket

\* A repeated POST takes no slot of the hour.
Refused == ~Exists /\ tickets >= TicketCap

\* The transaction and its answer.
PostTicket(code) ==
    \/ /\ Refused /\ code = "RATE_LIMITED"
       /\ UNCHANGED <<ticket, tickets>>
    \/ /\ ~Refused /\ ~Exists /\ code = "HANDOFF_URL"
       /\ \E human \in BOOLEAN :
             ticket' = [token |-> 1, consumed |-> FALSE, user |-> NoUser,
                        expires |-> now + TicketTtl, human |-> human, continued |-> FALSE]
       /\ tickets' = tickets + 1
    \/ /\ ~Refused /\ Exists /\ Claimed /\ code = "NO_CONTENT"
       /\ UNCHANGED <<ticket, tickets>>
    \/ /\ ~Refused /\ Exists /\ ~Claimed /\ code = "HANDOFF_URL"
       /\ ticket' = Reminted
       /\ UNCHANGED tickets

PostCodes == {"RATE_LIMITED", "HANDOFF_URL", "NO_CONTENT"}

-----------------------------------------------------------------------------
(* The command: postOssClaimTicket, maybeEmitOssClaimTicketUrlToStderr. *)

NextAttempt == cli.attempts + 1

\* An attempt, with the same claim_secret as the ones before it.
Attempt ==
    /\ cli.phase \in {"start", "backoff"}
    /\ cli' = [cli EXCEPT !.phase = "await", !.attempts = NextAttempt]
    /\ UNCHANGED <<now, ticket, caps, late, browsers, redeemed, minted>>

LastAttempt == cli.attempts = MaxAttempts

AttemptFailed ==
    cli' = IF LastAttempt THEN [cli EXCEPT !.phase = "done", !.told = "failed"]
           ELSE [cli EXCEPT !.phase = "backoff"]

Told(code) ==
    cli' = CASE code = "HANDOFF_URL" -> [cli EXCEPT !.phase = "done", !.told = "link",
                                                    !.printed = ticket'.token]
             [] code = "NO_CONTENT" -> [cli EXCEPT !.phase = "done", !.told = "claimed"]
             [] code = "RATE_LIMITED" -> [cli EXCEPT !.phase = "done", !.told = "rate limited"]

\* The answer arrives within the 400 ms, or is lost.
Register ==
    /\ cli.phase = "await"
    /\ \E code \in PostCodes :
          /\ PostTicket(code)
          /\ Told(code) \/ AttemptFailed
    /\ UNCHANGED <<now, opens, binds, late, browsers, redeemed, minted>>

\* Nothing was done within the 400 ms: the request is lost, or still under way.
TimeOut ==
    /\ cli.phase = "await"
    /\ AttemptFailed
    /\ late' \in {late, late + 1} \cap (0 .. MaxAttempts)
    /\ UNCHANGED <<now, ticket, caps, browsers, redeemed, minted>>

RegisterLate ==
    /\ late > 0
    /\ late' = late - 1
    /\ \E code \in PostCodes : PostTicket(code)
    /\ UNCHANGED <<now, opens, binds, cli, browsers, redeemed, minted>>

-----------------------------------------------------------------------------
(* GET /verify/link?h=<token>. *)

\* exp of the cookie: the minute before the ticket expires at the latest.
CookieEnd == IF now + CookieTtl < ticket.expires THEN now + CookieTtl ELSE ticket.expires - 1

\* signPendingEnvelopeV1 signs no cookie that is about to end.
Mintable == CookieEnd > now

\* Mutant: a used link opens again.
Usable_Reused(token) == Exists /\ token = ticket.token /\ ~Expired /\ ~Claimed

Usable(token) == Exists /\ token = ticket.token /\ ~Expired /\ ~Claimed /\ ~ticket.consumed

\* The answer sets the cookie of the browser, or is lost with it.
SetCookie(b, exp) == cookie' \in {cookie, [cookie EXCEPT ![b] = exp]}

OpenLink(b, token) ==
    /\ opens < OpenCap /\ opens' = opens + 1
    /\ Usable(token) /\ Mintable
    /\ SetCookie(b, CookieEnd)
    /\ ticket' = [ticket EXCEPT !.consumed = TRUE]
    /\ minted' = Append(minted, token)

\* handoff_used, handoff_invalid: the pending cookie is cleared.  The slot of the
\* hour is spent unless the transaction failed.
OpenDeadLink(b, token) ==
    /\ \/ opens < OpenCap /\ ~(Usable(token) /\ Mintable) /\ opens' = opens + 1
       \/ UNCHANGED opens
    /\ SetCookie(b, 0)
    /\ UNCHANGED <<ticket, minted>>

\* The printed link is opened in some browser.  Beyond the cap (429) nothing changes.
Open(b) ==
    /\ cli.printed # 0
    /\ OpenLink(b, cli.printed) \/ OpenDeadLink(b, cli.printed)
    /\ UNCHANGED <<now, tickets, binds, command, session, redeemed>>

-----------------------------------------------------------------------------
(* POST /api/oss/claim-redeem. *)

\* Sign-in with a magic link, which opens in any browser; it replaces the session.
SignIn(b, u) ==
    /\ session' = [session EXCEPT ![b] = u]
    /\ UNCHANGED <<now, ticket, caps, command, cookie, redeemed, minted>>

\* Mutant: only a claim by the same account is recognised.
OtherAccount_Ignored(u) == FALSE

OtherAccount(u) == Claimed /\ ticket.user # u

RedeemCode(u) ==
    CASE ~Exists -> "CLAIM_FAILED"
      [] Exists /\ Expired -> "CLAIM_EXPIRED"
      [] Exists /\ ~Expired /\ OtherAccount(u) -> "ALREADY_CLAIMED"
      [] Exists /\ ~Expired /\ ~OtherAccount(u) /\ ticket.user = u -> "OK"
      [] OTHER -> IF binds[u] >= BindCap THEN "RATE_LIMITED" ELSE "BOUND"

\* The transaction for account u.
RedeemFor(u) ==
    /\ IF RedeemCode(u) = "BOUND"
       THEN /\ ticket' = [ticket EXCEPT !.user = u]
            /\ binds' = [binds EXCEPT ![u] = @ + 1]
            /\ redeemed' = Append(redeemed, u)
       ELSE UNCHANGED <<ticket, binds, redeemed>>
    /\ UNCHANGED <<now, tickets, opens, command, session, minted>>

\* The /claim page of a signed-in browser.  Every answer clears the cookie; one that
\* is lost leaves it, and the page may ask again.
Redeem(b) ==
    /\ session[b] # NoUser /\ cookie[b] # 0
    /\ SetCookie(b, 0)
    /\ RedeemFor(session[b])

\* A caller that is no browser sends the claim_secret itself.
RedeemBySecret(u) ==
    /\ UNCHANGED cookie
    /\ RedeemFor(u)

\* 503 after a failed transaction, which clears the cookie as well.
RedeemFails(b) ==
    /\ session[b] # NoUser /\ cookie[b] # 0
    /\ cookie' = [cookie EXCEPT ![b] = 0]
    /\ UNCHANGED <<now, ticket, caps, command, session, redeemed, minted>>

-----------------------------------------------------------------------------
\* POST /api/oss/claim-continuation, for a ticket of an interactive command: the
\* first one is recorded.
Continue ==
    /\ Exists /\ ticket.human /\ ~Expired /\ ~ticket.continued
    /\ ticket' = [ticket EXCEPT !.continued = TRUE]
    /\ UNCHANGED <<now, caps, command, browsers, redeemed, minted>>

Command == Attempt \/ Register \/ TimeOut

Claiming ==
    \/ \E b \in Browsers : Open(b) \/ Redeem(b) \/ RedeemFails(b)
    \/ \E u \in Users : RedeemBySecret(u)
    \/ Continue

SignIns == \E b \in Browsers, u \in Users : SignIn(b, u)

Next ==
    \/ Tick
    \/ OthersUseCap
    \/ Command
    \/ RegisterLate
    \/ Claiming
    \/ SignIns

Spec == Init /\ [][Next]_vars
-----------------------------------------------------------------------------
(* Properties. *)

\* A run is bound to one account, once: one oss_claim_redeemed event, of the account
\* the ticket names, however many browsers and accounts redeem it and however often
\* the ticket is registered again.
BoundOnce ==
    redeemed = IF Claimed THEN <<ticket.user>> ELSE <<>>

\* A link is traded for a cookie at most once, through repeated registrations and
\* rotations of the token; and the link a command has printed stays the link of the
\* ticket until it is opened: a late attempt of the same command does not make it stale.
LinkOpensOnce ==
    /\ \A i, j \in DOMAIN minted : minted[i] = minted[j] => i = j
    /\ cli.printed # 0 /\ cli.printed \notin {minted[i] : i \in DOMAIN minted} =>
          ticket.token = cli.printed /\ ~ticket.consumed
=============================================================================
