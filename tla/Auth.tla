-------------------------------- MODULE Auth --------------------------------
(***************************************************************************)
(* The Microsoft account (auth/): the stored token, its refresh, the       *)
(* device-code login, and the exchange through Xbox Live that both end     *)
(* with, for several yammm processes that share one auth.json.             *)
(*                                                                         *)
(* The server may rotate the refresh token whenever it is used.  An answer *)
(* can be lost after the server has acted on the request.                  *)
(***************************************************************************)
EXTENDS Integers, FiniteSets

CONSTANTS
  Clients,
  MaxTokens,    \* refresh tokens are numbered as the server issues them
  MaxAttempts,  \* AUTH_RETRY_CONFIG.max_retries + 1
  Lifetime,     \* of a device code, in units of the first poll interval
  MaxInterval,  \* bump_poll_interval's cap, in the same unit
  MaxLogins, MaxAuthKills

ASSUME AuthAssumption ==
  /\ IsFiniteSet(Clients)
  /\ {MaxTokens, MaxAttempts, Lifetime, MaxInterval} \subseteq Nat \ {0}
  /\ {MaxLogins, MaxAuthKills} \subseteq Nat

NoToken == 0

VARIABLES
  stage,    \* what each process is doing
  stored,   \* auth.json: [refresh |-> token or NoToken, expired |-> BOOLEAN]
  policy,   \* what the server does with a refresh token that is used
  live,     \* the refresh tokens the server accepts
  issued,   \* how many it has issued
  old,      \* the refresh token a process loaded
  held,     \* the one it is to save
  tries,    \* attempts of the request it is sending
  poll,     \* its device code: [left, interval]
  lost,     \* history: tokens that were retired and whose successor was lost
  authCommands, authKills

server == <<policy, live, issued>>
client == <<old, held, tries, poll>>
authBounds == <<authCommands, authKills>>
authVars == <<stage, stored, server, client, lost, authBounds>>

NoPoll == [left |-> 0, interval |-> 0]

AuthInit ==
  /\ stage = [p \in Clients |-> "idle"]
  /\ policy \in {"same", "keep", "retire"}
  /\ stored \in [refresh : {NoToken, 1}, expired : BOOLEAN]
  /\ (stored.refresh = NoToken => ~stored.expired)
  /\ live = {1} /\ issued = 1
  /\ old = [p \in Clients |-> NoToken]
  /\ held = [p \in Clients |-> NoToken]
  /\ tries = [p \in Clients |-> 0]
  /\ poll = [p \in Clients |-> NoPoll]
  /\ lost = {}
  /\ authCommands = 0 /\ authKills = 0

\* The steps of exchange_tokens, each one request.
Chain == {"xbl", "xsts", "mc", "profile"}

Refreshing(p) == old[p] # NoToken /\ stage[p] \in Chain \cup {"refresh", "save"}

Enter(p, step) == stage' = [stage EXCEPT ![p] = step]

\* What p holds is gone.  If the server retired the token it came from, the
\* file is left with one that is not accepted.
Forget(p) ==
  /\ old' = [old EXCEPT ![p] = NoToken]
  /\ held' = [held EXCEPT ![p] = NoToken]
  /\ tries' = [tries EXCEPT ![p] = 0]
  /\ poll' = [poll EXCEPT ![p] = NoPoll]
  /\ lost' = IF Refreshing(p) /\ old[p] \notin live THEN lost \cup {old[p]} ELSE lost

----------------------------------------------------------------------------
\* get_valid_token: the stored token if it is valid, a login if there is none.
Load(p) ==
  /\ stage[p] = "load"
  /\ \/ stored.refresh = NoToken /\ Enter(p, "device") /\ UNCHANGED <<old, tries>>
     \/ stored.refresh # NoToken /\ ~stored.expired /\ Enter(p, "ready") /\ UNCHANGED <<old, tries>>
     \/ Enter(p, "failed") /\ UNCHANGED <<old, tries>>      \* unreadable
     \/ /\ stored.refresh # NoToken /\ stored.expired
        /\ Enter(p, "refresh")
        /\ old' = [old EXCEPT ![p] = stored.refresh]
        /\ tries' = [tries EXCEPT ![p] = 1]
  /\ UNCHANGED <<stored, server, held, poll, lost, authBounds>>

\* The server's side of a refresh: the answer carries no refresh token, a new
\* one beside the old one, or a new one that replaces it.
Serve(p) ==
  /\ old[p] \in live
  /\ IF policy = "same" THEN UNCHANGED <<live, issued>>
     ELSE /\ issued < MaxTokens /\ issued' = issued + 1
          /\ live' = (IF policy = "retire" THEN live \ {old[p]} ELSE live) \cup {issued'}
  /\ UNCHANGED policy

\* Mistake: the refresh token of the answer is not looked at.
RefreshOkKeepsOld(p) ==
  /\ stage[p] = "refresh" /\ tries[p] <= MaxAttempts
  /\ Serve(p)
  /\ held' = [held EXCEPT ![p] = old[p]]
  /\ Enter(p, "xbl")
  /\ UNCHANGED <<stored, old, tries, poll, lost, authBounds>>

\* refresh_access_token: the new refresh token, or the old one if there is none.
RefreshOk(p) ==
  /\ stage[p] = "refresh" /\ tries[p] <= MaxAttempts
  /\ Serve(p)
  /\ held' = [held EXCEPT ![p] = IF policy = "same" THEN old[p] ELSE issued']
  /\ Enter(p, "xbl")
  /\ UNCHANGED <<stored, old, tries, poll, lost, authBounds>>

\* No answer comes, before or after the server acted: send_retried_request
\* sends the same token again, up to its last attempt.
RefreshLost(p) ==
  /\ stage[p] = "refresh" /\ tries[p] <= MaxAttempts
  /\ tries' = [tries EXCEPT ![p] = @ + 1]
  /\ Serve(p) \/ UNCHANGED server
  /\ UNCHANGED <<stage, stored, old, held, poll, lost, authBounds>>

\* The last attempt is over, or the answer is an error or cannot be read: a
\* login if stdin is a terminal, else the end.
RefreshFails(p) ==
  /\ stage[p] = "refresh"
  /\ \E next \in {"device", "failed"} : Enter(p, next)
  /\ Forget(p)
  /\ UNCHANGED <<stored, server, authBounds>>

\* device_code_flow: a code to enter elsewhere,
RequestDeviceCode(p) ==
  /\ stage[p] = "device"
  /\ \/ /\ Enter(p, "poll")
        /\ poll' = [poll EXCEPT ![p] = [left |-> Lifetime, interval |-> 1]]
     \/ Enter(p, "failed") /\ UNCHANGED poll
  /\ UNCHANGED <<stored, server, old, held, tries, lost, authBounds>>

\* and a poll after every interval until the code's lifetime is over.
BumpPollInterval(interval) == IF interval < MaxInterval THEN interval + 1 ELSE MaxInterval

\* Mistake: a code that has expired is replaced by a new one.
PollTimesOutAnew(p) ==
  /\ stage[p] = "poll" /\ poll[p].left < poll[p].interval
  /\ Enter(p, "device")
  /\ poll' = [poll EXCEPT ![p] = NoPoll]
  /\ UNCHANGED <<stored, server, old, held, tries, lost, authBounds>>

PollTimesOut(p) ==
  /\ stage[p] = "poll" /\ poll[p].left < poll[p].interval
  /\ Enter(p, "failed")
  /\ poll' = [poll EXCEPT ![p] = NoPoll]
  /\ UNCHANGED <<stored, server, old, held, tries, lost, authBounds>>

PollAgain(p) ==
  /\ stage[p] = "poll" /\ poll[p].left >= poll[p].interval
  /\ \E interval \in {poll[p].interval, BumpPollInterval(poll[p].interval)} :
       poll' = [poll EXCEPT ![p] = [left |-> @.left - @.interval, interval |-> interval]]
  /\ UNCHANGED <<stage, stored, server, old, held, tries, lost, authBounds>>

\* The code has expired, the user declines, a request fails, or the answer
\* has no refresh token.
PollFails(p) ==
  /\ stage[p] = "poll" /\ poll[p].left >= poll[p].interval
  /\ Enter(p, "failed")
  /\ poll' = [poll EXCEPT ![p] = NoPoll]
  /\ UNCHANGED <<stored, server, old, held, tries, lost, authBounds>>

Authorized(p) ==
  /\ stage[p] = "poll" /\ poll[p].left >= poll[p].interval
  /\ issued < MaxTokens /\ issued' = issued + 1
  /\ live' = live \cup {issued'}
  /\ held' = [held EXCEPT ![p] = issued']
  /\ Enter(p, "xbl")
  /\ poll' = [poll EXCEPT ![p] = NoPoll]
  /\ UNCHANGED <<stored, policy, old, tries, lost, authBounds>>

\* exchange_tokens; a failure ends the command, and the new refresh token is
\* dropped.
Exchange(p, step, next) ==
  /\ stage[p] = step
  /\ \/ Enter(p, next) /\ UNCHANGED <<client, lost>>
     \/ Enter(p, "failed") /\ Forget(p)
  /\ UNCHANGED <<stored, server, authBounds>>

\* It fails too if there is no user hash, if the second differs from the first,
\* or if the account does not own the game.
AuthenticateXbl(p) == Exchange(p, "xbl", "xsts")
AuthenticateXsts(p) == Exchange(p, "xsts", "mc")
LoginWithXbox(p) == Exchange(p, "mc", "profile")
GetProfile(p) == Exchange(p, "profile", "save")

\* save_token, an atomic write (module AtomicWrite).
SaveToken(p) ==
  /\ stage[p] = "save"
  /\ \/ /\ stored' = [refresh |-> held[p], expired |-> FALSE]
        /\ old' = [old EXCEPT ![p] = NoToken]
        /\ held' = [held EXCEPT ![p] = NoToken]
        /\ tries' = [tries EXCEPT ![p] = 0]
        /\ Enter(p, "ready")
        /\ UNCHANGED <<poll, lost>>
     \/ Enter(p, "failed") /\ Forget(p) /\ UNCHANGED stored
  /\ UNCHANGED <<server, authBounds>>

\* auth logout.
DeleteToken(p) ==
  /\ stage[p] = "logout"
  /\ \/ stored' = [refresh |-> NoToken, expired |-> FALSE] /\ Enter(p, "ready")
     \/ Enter(p, "failed") /\ UNCHANGED stored
  /\ UNCHANGED <<server, client, lost, authBounds>>

\* is_expired, sixty seconds early.
Expire ==
  /\ stored.refresh # NoToken /\ ~stored.expired
  /\ stored' = [stored EXCEPT !.expired = TRUE]
  /\ UNCHANGED <<stage, server, client, lost, authBounds>>

----------------------------------------------------------------------------
\* A launch needs a token, or the user runs auth login or auth logout.
AuthStart(p) ==
  /\ stage[p] \in {"idle", "ready", "failed"}
  /\ authCommands < MaxLogins /\ authCommands' = authCommands + 1
  /\ \E step \in {"load", "device", "logout"} : Enter(p, step)
  /\ UNCHANGED <<stored, server, client, lost, authKills>>

AuthKill(p) ==
  /\ stage[p] \notin {"idle", "ready", "failed"}
  /\ authKills < MaxAuthKills /\ authKills' = authKills + 1
  /\ Enter(p, "idle")
  /\ Forget(p)
  /\ UNCHANGED <<stored, server, authCommands>>

AuthStep(p) ==
  \/ Load(p) \/ RefreshOk(p) \/ RefreshLost(p) \/ RefreshFails(p)
  \/ RequestDeviceCode(p) \/ PollTimesOut(p) \/ PollAgain(p) \/ PollFails(p) \/ Authorized(p)
  \/ AuthenticateXbl(p) \/ AuthenticateXsts(p) \/ LoginWithXbox(p) \/ GetProfile(p)
  \/ SaveToken(p) \/ DeleteToken(p)

AuthNext == Expire \/ \E p \in Clients : AuthStart(p) \/ AuthStep(p) \/ AuthKill(p)

\* A command that runs goes on: every request ends, by an answer or by the
\* client's timeout.
AuthFairness == \A p \in Clients : WF_authVars(AuthStep(p))

AuthSpec == AuthInit /\ [][AuthNext]_authVars /\ AuthFairness

Steps == {"idle", "ready", "failed", "load", "refresh", "device", "poll", "save", "logout"} \cup Chain

----------------------------------------------------------------------------
AuthTypeOK ==
  /\ stage \in [Clients -> Steps]
  /\ policy \in {"same", "keep", "retire"}
  /\ stored \in [refresh : 0 .. issued, expired : BOOLEAN]
  /\ issued \in 1 .. MaxTokens /\ live \subseteq 1 .. issued /\ lost \subseteq 1 .. issued
  /\ old \in [Clients -> 0 .. issued] /\ held \in [Clients -> 0 .. issued]
  /\ tries \in [Clients -> 0 .. MaxAttempts + 1]
  /\ poll \in [Clients -> [left : 0 .. Lifetime, interval : 0 .. MaxInterval]]
  /\ authCommands \in 0 .. MaxLogins /\ authKills \in 0 .. MaxAuthKills

\* get_valid_token, refresh_access_token: the stored refresh token is one the
\* server accepts, unless a process is on its way from the refresh that
\* retired it to the save of its successor, or lost the successor on that way
\* (no answer, a failed exchange or save, a kill), whatever several processes
\* and a logout do.
TokenKept ==
  stored.refresh # NoToken /\ stored.refresh \notin live =>
    \/ stored.refresh \in lost
    \/ \E p \in Clients : Refreshing(p) /\ old[p] = stored.refresh

\* A command that has begun ends: a request is retried a bounded number of times,
\* and the polling stops when the code expires, whatever the server answers.
LoginEnds == \A p \in Clients : stage[p] \in {"load", "device"} ~> stage[p] \in {"idle", "ready", "failed"}
=============================================================================
