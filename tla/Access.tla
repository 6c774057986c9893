------------------------------- MODULE Access -------------------------------
(***************************************************************************)
(* Who may write through the trading gateway (trading/auth and the session *)
(* part of trading/httpapi). Sessions are rows of trading_user_session;    *)
(* the OAuth states, the WebSocket tickets and the write limiter live in   *)
(* the gateway's memory and go with it. The deployment has one account,    *)
(* logged in through GitHub or locally. A token is a number; its hashing,  *)
(* its origin and its CSRF twin, which the browser sends along with the    *)
(* cookie it belongs to, are left out.                                     *)
(***************************************************************************)
EXTENDS Naturals, FiniteSets

CONSTANTS MaxLogins,   \* bound: sessions created
          MaxIssued,   \* bound: one-time tokens issued
          WriteLimit   \* Config.WriteLimit, per window

ASSUME AccessAssumption == MaxLogins \in Nat /\ MaxIssued \in Nat /\ WriteLimit \in Nat

VARIABLES cookie,      \* the session token the browser holds; 0: none
          granted,     \* trading_user_session: the tokens of unexpired rows
          logins,      \* sessions created so far
          windows,     \* writeLimiter: key -> writes counted in its window
          tokens,      \* OAuth states and WebSocket tickets outstanding
          stateCookie, \* the OAuth state the browser holds; 0: none
          exchanging,  \* callbacks that wait for GitHub, by their state
          uses,        \* history: how often a token was accepted
          issued

accessVars == <<cookie, granted, logins, windows, tokens, stateCookie, exchanging, uses, issued>>
tokenVars == <<tokens, stateCookie, exchanging, uses, issued>>

Keys == {"account", "local-login"}

AccessInit ==
  /\ cookie = 0
  /\ granted = {}
  /\ logins = 0
  /\ windows = [k \in Keys |-> 0]
  /\ tokens = {}
  /\ stateCookie = 0
  /\ exchanging = {}
  /\ uses = [i \in 1 .. MaxIssued |-> 0]
  /\ issued = 0

\* writeLimiter.allow
Allows(k) == windows[k] < WriteLimit
Counted(k) == windows' = [windows EXCEPT ![k] = @ + 1]

\* createSession: a new row, and its token in the browser's cookie.
CreateSession ==
  /\ logins < MaxLogins
  /\ logins' = logins + 1
  /\ granted' = granted \cup {logins + 1}
  /\ cookie' = logins + 1

\* requireSession of a write that carries `token`: the answers it can end with.
\* "ok" counts against the account's window.
SessionAnswers(token) ==
  {"session_unavailable"} \cup
  CASE token \notin granted -> {"invalid_session"}
    [] token \in granted /\ ~ Allows("account") -> {"rate_limited"}
    [] OTHER -> {"ok"}

LocalLogin ==
  /\ Allows("local-login")
  /\ Counted("local-login")
  /\ CreateSession
  /\ UNCHANGED tokenVars

\* The limiter counted the attempt; the row could not be written.
LocalLoginFails ==
  /\ Allows("local-login")
  /\ Counted("local-login")
  /\ UNCHANGED <<cookie, granted, logins, tokenVars>>

\* logout: the row is deleted and the cookies expire, or nothing changes.
Logout ==
  \E answer \in SessionAnswers(cookie) :
    IF answer = "ok"
    THEN /\ Counted("account")
         /\ \/ granted' = granted \ {cookie} /\ cookie' = 0
            \/ UNCHANGED <<granted, cookie>>
         /\ UNCHANGED <<logins, tokenVars>>
    ELSE UNCHANGED accessVars

SessionExpires ==
  /\ \E t \in granted : granted' = granted \ {t}
  /\ UNCHANGED <<cookie, logins, windows, tokenVars>>

WindowPasses ==
  /\ \E k \in Keys : windows[k] > 0 /\ windows' = [windows EXCEPT ![k] = 0]
  /\ UNCHANGED <<cookie, granted, logins, tokenVars>>

\* OAuthStateManager.Issue, TicketManager.Issue
Issue(kind) ==
  /\ issued < MaxIssued
  /\ issued' = issued + 1
  /\ tokens' = tokens \cup {[kind |-> kind, id |-> issued + 1]}

MutantConsume(kind, id) ==
  /\ [kind |-> kind, id |-> id] \in tokens
  /\ uses' = [uses EXCEPT ![id] = @ + 1]
  /\ UNCHANGED tokens

\* Consume: the token is deleted under the manager's lock by the first to ask.
Consume(kind, id) ==
  /\ [kind |-> kind, id |-> id] \in tokens
  /\ uses' = [uses EXCEPT ![id] = @ + 1]
  /\ tokens' = tokens \ {[kind |-> kind, id |-> id]}

GithubStart ==
  /\ Issue("oauth")
  /\ stateCookie' = issued + 1
  /\ UNCHANGED <<cookie, granted, logins, windows, exchanging, uses>>

\* githubCallback, up to the exchange of the code with GitHub. The browser may
\* ask for the callback again; its state must be the one of the cookie.
GithubCallback ==
  /\ stateCookie # 0
  /\ Consume("oauth", stateCookie)
  /\ exchanging' = exchanging \cup {stateCookie}
  /\ UNCHANGED <<cookie, granted, logins, windows, stateCookie, issued>>

\* GitHub answers with the allowed login and the session is created, or not.
GithubExchanged ==
  \E id \in exchanging :
    /\ exchanging' = exchanging \ {id}
    /\ \/ CreateSession /\ stateCookie' = 0
       \/ UNCHANGED <<cookie, granted, logins, stateCookie>>
    /\ UNCHANGED <<windows, tokens, uses, issued>>

IssueWebSocketTicket ==
  /\ "ok" \in SessionAnswers(cookie)
  /\ Counted("account")
  /\ Issue("ticket")
  /\ UNCHANGED <<cookie, granted, logins, stateCookie, exchanging, uses>>

\* serveWebSocket: the ticket is spent before the upgrade and the subscription,
\* even if these fail.
ServeWebSocket ==
  /\ \E id \in 1 .. issued : Consume("ticket", id)
  /\ UNCHANGED <<cookie, granted, logins, windows, stateCookie, exchanging, issued>>

TokenExpires ==
  /\ \E t \in tokens : tokens' = tokens \ {t}
  /\ UNCHANGED <<cookie, granted, logins, windows, stateCookie, exchanging, uses, issued>>

\* What the gateway kept in memory is gone; the sessions are not.
GatewayRestarts ==
  /\ tokens' = {} /\ exchanging' = {}
  /\ windows' = [k \in Keys |-> 0]
  /\ UNCHANGED <<cookie, granted, logins, stateCookie, uses, issued>>

AccessNext ==
  \/ LocalLogin \/ LocalLoginFails \/ Logout \/ SessionExpires \/ WindowPasses
  \/ GithubStart \/ GithubCallback \/ GithubExchanged
  \/ IssueWebSocketTicket \/ ServeWebSocket \/ TokenExpires \/ GatewayRestarts
-----------------------------------------------------------------------------
AccessTypeOK ==
  /\ cookie \in 0 .. logins
  /\ granted \subseteq 1 .. logins
  /\ windows \in [Keys -> 0 .. WriteLimit]
  /\ exchanging \subseteq 1 .. issued

(* An OAuth state starts at most one exchange and a ticket opens at most one  *)
(* stream, although the browser repeats its requests and the gateway          *)
(* restarts: Consume deletes what it accepts.                                 *)
TokensOnce ==
  /\ \A i \in 1 .. MaxIssued : uses[i] <= 1
  /\ \A i \in exchanging : uses[i] = 1 /\ \A t \in tokens : t.id # i
=============================================================================
