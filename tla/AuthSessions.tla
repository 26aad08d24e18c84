---------------------------- MODULE AuthSessions ----------------------------
(***************************************************************************)
(* The auth service: accounts in PostgreSQL, refresh sessions in Redis,    *)
(* and requests that touch them in several steps with nothing held in      *)
(* between.                                                                *)
(*                                                                         *)
(* A session begins with a register or a login and goes on through its     *)
(* refreshes, each of which deletes the token it was given and stores a    *)
(* new one.  Every visit to PostgreSQL or Redis that writes is a step; a   *)
(* request first decides (parses, looks up, compares), then revokes if it  *)
(* has a token, then issues if it opens or continues a session.  Access    *)
(* tokens are never stored and are left out, as are signatures: a client   *)
(* presents only tokens it was given.                                      *)
(*                                                                         *)
(* The operators named Mutant... are not part of the specification: each   *)
(* is a definition as a plausible mistake would have it, and a property    *)
(* below fails when it takes the real one's place.                         *)
(***************************************************************************)
EXTENDS Naturals, FiniteSets

CONSTANTS
    Emails,        \* normalised e-mail addresses; one account each
    Passwords,     \* passwords that are long enough
    Tokens,        \* refresh token identifiers: each is one uuid
    Requests       \* the HTTP requests the service receives

ASSUME NoneAssumption == "none" \notin Emails \cup Passwords
ASSUME RequestsAssumption == IsFiniteSet(Requests)

VARIABLES
    password,      \* [Emails -> Passwords]: the users table, "none" for no row
    store,         \* [Tokens -> Emails]: the keys in Redis, "none" for no key
    issued,        \* [Tokens -> Issued]: what is known of the tokens issued
    held,          \* the tokens some client was given in a cookie
    over,          \* the tokens whose JWT has expired
    cmd,           \* [Requests -> Commands]
    pc             \* [Requests -> PCs]

vars == <<password, store, issued, held, over, cmd, pc>>

Ops == {"register", "login", "refresh", "logout"}
NoCommand == [op |-> "none"]
Commands == [op : {"register", "login"}, email : Emails, password : Passwords]
                \cup [op : {"refresh", "logout"}, email : Emails, token : Tokens]

(***************************************************************************)
(* by: the request that issued it; session: the first token of the         *)
(* session; opened: the password the session was opened with.  The last    *)
(* two are for the properties only.                                        *)
(***************************************************************************)
NoToken == [email |-> "none"]
Issued == [email : Emails, by : Requests, session : Tokens, opened : Passwords]

PCs == {"idle", "revoking", "issuing", "ok", "refused", "failed"}

TypeOK ==
    /\ password \in [Emails -> Passwords \cup {"none"}]
    /\ store \in [Tokens -> Emails \cup {"none"}]
    /\ issued \in [Tokens -> Issued \cup {NoToken}]
    /\ held \in SUBSET {t \in Tokens : issued[t] # NoToken}
    /\ over \in SUBSET {t \in Tokens : issued[t] # NoToken}
    /\ cmd \in [Requests -> Commands \cup {NoCommand}]
    /\ pc \in [Requests -> PCs]

Init ==
    /\ password = [e \in Emails |-> "none"]
    /\ store = [t \in Tokens |-> "none"]
    /\ issued = [t \in Tokens |-> NoToken]
    /\ held = {}
    /\ over = {}
    /\ cmd = [r \in Requests |-> NoCommand]
    /\ pc = [r \in Requests |-> "idle"]
-----------------------------------------------------------------------------
(***************************************************************************)
(* Receiving a request.                                                    *)
(***************************************************************************)
Receive(r, c, next) ==
    /\ pc[r] = "idle"
    /\ cmd' = [cmd EXCEPT ![r] = c]
    /\ pc' = [pc EXCEPT ![r] = next]
    /\ UNCHANGED <<store, issued, held, over>>

Credentials(op, e, pw) == [op |-> op, email |-> e, password |-> pw]
Cookie(op, t) == [op |-> op, email |-> issued[t].email, token |-> t]

MutantRegisterOverwrites(r, e, pw) ==
    /\ \E next \in {"issuing", "failed"} : Receive(r, Credentials("register", e, pw), next)
    /\ password' = [password EXCEPT ![e] = pw]

(***************************************************************************)
(* The INSERT, which the UNIQUE constraint lets one request do per e-mail. *)
(* It may commit and its answer be lost.                                   *)
(***************************************************************************)
Register(r, e, pw) ==
    /\ password[e] = "none"
    /\ \E next \in {"issuing", "failed"} : Receive(r, Credentials("register", e, pw), next)
    /\ password' = [password EXCEPT ![e] = pw]

Login(r, e, pw) ==
    /\ password[e] = pw
    /\ Receive(r, Credentials("login", e, pw), "issuing")
    /\ UNCHANGED password

\* ParseRefresh, ExistsForUser and FindByID.
Refresh(r, t) ==
    /\ t \in held \ over
    /\ store[t] = issued[t].email
    /\ Receive(r, Cookie("refresh", t), "revoking")
    /\ UNCHANGED password

\* Logout does not ask whether the token is still in Redis.
Logout(r, t) ==
    /\ t \in held \ over
    /\ Receive(r, Cookie("logout", t), "revoking")
    /\ UNCHANGED password

(***************************************************************************)
(* Invalid input, an e-mail in use, wrong credentials, a token that does   *)
(* not parse or is revoked, or a failed read.  (HandleLogout answers 204   *)
(* to a token that does not parse; it changes nothing either.)             *)
(***************************************************************************)
Refuse(r) ==
    /\ Receive(r, NoCommand, "refused")
    /\ UNCHANGED password
-----------------------------------------------------------------------------
Answer(r, a) == pc' = [pc EXCEPT ![r] = a]

MutantRevokeSkipped(r) ==
    /\ pc[r] = "revoking"
    /\ Answer(r, IF cmd[r].op = "refresh" THEN "issuing" ELSE "ok")
    /\ UNCHANGED <<password, store, issued, held, over, cmd>>

\* DEL of the key, there or not; a logout is done then.
Revoke(r) ==
    /\ pc[r] = "revoking"
    /\ store' = [store EXCEPT ![cmd[r].token] = "none"]
    /\ Answer(r, IF cmd[r].op = "refresh" THEN "issuing" ELSE "ok")
    /\ UNCHANGED <<password, issued, held, over, cmd>>

\* Redis returns an error, the key deleted or not.
RevokeFails(r) ==
    /\ pc[r] = "revoking"
    /\ \/ UNCHANGED store
       \/ store' = [store EXCEPT ![cmd[r].token] = "none"]
    /\ Answer(r, "failed")
    /\ UNCHANGED <<password, issued, held, over, cmd>>

\* IssueTokenPair: t is a new uuid, and its JWT names the account.
IssueTokenPair(r, t) ==
    /\ pc[r] = "issuing"
    /\ issued[t] = NoToken
    /\ issued' = [issued EXCEPT ![t] =
          LET c == cmd[r]
              first == c.op # "refresh"
          IN [email |-> c.email, by |-> r,
              session |-> IF first THEN t ELSE issued[c.token].session,
              opened |-> IF first THEN c.password ELSE issued[c.token].opened]]

\* A failed SET is taken for a success.
MutantSaveNotStored(r, t) ==
    /\ IssueTokenPair(r, t)
    /\ held' = held \cup {t}
    /\ Answer(r, "ok")
    /\ UNCHANGED <<password, store, over, cmd>>

\* The cookie carries a token that was never signed.
MutantSaveUnsigned(r, t) ==
    /\ pc[r] = "issuing"
    /\ held' = held \cup {t}
    /\ Answer(r, "ok")
    /\ UNCHANGED <<password, store, issued, over, cmd>>

\* The key is stored and the client has the token in its cookie.
Save(r, t) ==
    /\ IssueTokenPair(r, t)
    /\ store' = [store EXCEPT ![t] = cmd[r].email]
    /\ held' = held \cup {t}
    /\ Answer(r, "ok")
    /\ UNCHANGED <<password, over, cmd>>

MutantSaveAnswerLostAsOk(r, t) ==
    /\ IssueTokenPair(r, t)
    /\ store' = [store EXCEPT ![t] = cmd[r].email]
    /\ Answer(r, "ok")
    /\ UNCHANGED <<password, held, over, cmd>>

\* The key is stored, but the request fails or has been answered 503.
SaveAnswerLost(r, t) ==
    /\ IssueTokenPair(r, t)
    /\ store' = [store EXCEPT ![t] = cmd[r].email]
    /\ Answer(r, "failed")
    /\ UNCHANGED <<password, held, over, cmd>>

\* Redis or the signing fails: the token is lost with the answer.
SaveFails(r) ==
    /\ pc[r] = "issuing"
    /\ Answer(r, "failed")
    /\ UNCHANGED <<password, store, issued, held, over, cmd>>

(***************************************************************************)
(* The JWT expires refreshTTL after it was signed, and the key in Redis    *)
(* refreshTTL after it was set, a little later.                            *)
(***************************************************************************)
Expire(t) ==
    /\ issued[t] # NoToken /\ t \notin over
    /\ over' = over \cup {t}
    /\ UNCHANGED <<password, store, issued, held, cmd, pc>>

EvictKey(t) ==
    /\ t \in over /\ store[t] # "none"
    /\ store' = [store EXCEPT ![t] = "none"]
    /\ UNCHANGED <<password, issued, held, over, cmd, pc>>
-----------------------------------------------------------------------------
Next ==
    \/ \E r \in Requests :
          \/ \E e \in Emails, pw \in Passwords : Register(r, e, pw) \/ Login(r, e, pw)
          \/ \E t \in Tokens : \/ Refresh(r, t) \/ Logout(r, t)
                               \/ Save(r, t) \/ SaveAnswerLost(r, t)
          \/ Refuse(r)
          \/ Revoke(r)
          \/ RevokeFails(r)
          \/ SaveFails(r)
    \/ \E t \in Tokens : Expire(t) \/ EvictKey(t)

Spec == Init /\ [][Next]_vars
-----------------------------------------------------------------------------
Live == {t \in Tokens : store[t] # "none"}

(***************************************************************************)
(* Every live session belongs to the account its JWT names and was opened  *)
(* with the password of that account, through any number of refreshes and  *)
(* of registrations of one e-mail at the same time.                        *)
(***************************************************************************)
SessionsAreEarned ==
    \A t \in Live :
        /\ store[t] = issued[t].email
        /\ issued[t].opened = password[store[t]]

(***************************************************************************)
(* Sessions do not vanish: a token a client was given is in Redis until it *)
(* expires or a refresh or logout that presented it gets past its checks.  *)
(***************************************************************************)
NoSessionLost ==
    \A t \in held \ Live :
        \/ t \in over
        \/ \E r \in Requests :
              /\ cmd[r] # NoCommand /\ cmd[r].op \in {"refresh", "logout"}
              /\ cmd[r].token = t /\ pc[r] # "revoking"

(***************************************************************************)
(* Sessions do not linger unseen: a live token that no client holds was    *)
(* issued to a request that was answered with an error.                    *)
(***************************************************************************)
OrphansWereReported ==
    \A t \in Live \ held : pc[issued[t].by] = "failed"

(***************************************************************************)
(* A refresh replaces its token.  A session has two live tokens only if    *)
(* two refreshes found the same token in Redis, that is, only if they      *)
(* overlapped; nothing that fails in a refresh leaves its token next to    *)
(* the new one.                                                            *)
(***************************************************************************)
Refreshes(t) == {r \in Requests : cmd[r] # NoCommand /\ cmd[r].op = "refresh" /\ cmd[r].token = t}

SessionsForkByOverlap ==
    \A t, u \in Live :
        t # u /\ issued[t].session = issued[u].session =>
            \E w \in Tokens :
                /\ Cardinality(Refreshes(w)) >= 2
                /\ issued[w].session = issued[t].session
=============================================================================
