------------------------- MODULE AuthSessions_proofs -------------------------
(***************************************************************************)
(* Proofs about the sessions of the auth service for every number of       *)
(* accounts, tokens and requests, and every overlap of the requests.       *)
(***************************************************************************)
EXTENDS AuthSessions, FiniteSetTheorems, TLAPS

(***************************************************************************)
(* What a request under way knows.  The password a login compared with or  *)
(* a registration stored is still the one of the account when the token is *)
(* issued, since no step overwrites a password; the token a refresh or a   *)
(* logout presents was issued, for the account the command names.          *)
(***************************************************************************)
ByToken(r) == cmd[r] # NoCommand /\ cmd[r].op \in {"refresh", "logout"}

CommandsCarry ==
    \A r \in Requests :
        /\ pc[r] = "idle" => cmd[r] = NoCommand
        /\ pc[r] = "issuing" => cmd[r] # NoCommand /\ cmd[r].op \in {"register", "login", "refresh"}
        /\ pc[r] = "revoking" => ByToken(r)
        /\ cmd[r] # NoCommand /\ cmd[r].op \in {"register", "login"} =>
              password[cmd[r].email] = cmd[r].password
        /\ ByToken(r) => /\ issued[cmd[r].token] # NoToken
                         /\ cmd[r].email = issued[cmd[r].token].email

\* Every token ever issued was opened with the password of its account.
TokensEarned ==
    \A t \in Tokens : issued[t] # NoToken => issued[t].opened = password[issued[t].email]

\* Redis holds issued tokens only, each under the account its JWT names.
KeysIssued ==
    \A t \in Tokens : store[t] # "none" => issued[t] # NoToken /\ store[t] = issued[t].email

SessionsInv == TypeOK /\ CommandsCarry /\ TokensEarned /\ KeysIssued

----------------------------------------------------------------------------
(***************************************************************************)
(* The shape of commands and tokens.                                       *)
(***************************************************************************)
LEMMA CommandShapes ==
    /\ \A c \in Commands : c # NoCommand /\ c.op \in Ops /\ c.email \in Emails
    /\ \A c \in Commands : c.op \in {"register", "login"} => c.password \in Passwords
    /\ \A c \in Commands : c.op \in {"refresh", "logout"} => c.token \in Tokens
    /\ \A i \in Issued : i # NoToken
<1>1. \A c \in Commands : c.op \in Ops /\ c.email \in Emails
  BY DEF Commands, Ops
<1>2. NoCommand.op = "none"
  BY DEF NoCommand
<1>3. \A i \in Issued : i.email \in Emails
  BY DEF Issued
<1>4. NoToken.email = "none"
  BY DEF NoToken
<1>5. /\ \A c \in Commands : c.op \in {"register", "login"} => c.password \in Passwords
      /\ \A c \in Commands : c.op \in {"refresh", "logout"} => c.token \in Tokens
  BY DEF Commands
<1> QED BY <1>1, <1>2, <1>3, <1>4, <1>5, NoneAssumption DEF Ops
----------------------------------------------------------------------------
(***************************************************************************)
(* SessionsInv is inductive: one lemma per kind of step.                   *)
(***************************************************************************)
LEMMA InitSessionsInv == Init => SessionsInv
BY NoneAssumption
   DEF Init, SessionsInv, TypeOK, CommandsCarry, TokensEarned, KeysIssued, ByToken, PCs, NoToken

\* A registration, a login, or a request refused at once.
Credential(r) ==
    Refuse(r) \/ \E e \in Emails, pw \in Passwords : Register(r, e, pw) \/ Login(r, e, pw)

LEMMA CredentialCases ==
    ASSUME NEW r \in Requests, Credential(r)
    PROVE  \E c \in Commands \cup {NoCommand}, next \in {"issuing", "failed", "refused"} :
             /\ Receive(r, c, next)
             /\ c = NoCommand => next = "refused" /\ UNCHANGED password
             /\ c # NoCommand => /\ c.op \in {"register", "login"}
                                 /\ \/ password[c.email] = c.password /\ UNCHANGED password
                                    \/ /\ password[c.email] = "none"
                                       /\ password' = [password EXCEPT ![c.email] = c.password]
<1>1. CASE Refuse(r)
  BY <1>1 DEF Refuse
<1>2. ASSUME NEW e \in Emails, NEW pw \in Passwords, NEW op \in {"register", "login"}
      PROVE  /\ Credentials(op, e, pw) \in Commands
             /\ Credentials(op, e, pw).op = op
             /\ Credentials(op, e, pw).email = e
             /\ Credentials(op, e, pw).password = pw
  BY DEF Credentials, Commands
<1>3. ASSUME NEW e \in Emails, NEW pw \in Passwords, Register(r, e, pw)
      PROVE  \E next \in {"issuing", "failed", "refused"} :
               /\ Receive(r, Credentials("register", e, pw), next)
               /\ password[e] = "none"
               /\ password' = [password EXCEPT ![e] = pw]
  BY <1>3 DEF Register
<1>4. ASSUME NEW e \in Emails, NEW pw \in Passwords, Login(r, e, pw)
      PROVE  /\ Receive(r, Credentials("login", e, pw), "issuing")
             /\ password[e] = pw /\ UNCHANGED password
  BY <1>4 DEF Login
<1> QED BY <1>1, <1>2, <1>3, <1>4, CommandShapes DEF Credential

LEMMA CredentialsKeepSessionsInv ==
    ASSUME SessionsInv, NEW r \in Requests, Credential(r)
    PROVE  SessionsInv'
<1> USE DEF SessionsInv
<1>1. PICK c \in Commands \cup {NoCommand}, next \in {"issuing", "failed", "refused"} :
        /\ Receive(r, c, next)
        /\ c = NoCommand => next = "refused" /\ UNCHANGED password
        /\ c # NoCommand => /\ c.op \in {"register", "login"}
                            /\ \/ password[c.email] = c.password /\ UNCHANGED password
                               \/ /\ password[c.email] = "none"
                                  /\ password' = [password EXCEPT ![c.email] = c.password]
  BY CredentialCases
<1>2. /\ pc[r] = "idle" /\ cmd[r] = NoCommand
      /\ cmd' = [cmd EXCEPT ![r] = c] /\ pc' = [pc EXCEPT ![r] = next]
      /\ UNCHANGED <<store, issued, held, over>>
  BY <1>1 DEF Receive, CommandsCarry
<1>3. c # NoCommand => c.email \in Emails /\ c.password \in Passwords /\ c.op \in {"register", "login"}
  BY <1>1, CommandShapes
<1>4. \A e \in Emails : password[e] # "none" => password'[e] = password[e]
  BY <1>1, <1>3 DEF TypeOK
<1>5. TypeOK'
  <2>1. password' \in [Emails -> Passwords \cup {"none"}]
    BY <1>1, <1>3 DEF TypeOK
  <2>2. pc' \in [Requests -> PCs]
    BY <1>2 DEF TypeOK, PCs
  <2> QED BY <1>2, <2>1, <2>2 DEF TypeOK
<1>6. CommandsCarry'
  <2> SUFFICES ASSUME NEW q \in Requests
               PROVE  /\ pc'[q] = "idle" => cmd'[q] = NoCommand
                      /\ pc'[q] = "issuing" => /\ cmd'[q] # NoCommand
                                               /\ cmd'[q].op \in {"register", "login", "refresh"}
                      /\ pc'[q] = "revoking" => ByToken(q)'
                      /\ cmd'[q] # NoCommand /\ cmd'[q].op \in {"register", "login"} =>
                            password'[cmd'[q].email] = cmd'[q].password
                      /\ ByToken(q)' => /\ issued[cmd'[q].token] # NoToken
                                        /\ cmd'[q].email = issued[cmd'[q].token].email
    BY <1>2 DEF CommandsCarry
  <2>1. CASE q = r
    <3>1. cmd'[q] = c /\ pc'[q] = next
      BY <1>2, <2>1 DEF TypeOK
    <3>2. c # NoCommand => password'[c.email] = c.password
      BY <1>1, <1>3 DEF TypeOK
    <3> QED BY <1>1, <1>3, <3>1, <3>2 DEF ByToken
  <2>2. CASE q # r
    <3>1. cmd'[q] = cmd[q] /\ pc'[q] = pc[q]
      BY <1>2, <2>2 DEF TypeOK
    <3>2. cmd[q] # NoCommand /\ cmd[q].op \in {"register", "login"} =>
            password'[cmd[q].email] = cmd[q].password
      BY <1>4, CommandShapes, NoneAssumption DEF CommandsCarry, TypeOK
    <3> QED BY <3>1, <3>2 DEF CommandsCarry, ByToken
  <2> QED BY <2>1, <2>2
<1>7. TokensEarned'
  <2> SUFFICES ASSUME NEW t \in Tokens, issued[t] # NoToken
               PROVE  issued[t].opened = password'[issued[t].email]
    BY <1>2 DEF TokensEarned
  <2>1. issued[t].email \in Emails /\ issued[t].opened \in Passwords
    BY DEF TypeOK, Issued
  <2> QED BY <1>4, <2>1, NoneAssumption DEF TokensEarned
<1>8. KeysIssued'
  BY <1>2 DEF KeysIssued
<1> QED BY <1>5, <1>6, <1>7, <1>8

\* A refresh or a logout that got past its checks.
LEMMA CookieKeepsSessionsInv ==
    ASSUME SessionsInv, NEW r \in Requests, NEW t \in Tokens, Refresh(r, t) \/ Logout(r, t)
    PROVE  SessionsInv'
<1> USE DEF SessionsInv
<1>1. PICK op \in {"refresh", "logout"} : Receive(r, Cookie(op, t), "revoking")
  BY DEF Refresh, Logout
<1>2. t \in held /\ issued[t] # NoToken /\ issued[t] \in Issued
  BY DEF Refresh, Logout, TypeOK
<1>3. /\ Cookie(op, t) \in Commands
      /\ Cookie(op, t).op = op /\ Cookie(op, t).token = t
      /\ Cookie(op, t).email = issued[t].email
  BY <1>2 DEF Cookie, Commands, Issued
<1>4. /\ pc[r] = "idle"
      /\ cmd' = [cmd EXCEPT ![r] = Cookie(op, t)] /\ pc' = [pc EXCEPT ![r] = "revoking"]
      /\ UNCHANGED <<password, store, issued, held, over>>
  BY <1>1 DEF Receive, Refresh, Logout
<1>5. TypeOK'
  BY <1>3, <1>4 DEF TypeOK, PCs
<1>6. CommandsCarry'
  BY <1>2, <1>3, <1>4, CommandShapes DEF CommandsCarry, ByToken, TypeOK
<1>7. TokensEarned' /\ KeysIssued'
  BY <1>4 DEF TokensEarned, KeysIssued
<1> QED BY <1>5, <1>6, <1>7

\* A step that deletes at most one key and issues nothing.
LEMMA DeletionKeepsSessionsInv ==
    ASSUME SessionsInv,
           \/ UNCHANGED store
           \/ \E t \in Tokens : store' = [store EXCEPT ![t] = "none"],
           over' \in SUBSET {t \in Tokens : issued[t] # NoToken},
           \/ UNCHANGED pc
           \/ \E r \in Requests, a \in {"issuing", "ok", "failed"} :
                 /\ pc[r] # "idle" /\ pc' = [pc EXCEPT ![r] = a]
                 /\ a = "issuing" => cmd[r].op = "refresh" /\ pc[r] = "revoking",
           UNCHANGED <<password, issued, held, cmd>>
    PROVE  SessionsInv'
<1> USE DEF SessionsInv
<1>1. TypeOK'
  BY DEF TypeOK, PCs
<1>2. CommandsCarry'
  BY DEF CommandsCarry, ByToken, TypeOK
<1>3. TokensEarned' /\ KeysIssued'
  BY DEF TokensEarned, KeysIssued, TypeOK
<1> QED BY <1>1, <1>2, <1>3

\* The token that IssueTokenPair creates, and whose it is.
LEMMA IssuedToken ==
    ASSUME SessionsInv, NEW r \in Requests, NEW t \in Tokens, IssueTokenPair(r, t)
    PROVE  /\ pc[r] = "issuing" /\ issued[t] = NoToken
           /\ cmd[r] # NoCommand /\ cmd[r].email \in Emails
           /\ issued' \in [Tokens -> Issued \cup {NoToken}]
           /\ issued'[t] \in Issued
           /\ issued'[t].email = cmd[r].email /\ issued'[t].by = r
           /\ issued'[t].opened = password[cmd[r].email]
           /\ cmd[r].op # "refresh" => issued'[t].session = t
           /\ cmd[r].op = "refresh" => issued'[t].session = issued[cmd[r].token].session
           /\ \A u \in Tokens : u # t => issued'[u] = issued[u]
<1> DEFINE c == cmd[r]
           first == c.op # "refresh"
           new == [email |-> c.email, by |-> r,
                   session |-> IF first THEN t ELSE issued[c.token].session,
                   opened |-> IF first THEN c.password ELSE issued[c.token].opened]
<1>1. /\ pc[r] = "issuing" /\ issued[t] = NoToken
      /\ issued' = [issued EXCEPT ![t] = new]
  BY DEF IssueTokenPair
<1>2. /\ c \in Commands /\ c # NoCommand /\ c.op \in {"register", "login", "refresh"}
      /\ c.email \in Emails
  BY <1>1, CommandShapes DEF SessionsInv, CommandsCarry, TypeOK
<1>3. CASE first
  <2>1. c.password \in Passwords /\ c.password = password[c.email]
    BY <1>2, <1>3, CommandShapes DEF SessionsInv, CommandsCarry
  <2>2. new \in Issued
    BY <1>2, <1>3, <2>1 DEF Issued
  <2> QED BY <1>1, <1>2, <1>3, <2>1, <2>2 DEF SessionsInv, TypeOK
<1>4. CASE ~first
  <2>1. /\ c.token \in Tokens /\ issued[c.token] # NoToken
        /\ c.email = issued[c.token].email
    BY <1>2, <1>4, CommandShapes DEF SessionsInv, CommandsCarry, ByToken
  <2>2. issued[c.token] \in Issued /\ issued[c.token].opened = password[c.email]
    BY <2>1 DEF SessionsInv, TypeOK, TokensEarned
  <2>3. new \in Issued
    BY <1>2, <1>4, <2>2 DEF Issued
  <2> QED BY <1>1, <1>2, <1>4, <2>2, <2>3 DEF SessionsInv, TypeOK
<1> QED BY <1>3, <1>4

LEMMA IssueKeepsSessionsInv ==
    ASSUME SessionsInv, NEW r \in Requests, NEW t \in Tokens, Save(r, t) \/ SaveAnswerLost(r, t)
    PROVE  SessionsInv'
<1> USE DEF SessionsInv
<1>1. /\ IssueTokenPair(r, t)
      /\ store' = [store EXCEPT ![t] = cmd[r].email]
      /\ held' \in {held, held \cup {t}}
      /\ \E a \in {"ok", "failed"} : pc' = [pc EXCEPT ![r] = a]
      /\ UNCHANGED <<password, over, cmd>>
  BY DEF Save, SaveAnswerLost, Answer
<1>2. /\ issued[t] = NoToken
      /\ cmd[r].email \in Emails
      /\ issued' \in [Tokens -> Issued \cup {NoToken}]
      /\ issued'[t] \in Issued /\ issued'[t] # NoToken
      /\ issued'[t].email = cmd[r].email
      /\ issued'[t].opened = password[cmd[r].email]
      /\ \A u \in Tokens : u # t => issued'[u] = issued[u]
  BY <1>1, IssuedToken, CommandShapes
<1>3. TypeOK'
  <2>1. store' \in [Tokens -> Emails \cup {"none"}] /\ pc' \in [Requests -> PCs]
    BY <1>1, <1>2 DEF TypeOK, PCs
  <2>2. \A u \in Tokens : issued[u] # NoToken => issued'[u] # NoToken
    BY <1>2
  <2>3. /\ held' \in SUBSET {u \in Tokens : issued'[u] # NoToken}
        /\ over' \in SUBSET {u \in Tokens : issued'[u] # NoToken}
    BY <1>1, <1>2, <2>2 DEF TypeOK
  <2> QED BY <1>1, <1>2, <2>1, <2>3 DEF TypeOK
<1>4. CommandsCarry'
  <2>1. \A q \in Requests : ByToken(q) => cmd[q].token \in Tokens /\ cmd[q].token # t
    BY <1>2, CommandShapes DEF CommandsCarry, ByToken, TypeOK
  <2> QED BY <1>1, <1>2, <2>1 DEF CommandsCarry, ByToken, TypeOK
<1>5. TokensEarned'
  BY <1>1, <1>2 DEF TokensEarned
<1>6. KeysIssued'
  BY <1>1, <1>2 DEF KeysIssued, TypeOK
<1> QED BY <1>3, <1>4, <1>5, <1>6

(***************************************************************************)
(* Next by kind of step: a registration, a login or a refusal; a refresh   *)
(* or a logout; an issue; a deletion or a failure; the passing of time.    *)
(***************************************************************************)
Deletion(r) == Revoke(r) \/ RevokeFails(r) \/ SaveFails(r)

LEMMA StepCases ==
    ASSUME [Next]_vars
    PROVE  \/ UNCHANGED vars
           \/ \E r \in Requests : Credential(r)
           \/ \E r \in Requests, t \in Tokens : Refresh(r, t) \/ Logout(r, t)
           \/ \E r \in Requests, t \in Tokens : Save(r, t) \/ SaveAnswerLost(r, t)
           \/ \E r \in Requests : Deletion(r)
           \/ \E t \in Tokens : Expire(t) \/ EvictKey(t)
BY DEF Next, Credential, Deletion

LEMMA NextKeepsSessionsInv ==
    ASSUME SessionsInv, [Next]_vars
    PROVE  SessionsInv'
<1>1. CASE UNCHANGED vars
  BY <1>1 DEF vars, SessionsInv, TypeOK, CommandsCarry, ByToken, TokensEarned, KeysIssued
<1>2. ASSUME NEW r \in Requests, Credential(r) PROVE SessionsInv'
  BY <1>2, CredentialsKeepSessionsInv
<1>3. ASSUME NEW r \in Requests, NEW t \in Tokens, Refresh(r, t) \/ Logout(r, t)
      PROVE  SessionsInv'
  BY <1>3, CookieKeepsSessionsInv
<1>4. ASSUME NEW r \in Requests, NEW t \in Tokens, Save(r, t) \/ SaveAnswerLost(r, t)
      PROVE  SessionsInv'
  BY <1>4, IssueKeepsSessionsInv
<1>5. ASSUME NEW r \in Requests, Deletion(r) PROVE SessionsInv'
  <2>1. /\ pc[r] = "revoking" => ByToken(r) /\ cmd[r].token \in Tokens
        /\ over \in SUBSET {t \in Tokens : issued[t] # NoToken}
    BY CommandShapes DEF SessionsInv, CommandsCarry, ByToken, TypeOK
  <2>2. CASE Revoke(r)
    BY <2>1, <2>2, DeletionKeepsSessionsInv DEF Revoke, Answer
  <2>3. CASE RevokeFails(r)
    BY <2>1, <2>3, DeletionKeepsSessionsInv DEF RevokeFails, Answer
  <2>4. CASE SaveFails(r)
    BY <2>1, <2>4, DeletionKeepsSessionsInv DEF SaveFails, Answer
  <2> QED BY <1>5, <2>2, <2>3, <2>4 DEF Deletion
<1>6. ASSUME NEW t \in Tokens, Expire(t) \/ EvictKey(t) PROVE SessionsInv'
  BY <1>6, DeletionKeepsSessionsInv DEF Expire, EvictKey, SessionsInv, TypeOK
<1> QED BY <1>1, <1>2, <1>3, <1>4, <1>5, <1>6, StepCases

THEOREM SessionsInvariant == Spec => []SessionsInv
<1>1. Init => SessionsInv
  BY InitSessionsInv
<1>2. SessionsInv /\ [Next]_vars => SessionsInv'
  BY NextKeepsSessionsInv
<1> QED BY <1>1, <1>2, PTL DEF Spec

(***************************************************************************)
(* Every reachable state is well typed: no client holds, and no clock runs *)
(* out for, a token that was never issued.                                 *)
(***************************************************************************)
THEOREM SessionsTypeCorrect == Spec => []TypeOK
<1>1. SessionsInv => TypeOK
  BY DEF SessionsInv
<1> QED BY <1>1, SessionsInvariant, PTL

(***************************************************************************)
(* A live session is the account's its JWT names and was opened with that  *)
(* account's password.                                                     *)
(***************************************************************************)
THEOREM EarnedSessions == Spec => []SessionsAreEarned
<1>1. SessionsInv => SessionsAreEarned
  BY DEF SessionsInv, SessionsAreEarned, Live, KeysIssued, TokensEarned
<1> QED BY <1>1, SessionsInvariant, PTL
----------------------------------------------------------------------------
(***************************************************************************)
(* Redis and the cookies.                                                  *)
(***************************************************************************)

(***************************************************************************)
(* A refusal, a registration or a login touches no key and no cookie, and  *)
(* presents no token.  A refresh or a logout only starts to.               *)
(***************************************************************************)
LEMMA ReceptionFrame ==
    ASSUME SessionsInv, NEW r \in Requests,
           Credential(r) \/ \E t \in Tokens : Refresh(r, t) \/ Logout(r, t)
    PROVE  /\ pc[r] = "idle" /\ cmd[r] = NoCommand
           /\ pc'[r] \in {"issuing", "failed", "refused", "revoking"}
           /\ \A q \in Requests : q # r => pc'[q] = pc[q] /\ cmd'[q] = cmd[q]
           /\ UNCHANGED <<store, issued, held, over>>
<1>1. CASE Credential(r)
  <2>1. PICK c \in Commands \cup {NoCommand}, next \in {"issuing", "failed", "refused"} :
          Receive(r, c, next)
    BY <1>1, CredentialCases
  <2> QED BY <2>1 DEF Receive, SessionsInv, TypeOK, CommandsCarry
<1>2. ASSUME NEW t \in Tokens, Refresh(r, t) \/ Logout(r, t)
      PROVE  \E op : Receive(r, Cookie(op, t), "revoking")
  BY <1>2 DEF Refresh, Logout
<1>3. CASE \E t \in Tokens : Refresh(r, t) \/ Logout(r, t)
  BY <1>2, <1>3 DEF Receive, SessionsInv, TypeOK, CommandsCarry
<1> QED BY <1>1, <1>3

LEMMA StepKeepsSessions ==
    ASSUME SessionsInv, NoSessionLost, [Next]_vars
    PROVE  NoSessionLost'
<1> DEFINE Presented(t, r) == ByToken(r) /\ cmd[r].token = t /\ pc[r] # "revoking"
<1>0. NoSessionLost <=>
        \A t \in held : store[t] # "none" \/ t \in over \/ \E r \in Requests : Presented(t, r)
  BY DEF NoSessionLost, Live, SessionsInv, TypeOK, ByToken
<1>1. NoSessionLost' <=>
        \A t \in held' : \/ store'[t] # "none" \/ t \in over'
                         \/ \E r \in Requests : Presented(t, r)'
  <2>1. held' \subseteq Tokens
    BY NextKeepsSessionsInv DEF SessionsInv, TypeOK
  <2> QED BY <2>1 DEF NoSessionLost, Live, ByToken
<1> HIDE DEF Presented
<1>2. CASE UNCHANGED vars
  BY <1>2 DEF vars, NoSessionLost, Live
<1>3. ASSUME NEW r \in Requests,
             Credential(r) \/ \E t \in Tokens : Refresh(r, t) \/ Logout(r, t)
      PROVE  NoSessionLost'
  <2>1. \A t \in held, q \in Requests : Presented(t, q) => Presented(t, q)'
    BY <1>3, ReceptionFrame DEF Presented, ByToken
  <2> QED BY <1>0, <1>1, <1>3, <2>1, ReceptionFrame
<1>4. ASSUME NEW r \in Requests, NEW u \in Tokens, Save(r, u) \/ SaveAnswerLost(r, u)
      PROVE  NoSessionLost'
  <2>1. /\ store' = [store EXCEPT ![u] = cmd[r].email] /\ held' \subseteq held \cup {u}
        /\ pc[r] = "issuing" /\ cmd[r].email \in Emails
        /\ \E a \in {"ok", "failed"} : pc' = [pc EXCEPT ![r] = a]
        /\ UNCHANGED <<over, cmd>>
    BY <1>4, IssuedToken DEF Save, SaveAnswerLost, Answer
  <2>2. \A t \in held, q \in Requests : Presented(t, q) => Presented(t, q)'
    BY <2>1 DEF Presented, ByToken, SessionsInv, TypeOK
  <2>3. \A t \in Tokens : store[t] # "none" \/ t = u => store'[t] # "none"
    BY <2>1, NoneAssumption DEF SessionsInv, TypeOK
  <2> QED BY <1>0, <1>1, <2>1, <2>2, <2>3 DEF SessionsInv, TypeOK
<1>5. ASSUME NEW r \in Requests, Deletion(r)
      PROVE  NoSessionLost'
  <2>1. /\ pc'[r] # "revoking" /\ \A q \in Requests : q # r => pc'[q] = pc[q]
        /\ UNCHANGED <<held, over, cmd>>
    BY <1>5 DEF Deletion, Revoke, RevokeFails, SaveFails, Answer, SessionsInv, TypeOK
  <2>2. \/ UNCHANGED store
        \/ pc[r] = "revoking" /\ store' = [store EXCEPT ![cmd[r].token] = "none"]
    BY <1>5 DEF Deletion, Revoke, RevokeFails, SaveFails
  <2>3. \A t \in held, q \in Requests : Presented(t, q) => Presented(t, q)'
    BY <2>1 DEF Presented, ByToken
  <2>4. \A t \in held : store'[t] # store[t] => Presented(t, r)'
    BY <2>1, <2>2 DEF Presented, ByToken, SessionsInv, CommandsCarry, TypeOK
  <2> QED BY <1>0, <1>1, <2>1, <2>3, <2>4
<1>6. ASSUME NEW u \in Tokens, Expire(u) \/ EvictKey(u)
      PROVE  NoSessionLost'
  <2>1. /\ over \subseteq over' /\ UNCHANGED <<held, cmd, pc>>
        /\ \A t \in Tokens : store'[t] # store[t] => t \in over
    BY <1>6 DEF Expire, EvictKey, SessionsInv, TypeOK
  <2>2. \A t \in held, q \in Requests : Presented(t, q) => Presented(t, q)'
    BY <2>1 DEF Presented, ByToken
  <2> QED BY <1>0, <1>1, <2>1, <2>2 DEF SessionsInv, TypeOK
<1> QED BY <1>2, <1>3, <1>4, <1>5, <1>6, StepCases

(***************************************************************************)
(* A token in a cookie stays in Redis until it expires or is presented.    *)
(***************************************************************************)
THEOREM SessionsKept == Spec => []NoSessionLost
<1>1. Init => NoSessionLost
  BY DEF Init, NoSessionLost
<1>2. SessionsInv /\ NoSessionLost /\ [Next]_vars => NoSessionLost'
  BY StepKeepsSessions
<1> QED BY <1>1, <1>2, SessionsInvariant, PTL DEF Spec

LEMMA StepKeepsOrphansReported ==
    ASSUME SessionsInv, OrphansWereReported, [Next]_vars
    PROVE  OrphansWereReported'
<1> USE DEF OrphansWereReported, Live
<1>0. \A t \in Tokens : store[t] # "none" => issued[t].by \in Requests
  BY DEF SessionsInv, TypeOK, KeysIssued, Issued
<1>1. CASE UNCHANGED vars
  BY <1>1 DEF vars
<1>2. ASSUME NEW r \in Requests,
             Credential(r) \/ \E t \in Tokens : Refresh(r, t) \/ Logout(r, t)
      PROVE  OrphansWereReported'
  BY <1>0, <1>2, ReceptionFrame
<1>3. ASSUME NEW r \in Requests, NEW u \in Tokens, Save(r, u) \/ SaveAnswerLost(r, u)
      PROVE  OrphansWereReported'
  <2>1. /\ issued'[u].by = r /\ pc[r] = "issuing"
        /\ \A t \in Tokens : t # u => issued'[t] = issued[t] /\ store'[t] = store[t]
    BY <1>3, IssuedToken DEF Save, SaveAnswerLost, SessionsInv, TypeOK
  <2>2. \/ held' = held \cup {u}
        \/ held' = held /\ pc'[r] = "failed"
    BY <1>3 DEF Save, SaveAnswerLost, Answer, SessionsInv, TypeOK
  <2>3. \A q \in Requests : q # r => pc'[q] = pc[q]
    BY <1>3 DEF Save, SaveAnswerLost, Answer, SessionsInv, TypeOK
  <2> QED BY <1>0, <2>1, <2>2, <2>3
<1>4. ASSUME NEW r \in Requests, Deletion(r)
      PROVE  OrphansWereReported'
  <2>1. /\ pc[r] \in {"revoking", "issuing"} /\ UNCHANGED <<held, issued>>
        /\ \A q \in Requests : q # r => pc'[q] = pc[q]
        /\ \A t \in Tokens : store'[t] \in {store[t], "none"}
    BY <1>4 DEF Deletion, Revoke, RevokeFails, SaveFails, Answer, SessionsInv, TypeOK
  <2> QED BY <1>0, <2>1
<1>5. ASSUME NEW u \in Tokens, Expire(u) \/ EvictKey(u)
      PROVE  OrphansWereReported'
  BY <1>5 DEF Expire, EvictKey, SessionsInv, TypeOK
<1> QED BY <1>1, <1>2, <1>3, <1>4, <1>5, StepCases

(***************************************************************************)
(* A live token that no client holds was issued to a failed request.       *)
(***************************************************************************)
THEOREM OrphansReported == Spec => []OrphansWereReported
<1>1. Init => OrphansWereReported
  BY DEF Init, OrphansWereReported, Live
<1>2. SessionsInv /\ OrphansWereReported /\ [Next]_vars => OrphansWereReported'
  BY StepKeepsOrphansReported
<1> QED BY <1>1, <1>2, SessionsInvariant, PTL DEF Spec
----------------------------------------------------------------------------
(***************************************************************************)
(* Forks.  A session is borne by its live tokens and by the refreshes      *)
(* that are continuing it, from the moment they found their token in Redis *)
(* to the moment they store the next one.  As long as no two refreshes     *)
(* were given the same token of the session, it has one bearer: a live     *)
(* token, with the refreshes that were given that token, or a refresh.     *)
(***************************************************************************)
Refreshing(r, w) == cmd[r] # NoCommand /\ cmd[r].op = "refresh" /\ cmd[r].token = w

Continues(r, s) ==
    /\ pc[r] \in {"revoking", "issuing"}
    /\ \E w \in Tokens : Refreshing(r, w) /\ issued[w].session = s

Forked(s) ==
    \E w \in Tokens, r \in Requests, q \in Requests :
        r # q /\ Refreshing(r, w) /\ Refreshing(q, w) /\ issued[w].session = s

TokenOf(t, s) == store[t] # "none" /\ issued[t].session = s

OneBearer ==
    \A s \in Tokens :
        \/ Forked(s)
        \/ /\ \A t, u \in Tokens : TokenOf(t, s) /\ TokenOf(u, s) => t = u
           /\ \A t \in Tokens, r \in Requests :
                 TokenOf(t, s) /\ Continues(r, s) => pc[r] = "revoking" /\ Refreshing(r, t)
           /\ \A r, q \in Requests : Continues(r, s) /\ Continues(q, s) => r = q

\* The first token of a session was issued too, so a new session has a name of its own.
RootsIssued ==
    \A t \in Tokens : issued[t] # NoToken => issued[issued[t].session] # NoToken

ForksInv == RootsIssued /\ OneBearer

LEMMA StepFrame ==
    ASSUME SessionsInv, [Next]_vars
    PROVE  /\ \A r \in Requests : cmd[r] # NoCommand => cmd'[r] = cmd[r]
           /\ \A t \in Tokens : issued[t] # NoToken => issued'[t] = issued[t]
<1>1. CASE UNCHANGED vars
  BY <1>1 DEF vars
<1>2. ASSUME NEW r \in Requests,
             Credential(r) \/ \E t \in Tokens : Refresh(r, t) \/ Logout(r, t)
      PROVE  /\ \A q \in Requests : cmd[q] # NoCommand => cmd'[q] = cmd[q]
             /\ issued' = issued
  BY <1>2, ReceptionFrame
<1>3. ASSUME NEW r \in Requests, NEW t \in Tokens, Save(r, t) \/ SaveAnswerLost(r, t)
      PROVE  cmd' = cmd /\ \A u \in Tokens : issued[u] # NoToken => issued'[u] = issued[u]
  BY <1>3, IssuedToken DEF Save, SaveAnswerLost
<1>4. ASSUME NEW r \in Requests, Deletion(r)
      PROVE  UNCHANGED <<cmd, issued>>
  BY <1>4 DEF Deletion, Revoke, RevokeFails, SaveFails
<1>5. ASSUME NEW t \in Tokens, Expire(t) \/ EvictKey(t)
      PROVE  UNCHANGED <<cmd, issued>>
  BY <1>5 DEF Expire, EvictKey
<1> QED BY <1>1, <1>2, <1>3, <1>4, <1>5, StepCases

\* A fork is there for good: commands and issued tokens are never changed.
LEMMA ForkedStays ==
    ASSUME SessionsInv, [Next]_vars, NEW s \in Tokens, Forked(s)
    PROVE  Forked(s)'
<1>1. PICK w \in Tokens, r \in Requests, q \in Requests :
        r # q /\ Refreshing(r, w) /\ Refreshing(q, w) /\ issued[w].session = s
  BY DEF Forked
<1>2. issued[w] # NoToken
  BY <1>1 DEF Refreshing, SessionsInv, CommandsCarry, ByToken
<1>3. Refreshing(r, w)' /\ Refreshing(q, w)' /\ issued'[w].session = s
  BY <1>1, <1>2, StepFrame DEF Refreshing
<1> QED BY <1>1, <1>3 DEF Forked

LEMMA StepKeepsRootsIssued ==
    ASSUME SessionsInv, RootsIssued, [Next]_vars
    PROVE  RootsIssued'
<1> SUFFICES ASSUME NEW t \in Tokens, issued'[t] # NoToken
             PROVE  issued'[issued'[t].session] # NoToken
  BY DEF RootsIssued
<1>1. \A u \in Tokens : issued[u] # NoToken => issued[u].session \in Tokens
  BY DEF SessionsInv, TypeOK, Issued
<1>2. CASE issued[t] # NoToken
  BY <1>1, <1>2, StepFrame DEF RootsIssued
<1>3. CASE issued[t] = NoToken
  <2>1. PICK r \in Requests, u \in Tokens : Save(r, u) \/ SaveAnswerLost(r, u)
    <3>1. \/ issued' = issued
          \/ \E r \in Requests, u \in Tokens : Save(r, u) \/ SaveAnswerLost(r, u)
      BY StepCases, ReceptionFrame
         DEF vars, Deletion, Revoke, RevokeFails, SaveFails, Expire, EvictKey
    <3> QED BY <1>3, <3>1
  <2>2. IssueTokenPair(r, u)
    BY <2>1 DEF Save, SaveAnswerLost
  <2>3. u = t
    BY <1>3, <2>2, IssuedToken
  <2>4. CASE cmd[r].op # "refresh"
    BY <2>2, <2>3, <2>4, IssuedToken
  <2>5. CASE cmd[r].op = "refresh"
    <3>1. cmd[r].token \in Tokens /\ issued[cmd[r].token] # NoToken
      BY <2>2, <2>5, IssuedToken, CommandShapes DEF SessionsInv, CommandsCarry, ByToken, TypeOK
    <3> QED BY <1>1, <2>2, <2>3, <2>5, <3>1, IssuedToken, StepFrame DEF RootsIssued
  <2> QED BY <2>4, <2>5
<1> QED BY <1>2, <1>3

(***************************************************************************)
(* A step that gives a session neither a live token nor a refresh, and     *)
(* takes no token from a refresh that is still to revoke it.               *)
(***************************************************************************)
LEMMA FewerBearers ==
    ASSUME SessionsInv, ForksInv, [Next]_vars, NEW s \in Tokens, ~Forked(s)',
           \A t \in Tokens : TokenOf(t, s)' => TokenOf(t, s),
           \A r \in Requests : Continues(r, s)' => Continues(r, s) /\ pc'[r] = pc[r]
    PROVE  /\ \A t, u \in Tokens : TokenOf(t, s)' /\ TokenOf(u, s)' => t = u
           /\ \A t \in Tokens, r \in Requests :
                 TokenOf(t, s)' /\ Continues(r, s)' => pc'[r] = "revoking" /\ Refreshing(r, t)'
           /\ \A r, q \in Requests : Continues(r, s)' /\ Continues(q, s)' => r = q
<1>1. ~Forked(s)
  BY ForkedStays
<1>2. \A r \in Requests, t \in Tokens : Refreshing(r, t) => Refreshing(r, t)'
  BY StepFrame DEF Refreshing
<1> QED BY <1>1, <1>2 DEF ForksInv, OneBearer

LEMMA StepKeepsOneBearer ==
    ASSUME SessionsInv, ForksInv, [Next]_vars
    PROVE  OneBearer'
<1> SUFFICES ASSUME NEW s \in Tokens, ~Forked(s)'
             PROVE  /\ \A t, u \in Tokens : TokenOf(t, s)' /\ TokenOf(u, s)' => t = u
                    /\ \A t \in Tokens, r \in Requests : TokenOf(t, s)' /\ Continues(r, s)' =>
                          pc'[r] = "revoking" /\ Refreshing(r, t)'
                    /\ \A r, q \in Requests : Continues(r, s)' /\ Continues(q, s)' => r = q
  BY DEF OneBearer
<1>1. /\ \A t, u \in Tokens : TokenOf(t, s) /\ TokenOf(u, s) => t = u
      /\ \A t \in Tokens, r \in Requests :
            TokenOf(t, s) /\ Continues(r, s) => pc[r] = "revoking" /\ Refreshing(r, t)
      /\ \A r, q \in Requests : Continues(r, s) /\ Continues(q, s) => r = q
  BY ForkedStays DEF ForksInv, OneBearer
<1>2. CASE UNCHANGED vars
  BY <1>1, <1>2 DEF vars, TokenOf, Continues, Refreshing
<1>3. ASSUME NEW r \in Requests, Credential(r)
      PROVE  /\ \A t \in Tokens : TokenOf(t, s)' => TokenOf(t, s)
             /\ \A q \in Requests : Continues(q, s)' => Continues(q, s) /\ pc'[q] = pc[q]
  <2>1. cmd'[r] = NoCommand \/ cmd'[r].op \in {"register", "login"}
    <3>1. PICK c \in Commands \cup {NoCommand}, next \in {"issuing", "failed", "refused"} :
            Receive(r, c, next) /\ (c # NoCommand => c.op \in {"register", "login"})
      BY <1>3, CredentialCases
    <3> QED BY <3>1 DEF Receive, SessionsInv, TypeOK
  <2> QED BY <1>3, <2>1, ReceptionFrame DEF TokenOf, Continues, Refreshing
<1>4. ASSUME NEW r \in Requests, NEW t \in Tokens, Logout(r, t)
      PROVE  /\ \A u \in Tokens : TokenOf(u, s)' => TokenOf(u, s)
             /\ \A q \in Requests : Continues(q, s)' => Continues(q, s) /\ pc'[q] = pc[q]
  <2>1. cmd'[r].op = "logout"
    BY <1>4 DEF Logout, Receive, Cookie, SessionsInv, TypeOK
  <2> QED BY <1>4, <2>1, ReceptionFrame DEF TokenOf, Continues, Refreshing
<1>5. ASSUME NEW r \in Requests, NEW t \in Tokens, Refresh(r, t)
      PROVE  /\ \A u, v \in Tokens : TokenOf(u, s)' /\ TokenOf(v, s)' => u = v
             /\ \A u \in Tokens, q \in Requests :
                   TokenOf(u, s)' /\ Continues(q, s)' => pc'[q] = "revoking" /\ Refreshing(q, u)'
             /\ \A p, q \in Requests : Continues(p, s)' /\ Continues(q, s)' => p = q
  <2>1. /\ pc[r] = "idle" /\ cmd[r] = NoCommand
        /\ \A q \in Requests : q # r => pc'[q] = pc[q] /\ cmd'[q] = cmd[q]
        /\ UNCHANGED <<store, issued, held, over>>
    BY <1>5, ReceptionFrame
  <2>2. /\ pc'[r] = "revoking" /\ cmd'[r] = Cookie("refresh", t)
        /\ issued[t] # NoToken /\ store[t] = issued[t].email
    BY <1>5 DEF Refresh, Receive, SessionsInv, TypeOK
  <2>3. Refreshing(r, t)' /\ \A w \in Tokens : Refreshing(r, w)' => w = t
    BY <2>2 DEF Refreshing, Cookie, NoCommand
  <2>4. store[t] # "none"
    BY <2>2, NoneAssumption DEF SessionsInv, TypeOK, Issued
  <2>5. \A u \in Tokens : TokenOf(u, s)' <=> TokenOf(u, s)
    BY <2>1 DEF TokenOf
  <2>6. \A q \in Requests : q # r => /\ Continues(q, s)' <=> Continues(q, s)
                                     /\ \A w \in Tokens : Refreshing(q, w)' <=> Refreshing(q, w)
    BY <2>1 DEF Continues, Refreshing
  <2>7. Continues(r, s)' => TokenOf(t, s)
    BY <2>1, <2>3, <2>4 DEF Continues, TokenOf
  <2>8. \A q \in Requests : Continues(r, s)' /\ Continues(q, s)' => q = r
    <3> SUFFICES ASSUME NEW q \in Requests, q # r, Continues(r, s)', Continues(q, s)'
                 PROVE  FALSE
      OBVIOUS
    <3>1. Refreshing(q, t)
      BY <1>1, <2>6, <2>7
    <3>2. issued'[t].session = s
      BY <2>1, <2>7 DEF TokenOf
    <3> QED BY <2>3, <2>6, <3>1, <3>2 DEF Forked
  <2>9. \A u \in Tokens : TokenOf(u, s)' /\ Continues(r, s)' => u = t
    BY <1>1, <2>5, <2>7
  <2> QED BY <1>1, <2>1, <2>2, <2>3, <2>5, <2>6, <2>8, <2>9
<1>6. ASSUME NEW r \in Requests, NEW t \in Tokens, Save(r, t) \/ SaveAnswerLost(r, t)
      PROVE  /\ \A u, v \in Tokens : TokenOf(u, s)' /\ TokenOf(v, s)' => u = v
             /\ \A u \in Tokens, q \in Requests :
                   TokenOf(u, s)' /\ Continues(q, s)' => pc'[q] = "revoking" /\ Refreshing(q, u)'
             /\ \A p, q \in Requests : Continues(p, s)' /\ Continues(q, s)' => p = q
  <2>1. /\ IssueTokenPair(r, t) /\ cmd' = cmd
        /\ pc[r] = "issuing" /\ pc'[r] \in {"ok", "failed"}
        /\ \A q \in Requests : q # r => pc'[q] = pc[q]
        /\ \A u \in Tokens : u # t => store'[u] = store[u] /\ issued'[u] = issued[u]
        /\ issued[t] = NoToken
    BY <1>6, IssuedToken DEF Save, SaveAnswerLost, Answer, SessionsInv, TypeOK
  <2>2. \A u \in Tokens : u # t => (TokenOf(u, s)' <=> TokenOf(u, s))
    BY <2>1 DEF TokenOf
  <2>3. \A q \in Requests, w \in Tokens : Refreshing(q, w) => issued[w] # NoToken
    BY DEF Refreshing, SessionsInv, CommandsCarry, ByToken
  <2>4. \A q \in Requests : Continues(q, s)' => Continues(q, s) /\ q # r /\ pc'[q] = pc[q]
    BY <2>1, <2>3 DEF Continues, Refreshing
  <2>5. TokenOf(t, s)' =>
          \/ Continues(r, s)
          \/ \A u \in Tokens : issued[u] # NoToken => issued[u].session # s
    <3>1. CASE cmd[r].op # "refresh"
      <4>1. issued'[t].session = t
        BY <2>1, <3>1, IssuedToken
      <4> QED BY <2>1, <4>1 DEF TokenOf, ForksInv, RootsIssued
    <3>2. CASE cmd[r].op = "refresh"
      <4>1. cmd[r] # NoCommand /\ cmd[r].token \in Tokens
        BY <2>1, <3>2, IssuedToken, CommandShapes DEF SessionsInv, TypeOK
      <4>2. issued'[t].session = issued[cmd[r].token].session
        BY <2>1, <3>2, IssuedToken
      <4> QED BY <2>1, <3>2, <4>1, <4>2 DEF TokenOf, Continues, Refreshing
    <3> QED BY <3>1, <3>2
  <2>6. \A u \in Tokens : u # t /\ TokenOf(t, s)' => ~TokenOf(u, s)
    <3>1. \A u \in Tokens : TokenOf(u, s) => issued[u] # NoToken /\ issued[u].session = s
      BY DEF TokenOf, SessionsInv, KeysIssued
    <3> QED BY <1>1, <2>1, <2>5, <3>1
  <2>7. \A q \in Requests : TokenOf(t, s)' /\ Continues(q, s)' => FALSE
    <3>1. \A q \in Requests : Continues(q, s) =>
            \E u \in Tokens : issued[u] # NoToken /\ issued[u].session = s
      BY <2>3 DEF Continues
    <3> QED BY <1>1, <2>4, <2>5, <3>1
  <2>8. \A q \in Requests, w \in Tokens : Refreshing(q, w)' <=> Refreshing(q, w)
    BY <2>1 DEF Refreshing
  <2> QED BY <1>1, <2>2, <2>4, <2>6, <2>7, <2>8
<1>7. ASSUME NEW r \in Requests, Revoke(r)
      PROVE  /\ \A u, v \in Tokens : TokenOf(u, s)' /\ TokenOf(v, s)' => u = v
             /\ \A u \in Tokens, q \in Requests :
                   TokenOf(u, s)' /\ Continues(q, s)' => pc'[q] = "revoking" /\ Refreshing(q, u)'
             /\ \A p, q \in Requests : Continues(p, s)' /\ Continues(q, s)' => p = q
  <2>1. /\ pc[r] = "revoking" /\ cmd' = cmd /\ issued' = issued
        /\ store' = [store EXCEPT ![cmd[r].token] = "none"]
        /\ \A q \in Requests : q # r => pc'[q] = pc[q]
    BY <1>7 DEF Revoke, Answer, SessionsInv, TypeOK
  <2>2. \A u \in Tokens : TokenOf(u, s)' => TokenOf(u, s) /\ u # cmd[r].token
    BY <2>1 DEF TokenOf, SessionsInv, TypeOK
  <2>3. \A q \in Requests : Continues(q, s)' => Continues(q, s)
    BY <2>1 DEF Continues, Refreshing
  <2>4. \A q \in Requests, w \in Tokens : Refreshing(q, w)' <=> Refreshing(q, w)
    BY <2>1 DEF Refreshing
  <2>5. \A u \in Tokens : TokenOf(u, s)' => ~Continues(r, s)
    BY <1>1, <2>2 DEF Refreshing
  <2> QED BY <1>1, <2>1, <2>2, <2>3, <2>4, <2>5
<1>8. ASSUME NEW r \in Requests, RevokeFails(r) \/ SaveFails(r)
      PROVE  /\ \A t \in Tokens : TokenOf(t, s)' => TokenOf(t, s)
             /\ \A q \in Requests : Continues(q, s)' => Continues(q, s) /\ pc'[q] = pc[q]
  <2>1. /\ pc'[r] = "failed" /\ cmd' = cmd /\ issued' = issued
        /\ \A q \in Requests : q # r => pc'[q] = pc[q]
        /\ \A t \in Tokens : store'[t] \in {store[t], "none"}
    BY <1>8 DEF RevokeFails, SaveFails, Answer, SessionsInv, TypeOK
  <2> QED BY <2>1 DEF TokenOf, Continues, Refreshing
<1>9. ASSUME NEW u \in Tokens, Expire(u) \/ EvictKey(u)
      PROVE  /\ \A t \in Tokens : TokenOf(t, s)' => TokenOf(t, s)
             /\ \A q \in Requests : Continues(q, s)' => Continues(q, s) /\ pc'[q] = pc[q]
  BY <1>9 DEF Expire, EvictKey, TokenOf, Continues, Refreshing, SessionsInv, TypeOK
<1> QED BY <1>2, <1>3, <1>4, <1>5, <1>6, <1>7, <1>8, <1>9, FewerBearers, StepCases DEF Deletion

THEOREM ForksInvariant == Spec => []ForksInv
<1>1. Init => ForksInv
  BY DEF Init, ForksInv, RootsIssued, OneBearer, TokenOf, Continues
<1>2. SessionsInv /\ ForksInv /\ [Next]_vars => ForksInv'
  BY StepKeepsRootsIssued, StepKeepsOneBearer DEF ForksInv
<1> QED BY <1>1, <1>2, SessionsInvariant, PTL DEF Spec

(***************************************************************************)
(* A session has two live tokens only if two refreshes were given the same *)
(* token of it.                                                            *)
(***************************************************************************)
THEOREM ForksAreOverlaps == Spec => []SessionsForkByOverlap
<1>1. SessionsInv /\ ForksInv => SessionsForkByOverlap
  <2> SUFFICES ASSUME SessionsInv, ForksInv, NEW t \in Live, NEW u \in Live,
                      t # u, issued[t].session = issued[u].session
               PROVE  \E w \in Tokens : /\ Cardinality(Refreshes(w)) >= 2
                                        /\ issued[w].session = issued[t].session
    BY DEF SessionsForkByOverlap
  <2> DEFINE s == issued[t].session
  <2>1. s \in Tokens
    BY DEF Live, SessionsInv, TypeOK, KeysIssued, Issued
  <2>2. Forked(s)
    BY <2>1 DEF ForksInv, OneBearer, TokenOf, Live
  <2>3. PICK w \in Tokens, r \in Requests, q \in Requests :
          r # q /\ Refreshing(r, w) /\ Refreshing(q, w) /\ issued[w].session = s
    BY <2>2 DEF Forked
  <2>4. {r, q} \in SUBSET Refreshes(w) /\ Refreshes(w) \in SUBSET Requests
    BY <2>3 DEF Refreshes, Refreshing
  <2>5. IsFiniteSet(Refreshes(w))
    BY <2>4, RequestsAssumption, FS_Subset
  <2>6. IsFiniteSet({r}) /\ Cardinality({r}) = 1
    BY FS_Singleton
  <2>7. Cardinality({r} \cup {q}) = 2
    BY <2>3, <2>6, FS_AddElement
  <2>8. {r} \cup {q} = {r, q}
    OBVIOUS
  <2>9. Cardinality({r, q}) <= Cardinality(Refreshes(w))
    BY <2>4, <2>5, FS_Subset
  <2>10. Cardinality(Refreshes(w)) \in Nat
    BY <2>5, FS_CardinalityType
  <2>11. Cardinality(Refreshes(w)) >= 2
    BY <2>7, <2>8, <2>9, <2>10
  <2> QED BY <2>3, <2>11
<1> QED BY <1>1, SessionsInvariant, ForksInvariant, PTL
============================================================================
