------------------------------ MODULE Sessions ------------------------------
(***************************************************************************)
(* The sessions of one user: auth.service login, refreshTokens, logout     *)
(* (revokeRefreshToken) and the password resets by link and by code, with  *)
(* the check JwtRefreshStrategy makes first, statement by statement.       *)
(*                                                                         *)
(* A refresh token names its login: the tokens that follow from each other *)
(* by refreshing.  Tokens and secrets are told apart by identity; what a   *)
(* request has read is an identity and perhaps not a row any more.         *)
(***************************************************************************)
EXTENDS Naturals

CONSTANTS
  Devices,       \* requests in progress at the same time
  Tokens,        \* refresh tokens
  Logins,        \* identities of logins
  Links, Codes,  \* secrets of a reset: 32 random bytes, 6 digits
  NoSession, NoToken, NoLogin, NoSecret

Secrets == Links \cup Codes

ASSUME SessionsAssumption ==
  /\ Links \cap Codes = {}
  /\ NoSession \notin [login : Logins, era : {"current", "old", "late"}, expired : BOOLEAN]
  /\ NoToken \notin Tokens /\ NoLogin \notin Logins /\ NoSecret \notin Secrets

VARIABLES
  session,       \* RefreshToken
  secret,        \* PasswordResetToken
  stopped,       \* history: a reset ended between the password and the revocation
  device         \* what each request is doing

sessionsVars == <<session, secret, stopped, device>>

(* era: opened with the password the user has now; with one that has been  *)
(* reset since; or with one that had already been reset when it was        *)
(* stored (by a request that began before the reset).                      *)
Session == [login : Logins, era : {"current", "old", "late"}, expired : BOOLEAN]

(* uses: resets made with it; shared: another request had accepted it when *)
(* it was first used.                                                      *)
Secret == [status : {"none", "unused", "expired", "used"},
           uses : Nat, shared : BOOLEAN]
FreshSecret(status) == [status |-> status, uses |-> 0, shared |-> FALSE]

Device == [pc : {"idle", "find", "exchange", "store", "delete",
                 "createCode", "write", "revoke"},
           op : {"login", "refresh", "logout", "forgot", "reset"},
           token : Tokens \cup {NoToken},     \* token presented
           login : Logins \cup {NoLogin},     \* of the token exchanged
           current : BOOLEAN,                 \* no reset since the request was let in
           secret : Secrets \cup {NoSecret}]  \* row found; NoSecret once it is gone

IdleDevice == [pc |-> "idle", op |-> "login", token |-> NoToken, login |-> NoLogin,
               current |-> TRUE, secret |-> NoSecret]

SessionsTypeOK ==
  /\ session \in [Tokens -> Session \cup {NoSession}]
  /\ secret \in [Secrets -> Secret]
  /\ stopped \in BOOLEAN
  /\ device \in [Devices -> Device]

SessionsInit ==
  /\ session = [t \in Tokens |-> NoSession]
  /\ secret = [s \in Secrets |-> FreshSecret("none")]
  /\ stopped = FALSE
  /\ device = [d \in Devices |-> IdleDevice]

Live == {t \in Tokens : session[t] # NoSession}
Storing == {d \in Devices : device[d].pc = "store" /\ device[d].op = "refresh"}
TakenLogins == {session[t].login : t \in Live} \cup {device[d].login : d \in Storing}

StoreStays == UNCHANGED <<session, secret, stopped>>
DeviceGoes(d, pc) == device' = [device EXCEPT ![d].pc = pc]
DeviceEnds(d) == device' = [device EXCEPT ![d] = IdleDevice]

-----------------------------------------------------------------------------
(* login: the user and its password are read and compared; tokens are      *)
(* signed; the hash of the refresh token is stored.  A wrong password      *)
(* leaves nothing behind.                                                  *)
Login(d) ==
  /\ device[d].pc = "idle"
  /\ device' = [device EXCEPT ![d] = [IdleDevice EXCEPT !.pc = "store", !.op = "login"]]
  /\ StoreStays

(* createRefreshToken, the last statement of login and of refreshTokens.   *)
StoreToken(d, t, l) ==
  /\ device[d].pc = "store"
  /\ session[t] = NoSession /\ \A e \in Devices : device[e].token # t
  /\ \/ device[d].op = "login" /\ l \notin TakenLogins
     \/ device[d].op = "refresh" /\ l = device[d].login
  /\ session' = [session EXCEPT ![t] = [login |-> l, expired |-> FALSE,
                   era |-> IF device[d].current THEN "current" ELSE "late"]]
  /\ DeviceEnds(d)
  /\ UNCHANGED <<secret, stopped>>

(* JwtRefreshStrategy.validate: the stored token, not expired.             *)
PresentToken(d, t, op) ==
  /\ device[d].pc = "idle"
  /\ session[t] # NoSession
  /\ ~ session[t].expired
  /\ device' = [device EXCEPT ![d] = [IdleDevice EXCEPT !.pc = "find", !.op = op, !.token = t,
                                        !.current = session[t].era = "current"]]
  /\ StoreStays

(* findFirst by the hash, once more.                                       *)
FindToken(d) ==
  /\ device[d].pc = "find"
  /\ \/ /\ session[device[d].token] # NoSession
        /\ DeviceGoes(d, IF device[d].op = "refresh" THEN "exchange" ELSE "delete")
     \/ session[device[d].token] = NoSession /\ DeviceEnds(d)
  /\ StoreStays

(* deleteMany by the hash: only the request that deleted the row goes on.  *)
(* Mutant: the number of deleted rows is not looked at.                    *)
ExchangeUncounted(d) ==
  /\ device[d].pc = "exchange"
  /\ \E l \in Logins :
       /\ session[device[d].token] # NoSession => l = session[device[d].token].login
       /\ device' = [device EXCEPT ![d].pc = "store", ![d].login = l]
  /\ session' = [session EXCEPT ![device[d].token] = NoSession]
  /\ UNCHANGED <<secret, stopped>>

ExchangeToken(d) ==
  LET t == device[d].token
  IN  /\ device[d].pc = "exchange"
      /\ \/ /\ session[t] # NoSession
            /\ session' = [session EXCEPT ![t] = NoSession]
            /\ device' = [device EXCEPT ![d].pc = "store", ![d].login = session[t].login]
         \/ session[t] = NoSession /\ DeviceEnds(d) /\ UNCHANGED session
      /\ UNCHANGED <<secret, stopped>>

(* delete by id throws when the row is gone; logout ignores it.            *)
DeleteToken(d) ==
  /\ device[d].pc = "delete"
  /\ session' = [session EXCEPT ![device[d].token] = NoSession]
  /\ DeviceEnds(d)
  /\ UNCHANGED <<secret, stopped>>

-----------------------------------------------------------------------------
(* Forgotten passwords.  A new link leaves the older secrets; a new code   *)
(* first deletes every unused one.  The token column is unique: a code     *)
(* that any row still has makes the insert throw.                          *)

NewLink(s) ==
  /\ secret[s].status = "none"
  /\ \A d \in Devices : device[d].secret # s
  /\ secret' = [secret EXCEPT ![s] = FreshSecret("unused")]
  /\ UNCHANGED <<session, stopped, device>>

Unused == {s \in Secrets : secret[s].status \in {"unused", "expired"}}

ForgotWithCode(d) ==
  /\ device[d].pc = "idle"
  /\ secret' = [s \in Secrets |-> IF s \in Unused THEN FreshSecret("none") ELSE secret[s]]
  /\ device' = [e \in Devices |->
       IF e = d THEN [IdleDevice EXCEPT !.pc = "createCode", !.op = "forgot"]
       ELSE IF device[e].secret \in Unused THEN [device[e] EXCEPT !.secret = NoSecret]
       ELSE device[e]]
  /\ UNCHANGED <<session, stopped>>

CreateCode(d, s) ==
  /\ device[d].pc = "createCode"
  /\ \/ secret[s].status = "none" /\ secret' = [secret EXCEPT ![s] = FreshSecret("unused")]
     \/ secret[s].status # "none" /\ UNCHANGED secret
  /\ DeviceEnds(d)
  /\ UNCHANGED <<session, stopped>>

-----------------------------------------------------------------------------
(* resetPassword and resetPasswordWithCode.                                *)

(* Mutant: a secret that has been used is accepted.                        *)
PresentAnySecret(d, s) ==
  /\ device[d].pc = "idle"
  /\ secret[s].status \in {"unused", "used"}
  /\ device' = [device EXCEPT ![d] = [IdleDevice EXCEPT !.pc = "write", !.op = "reset", !.secret = s]]
  /\ StoreStays

PresentSecret(d, s) ==
  /\ device[d].pc = "idle"
  /\ secret[s].status = "unused"
  /\ device' = [device EXCEPT ![d] = [IdleDevice EXCEPT !.pc = "write", !.op = "reset", !.secret = s]]
  /\ StoreStays

(* What a new password makes of the sessions and of the requests under way.*)
Outdated(c) == [c EXCEPT !.current = FALSE]
Aged(t) == IF session[t] = NoSession \/ session[t].era # "current" THEN session[t]
           ELSE [session[t] EXCEPT !.era = "old"]

(* The transaction marks the row used, by its id alone, and stores the     *)
(* password; a row that is gone makes it throw.                            *)
(* Mutant: the sessions are revoked before the password is stored.         *)
RevokedBefore(d) ==
  LET s == device[d].secret
  IN  /\ device[d].pc = "write"
      /\ s # NoSecret
      /\ secret' = [secret EXCEPT ![s].status = "used", ![s].uses = @ + 1]
      /\ session' = [t \in Tokens |-> Aged(t)]
      /\ device' = [e \in Devices |-> IF e = d THEN IdleDevice ELSE Outdated(device[e])]
      /\ UNCHANGED stopped

WriteReset(d) ==
  LET s == device[d].secret
      others == {e \in Devices \ {d} : device[e].secret = s}
  IN  /\ device[d].pc = "write"
      /\ \/ /\ s # NoSecret
            /\ secret' = [secret EXCEPT ![s].status = "used", ![s].uses = @ + 1,
                                        ![s].shared = @ \/ (secret[s].uses = 0 /\ others # {})]
            /\ session' = [t \in Tokens |-> Aged(t)]
            /\ device' = [e \in Devices |->
                 IF e = d THEN [device[d] EXCEPT !.pc = "revoke", !.secret = NoSecret, !.current = TRUE]
                 ELSE Outdated(device[e])]
         \/ s = NoSecret /\ DeviceEnds(d) /\ UNCHANGED <<secret, session>>
      /\ UNCHANGED stopped

(* revokeAllUserRefreshTokens, a statement of its own.                     *)
RevokeAll(d) ==
  /\ device[d].pc = "revoke"
  /\ session' = [t \in Tokens |-> NoSession]
  /\ stopped' = FALSE
  /\ DeviceEnds(d)
  /\ UNCHANGED secret

-----------------------------------------------------------------------------
(* A statement throws or the process stops; time passes.                   *)

RequestFails(d) ==
  /\ device[d].pc # "idle"
  /\ stopped' = (stopped \/ device[d].pc = "revoke")
  /\ DeviceEnds(d)
  /\ UNCHANGED <<session, secret>>

TokenExpires(t) ==
  /\ session[t] # NoSession /\ ~ session[t].expired
  /\ session' = [session EXCEPT ![t].expired = TRUE]
  /\ UNCHANGED <<secret, stopped, device>>

SecretExpires(s) ==
  /\ secret[s].status = "unused"
  /\ secret' = [secret EXCEPT ![s].status = "expired"]
  /\ UNCHANGED <<session, stopped, device>>

SessionsNext ==
  \/ \E d \in Devices :
       \/ Login(d) \/ FindToken(d) \/ ExchangeToken(d) \/ DeleteToken(d)
       \/ \E t \in Tokens, l \in Logins : StoreToken(d, t, l)
       \/ \E t \in Tokens, op \in {"refresh", "logout"} : PresentToken(d, t, op)
       \/ ForgotWithCode(d) \/ \E s \in Codes : CreateCode(d, s)
       \/ \E s \in Secrets : PresentSecret(d, s)
       \/ WriteReset(d) \/ RevokeAll(d) \/ RequestFails(d)
  \/ \E s \in Links : NewLink(s)
  \/ \E t \in Tokens : TokenExpires(t)
  \/ \E s \in Secrets : SecretExpires(s)

SessionsSpec == SessionsInit /\ [][SessionsNext]_sessionsVars

-----------------------------------------------------------------------------
(* Properties.                                                             *)

(* "Only one caller succeeds": however refreshes of a token race with each *)
(* other and with a logout, a login never has two live refresh tokens, nor *)
(* one beside an exchange that is still to store its successor.            *)
OneTokenPerLogin ==
  /\ \A t, u \in Live : session[t].login = session[u].login => t = u
  /\ \A d, e \in Storing : device[d].login = device[e].login => d = e
  /\ \A t \in Live, d \in Storing : session[t].login # device[d].login

(* A session opened with a password that has been reset is gone, unless    *)
(* the revocation is still to come or was lost, or the request that stored *)
(* it was under way when the password changed.                             *)
ResetEndsSessions ==
  \A t \in Live : session[t].era = "old" =>
    stopped \/ \E d \in Devices : device[d].pc = "revoke"

(* A link or code resets the password once.  Only requests that had        *)
(* already accepted it when it was first used can use it again: usedAt is  *)
(* checked when it is read and not when it is written.                     *)
SecretUsedOnce ==
  \A s \in Secrets : secret[s].uses > 1 => secret[s].shared
=============================================================================
