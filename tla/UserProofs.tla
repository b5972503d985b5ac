----------------------------- MODULE UserProofs -----------------------------
(***************************************************************************)
(* What Sessions, Registration and Staff promise, for any number of        *)
(* requests and rows.                                                      *)
(*                                                                         *)
(* SessionsInvariant: the types, the three properties, and what the step a *)
(* request is at says of what it holds.                                    *)
(*                                                                         *)
(* RegistrationInvariant says which rows a request may still trust: a      *)
(* registration is pending or has become an account, not both, and the     *)
(* change a request is about to spend is the one it was found by.          *)
(*                                                                         *)
(* The argument about the last SUPERADMIN needs what a request still       *)
(* knows: its requester's role is the one it read, unless it is stale.     *)
(***************************************************************************)
EXTENDS Sessions, Registration, Staff, TLAPS

-----------------------------------------------------------------------------
(* Sessions.                                                               *)

(* A request between two statements holds the token it presented, and one  *)
(* that is to store a successor the login it follows.                      *)
HoldsWhatItNeeds ==
  \A d \in Devices :
    /\ device[d].pc \in {"find", "exchange", "delete"} => device[d].token \in Tokens
    /\ device[d].pc = "store" /\ device[d].op = "refresh" => device[d].login \in Logins

(* Only a used secret has been used, and a request that still holds one    *)
(* that was used is a request that shared it.                              *)
SecretHistory ==
  \A s \in Secrets :
    /\ secret[s].status # "used" => secret[s].uses = 0
    /\ secret[s].uses > 0 /\ (\E d \in Devices : device[d].secret = s) => secret[s].shared

SessionsInvariant ==
  /\ SessionsTypeOK
  /\ HoldsWhatItNeeds
  /\ OneTokenPerLogin
  /\ ResetEndsSessions
  /\ SecretHistory
  /\ SecretUsedOnce

-----------------------------------------------------------------------------
(* Types.                                                                  *)

LEMMA IdleDeviceType == IdleDevice \in Device
  BY SessionsAssumption DEF IdleDevice, Device

LEMMA FreshSecretType ==
  ASSUME NEW status \in {"none", "unused", "expired", "used"}
  PROVE  FreshSecret(status) \in Secret
  BY DEF FreshSecret, Secret

(* Ageing a session leaves its login and expiry.                           *)
LEMMA AgedType ==
  ASSUME SessionsTypeOK, NEW t \in Tokens
  PROVE  /\ Aged(t) \in Session \cup {NoSession}
         /\ Aged(t) = NoSession <=> session[t] = NoSession
         /\ session[t] # NoSession => Aged(t).login = session[t].login
  <1>1. CASE session[t] = NoSession \/ session[t].era # "current"
    BY <1>1 DEF Aged, SessionsTypeOK
  <1>2. CASE session[t] # NoSession /\ session[t].era = "current"
    <2>1. session[t] \in Session
      BY <1>2 DEF SessionsTypeOK
    <2>2. Aged(t) = [session[t] EXCEPT !.era = "old"]
      BY <1>2 DEF Aged
    <2>3. Aged(t) \in Session /\ Aged(t).login = session[t].login
      BY <2>1, <2>2 DEF Session
    <2> QED
      BY <1>2, <2>3, SessionsAssumption DEF Session
  <1> QED
    BY <1>1, <1>2

LEMMA InitSessions == SessionsInit => SessionsInvariant
  <1> SUFFICES ASSUME SessionsInit PROVE SessionsInvariant
    OBVIOUS
  <1>1. SessionsTypeOK
    BY IdleDeviceType, FreshSecretType DEF SessionsInit, SessionsTypeOK
  <1>2. HoldsWhatItNeeds
    BY DEF SessionsInit, HoldsWhatItNeeds, IdleDevice
  <1>3. Live = {} /\ Storing = {}
    BY DEF SessionsInit, Live, Storing, IdleDevice
  <1>4. OneTokenPerLogin /\ ResetEndsSessions
    BY <1>3 DEF OneTokenPerLogin, ResetEndsSessions
  <1>5. SecretHistory /\ SecretUsedOnce
    BY DEF SessionsInit, SecretHistory, SecretUsedOnce, FreshSecret
  <1> QED
    BY <1>1, <1>2, <1>4, <1>5 DEF SessionsInvariant

-----------------------------------------------------------------------------
(* A request begins, moves on or ends and the tables stay.  It does not    *)
(* become one that stores a successor; one that was to revoke is gone only *)
(* if the loss is noted.                                                   *)
LEMMA RequestMoves ==
  ASSUME SessionsInvariant, NEW d \in Devices, NEW c \in Device,
         device' = [device EXCEPT ![d] = c],
         UNCHANGED <<session, secret>>, stopped' \in BOOLEAN,
         stopped => stopped',
         c.pc \in {"find", "exchange", "delete"} => c.token \in Tokens,
         ~ (c.pc = "store" /\ c.op = "refresh"),
         device[d].pc = "revoke" => stopped' \/ c.pc = "revoke",
         c.secret # NoSecret => \/ c.secret = device[d].secret
                                \/ c.secret \in Secrets /\ secret[c.secret].status = "unused"
  PROVE  SessionsInvariant'
  <1> USE DEF SessionsInvariant
  <1>1. SessionsTypeOK'
    BY DEF SessionsTypeOK
  <1>2. \A e \in Devices : device'[e] = IF e = d THEN c ELSE device[e]
    BY DEF SessionsTypeOK
  <1>3. HoldsWhatItNeeds'
    BY <1>2 DEF HoldsWhatItNeeds
  <1>4. Live' = Live /\ Storing' \subseteq Storing
    BY <1>2 DEF Live, Storing
  <1>5. \A e \in Storing' : device'[e] = device[e]
    BY <1>2 DEF Storing
  <1>6. OneTokenPerLogin'
    BY <1>4, <1>5 DEF OneTokenPerLogin
  <1>7. ResetEndsSessions'
    BY <1>2, <1>4 DEF ResetEndsSessions
  <1>8. ASSUME NEW s \in Secrets, secret[s].uses > 0, NEW e \in Devices, device'[e].secret = s
        PROVE  secret[s].shared
    <2>1. s # NoSecret
      BY SessionsAssumption
    <2>2. secret[s].status # "unused"
      BY <1>8 DEF SecretHistory
    <2> QED
      BY <1>2, <1>8, <2>1, <2>2 DEF SecretHistory
  <1>9. SecretHistory' /\ SecretUsedOnce'
    BY <1>8 DEF SecretHistory, SecretUsedOnce
  <1> QED
    BY <1>1, <1>3, <1>6, <1>7, <1>9

(* A request that may end does so without a trace, unless it had the       *)
(* sessions still to revoke.                                               *)
LEMMA RequestEnds ==
  ASSUME SessionsInvariant, NEW d \in Devices, DeviceEnds(d),
         UNCHANGED <<session, secret>>, stopped' \in BOOLEAN, stopped => stopped',
         device[d].pc = "revoke" => stopped'
  PROVE  SessionsInvariant'
  <1>1. device' = [device EXCEPT ![d] = IdleDevice]
    BY DEF DeviceEnds
  <1>2. IdleDevice.pc = "idle" /\ IdleDevice.secret = NoSecret
    BY DEF IdleDevice
  <1> QED
    BY <1>1, <1>2, IdleDeviceType, RequestMoves

-----------------------------------------------------------------------------
(* The sessions.                                                           *)

LEMMA LoginKeeps ==
  ASSUME SessionsInvariant, NEW d \in Devices, Login(d)
  PROVE  SessionsInvariant'
  <1> DEFINE c == [IdleDevice EXCEPT !.pc = "store", !.op = "login"]
  <1>1. c \in Device /\ c.pc = "store" /\ c.op = "login" /\ c.secret = NoSecret
    BY IdleDeviceType DEF IdleDevice, Device
  <1>2. /\ device' = [device EXCEPT ![d] = c] /\ device[d].pc = "idle"
        /\ UNCHANGED <<session, secret, stopped>>
    BY DEF Login, StoreStays
  <1> QED
    BY <1>1, <1>2, RequestMoves DEF SessionsInvariant, SessionsTypeOK

LEMMA PresentTokenKeeps ==
  ASSUME SessionsInvariant, NEW d \in Devices, NEW t \in Tokens,
         NEW op \in {"refresh", "logout"}, PresentToken(d, t, op)
  PROVE  SessionsInvariant'
  <1> DEFINE c == [IdleDevice EXCEPT !.pc = "find", !.op = op, !.token = t,
                                     !.current = session[t].era = "current"]
  <1>1. c \in Device /\ c.pc = "find" /\ c.token = t /\ c.secret = NoSecret
    BY IdleDeviceType DEF IdleDevice, Device
  <1>2. /\ device' = [device EXCEPT ![d] = c] /\ device[d].pc = "idle"
        /\ UNCHANGED <<session, secret, stopped>>
    BY DEF PresentToken, StoreStays
  <1> QED
    BY <1>1, <1>2, RequestMoves DEF SessionsInvariant, SessionsTypeOK

LEMMA FindTokenKeeps ==
  ASSUME SessionsInvariant, NEW d \in Devices, FindToken(d)
  PROVE  SessionsInvariant'
  <1> DEFINE pc == IF device[d].op = "refresh" THEN "exchange" ELSE "delete"
             c == [device[d] EXCEPT !.pc = pc]
  <1>1. /\ device[d] \in Device /\ stopped \in BOOLEAN
        /\ device[d].pc = "find" /\ device[d].token \in Tokens
        /\ UNCHANGED <<session, secret, stopped>>
    BY DEF FindToken, StoreStays, SessionsInvariant, SessionsTypeOK, HoldsWhatItNeeds
  <1>2. CASE DeviceEnds(d)
    BY <1>1, <1>2, RequestEnds
  <1>3. CASE DeviceGoes(d, pc)
    <2>1. c \in Device /\ c.pc \in {"exchange", "delete"} /\ c.token \in Tokens
          /\ c.secret = device[d].secret
      BY <1>1 DEF Device
    <2>2. device' = [device EXCEPT ![d] = c]
      BY <1>3 DEF DeviceGoes
    <2> QED
      BY <1>1, <2>1, <2>2, RequestMoves
  <1> QED
    BY <1>2, <1>3 DEF FindToken

LEMMA StoreTokenKeeps ==
  ASSUME SessionsInvariant, NEW d \in Devices, NEW t \in Tokens, NEW l \in Logins,
         StoreToken(d, t, l)
  PROVE  SessionsInvariant'
  <1> USE DEF SessionsInvariant
  <1> DEFINE era == IF device[d].current THEN "current" ELSE "late"
             new == [login |-> l, expired |-> FALSE, era |-> era]
  <1>1. new \in Session /\ new # NoSession /\ new.era # "old"
    <2>1. era \in {"current", "late"}
      OBVIOUS
    <2> HIDE DEF era
    <2>2. new \in Session
      BY <2>1 DEF Session
    <2> QED
      BY <2>1, <2>2, SessionsAssumption DEF Session
  <1>2. /\ device[d].pc = "store" /\ session[t] = NoSession
        /\ session' = [session EXCEPT ![t] = new]
        /\ device' = [device EXCEPT ![d] = IdleDevice]
        /\ UNCHANGED <<secret, stopped>>
    BY DEF StoreToken, DeviceEnds
  <1>3. SessionsTypeOK'
    BY <1>1, <1>2, IdleDeviceType DEF SessionsTypeOK
  <1>4. \A e \in Devices : device'[e] = IF e = d THEN IdleDevice ELSE device[e]
    BY <1>2 DEF SessionsTypeOK
  <1>5. \A u \in Tokens : session'[u] = IF u = t THEN new ELSE session[u]
    BY <1>2 DEF SessionsTypeOK
  <1>6. HoldsWhatItNeeds'
    BY <1>4 DEF HoldsWhatItNeeds, IdleDevice
  <1>7. Live' = Live \cup {t} /\ t \notin Live
    BY <1>1, <1>2, <1>5 DEF Live
  <1>8. Storing' = Storing \ {d}
    BY <1>4 DEF Storing, IdleDevice
  <1>9. /\ \A u \in Live : session[u].login # l
        /\ \A e \in Storing \ {d} : device[e].login # l
    <2>1. CASE device[d].op = "login" /\ l \notin TakenLogins
      BY <2>1 DEF TakenLogins
    <2>2. CASE device[d].op = "refresh" /\ l = device[d].login
      <3>1. d \in Storing
        BY <1>2, <2>2 DEF Storing
      <3> QED
        BY <2>2, <3>1 DEF OneTokenPerLogin
    <2> QED
      BY <2>1, <2>2 DEF StoreToken
  <1>10. OneTokenPerLogin'
    <2>1. \A u \in Live : session'[u] = session[u]
      BY <1>5, <1>7 DEF Live
    <2>2. session'[t].login = l
      BY <1>5
    <2>3. \A e \in Storing' : device'[e] = device[e] /\ e \in Storing \ {d}
      BY <1>4, <1>8 DEF Storing
    <2>4. \A u, v \in Live' : session'[u].login = session'[v].login => u = v
      BY <1>7, <1>9, <2>1, <2>2 DEF OneTokenPerLogin
    <2>5. \A e, f \in Storing' : device'[e].login = device'[f].login => e = f
      BY <2>3 DEF OneTokenPerLogin
    <2>6. \A u \in Live', e \in Storing' : session'[u].login # device'[e].login
      BY <1>7, <1>9, <2>1, <2>2, <2>3 DEF OneTokenPerLogin
    <2> QED
      BY <2>4, <2>5, <2>6 DEF OneTokenPerLogin
  <1>11. ResetEndsSessions'
    BY <1>1, <1>2, <1>4, <1>5, <1>7 DEF ResetEndsSessions, IdleDevice, Live
  <1>12. SecretHistory' /\ SecretUsedOnce'
    BY <1>2, <1>4, SessionsAssumption DEF SecretHistory, SecretUsedOnce, IdleDevice
  <1> QED
    BY <1>3, <1>6, <1>10, <1>11, <1>12

(* A token leaves the table, and what left may be what d is to follow.     *)
LEMMA ExchangeTokenKeeps ==
  ASSUME SessionsInvariant, NEW d \in Devices, ExchangeToken(d)
  PROVE  SessionsInvariant'
  <1> USE DEF SessionsInvariant
  <1> DEFINE t == device[d].token
  <1>1. /\ device[d].pc = "exchange" /\ t \in Tokens /\ UNCHANGED <<secret, stopped>>
    BY DEF ExchangeToken, HoldsWhatItNeeds
  <1>2. CASE session[t] = NoSession /\ DeviceEnds(d) /\ UNCHANGED session
    BY <1>1, <1>2, RequestEnds DEF SessionsTypeOK
  <1>3. CASE /\ session[t] # NoSession
             /\ session' = [session EXCEPT ![t] = NoSession]
             /\ device' = [device EXCEPT ![d].pc = "store", ![d].login = session[t].login]
    <2> DEFINE c == [device[d] EXCEPT !.pc = "store", !.login = session[t].login]
    <2>1. session[t].login \in Logins
      BY <1>1, <1>3 DEF SessionsTypeOK, Session
    <2>2. /\ c \in Device /\ c.pc = "store" /\ c.login = session[t].login
          /\ c.secret = device[d].secret
      BY <2>1 DEF SessionsTypeOK, Device
    <2>3. \A e \in Devices : device'[e] = IF e = d THEN c ELSE device[e]
      BY <1>3 DEF SessionsTypeOK
    <2>4. SessionsTypeOK'
      BY <1>1, <1>3, <2>2 DEF SessionsTypeOK
    <2>5. HoldsWhatItNeeds'
      BY <2>1, <2>2, <2>3 DEF HoldsWhatItNeeds
    <2>6. /\ t \in Live /\ Live' = Live \ {t}
          /\ \A u \in Live' : session'[u] = session[u]
      BY <1>1, <1>3 DEF Live, SessionsTypeOK
    <2>7. d \notin Storing /\ Storing' \subseteq Storing \cup {d}
          /\ \A e \in Storing : device'[e] = device[e]
      BY <1>1, <2>3 DEF Storing
    <2>8. OneTokenPerLogin'
      <3> DEFINE old == session[t].login
      <3>a. \A u \in Live' : u \in Live /\ session'[u].login = session[u].login
                             /\ session[u].login # old
        BY <2>6 DEF OneTokenPerLogin
      <3>b. \A e \in Storing : device[e].login # old /\ device'[e].login = device[e].login
        BY <2>6, <2>7 DEF OneTokenPerLogin
      <3>c. device'[d].login = old
        BY <2>2, <2>3
      <3> HIDE DEF old
      <3>1. \A u, v \in Live' : session'[u].login = session'[v].login => u = v
        BY <3>a DEF OneTokenPerLogin
      <3>2. \A e, f \in Storing' : device'[e].login = device'[f].login => e = f
        BY <2>7, <3>b, <3>c DEF OneTokenPerLogin
      <3>3. \A u \in Live', e \in Storing' : session'[u].login # device'[e].login
        BY <2>7, <3>a, <3>b, <3>c DEF OneTokenPerLogin
      <3> QED
        BY <3>1, <3>2, <3>3 DEF OneTokenPerLogin
    <2>9. ResetEndsSessions'
      BY <1>1, <2>3, <2>6 DEF ResetEndsSessions
    <2>10. SecretHistory' /\ SecretUsedOnce'
      BY <1>1, <2>2, <2>3 DEF SecretHistory, SecretUsedOnce
    <2> QED
      BY <2>4, <2>5, <2>8, <2>9, <2>10
  <1> QED
    BY <1>2, <1>3 DEF ExchangeToken

(* Sessions disappear while d ends.                                        *)
LEMMA SessionsGo ==
  ASSUME SessionsInvariant, NEW d \in Devices, DeviceEnds(d), UNCHANGED secret,
         NEW gone \in SUBSET Tokens,
         session' = [t \in Tokens |-> IF t \in gone THEN NoSession ELSE session[t]],
         stopped' \in BOOLEAN,
         Live \subseteq gone \/ (device[d].pc # "revoke" /\ UNCHANGED stopped)
  PROVE  SessionsInvariant'
  <1> USE DEF SessionsInvariant
  <1>1. SessionsTypeOK'
    BY IdleDeviceType DEF SessionsTypeOK, DeviceEnds
  <1>2. \A e \in Devices : device'[e] = IF e = d THEN IdleDevice ELSE device[e]
    BY DEF SessionsTypeOK, DeviceEnds
  <1>3. HoldsWhatItNeeds'
    BY <1>2 DEF HoldsWhatItNeeds, IdleDevice
  <1>4. Live' = Live \ gone /\ \A t \in Live' : session'[t] = session[t]
    BY DEF Live
  <1>5. Storing' = Storing \ {d} /\ \A e \in Storing' : device'[e] = device[e]
    BY <1>2 DEF Storing, IdleDevice
  <1>6. OneTokenPerLogin'
    BY <1>4, <1>5 DEF OneTokenPerLogin
  <1>7. ResetEndsSessions'
    BY <1>2, <1>4 DEF ResetEndsSessions
  <1>8. SecretHistory' /\ SecretUsedOnce'
    BY <1>2, SessionsAssumption DEF SecretHistory, SecretUsedOnce, IdleDevice
  <1> QED
    BY <1>1, <1>3, <1>6, <1>7, <1>8

LEMMA DeleteTokenKeeps ==
  ASSUME SessionsInvariant, NEW d \in Devices, DeleteToken(d)
  PROVE  SessionsInvariant'
  <1>1. /\ device[d].pc = "delete" /\ DeviceEnds(d) /\ UNCHANGED <<secret, stopped>>
        /\ stopped \in BOOLEAN
        /\ session' = [session EXCEPT ![device[d].token] = NoSession]
    BY DEF DeleteToken, SessionsInvariant, SessionsTypeOK
  <1>2. session' = [t \in Tokens |-> IF t \in {device[d].token} THEN NoSession ELSE session[t]]
    BY <1>1 DEF SessionsInvariant, SessionsTypeOK
  <1>3. {device[d].token} \in SUBSET Tokens
    BY <1>1 DEF SessionsInvariant, HoldsWhatItNeeds
  <1> QED
    BY <1>1, <1>2, <1>3, SessionsGo

LEMMA RevokeAllKeeps ==
  ASSUME SessionsInvariant, NEW d \in Devices, RevokeAll(d)
  PROVE  SessionsInvariant'
  <1>1. session' = [t \in Tokens |-> IF t \in Tokens THEN NoSession ELSE session[t]]
    BY DEF RevokeAll
  <1>2. Live \subseteq Tokens
    BY DEF Live
  <1> QED
    BY <1>1, <1>2, SessionsGo DEF RevokeAll

LEMMA TokenExpiresKeeps ==
  ASSUME SessionsInvariant, NEW t \in Tokens, TokenExpires(t)
  PROVE  SessionsInvariant'
  <1> USE DEF SessionsInvariant
  <1> DEFINE c == [session[t] EXCEPT !.expired = TRUE]
  <1>1. /\ session[t] # NoSession /\ session' = [session EXCEPT ![t] = c]
        /\ UNCHANGED <<secret, stopped, device>>
    BY DEF TokenExpires
  <1>2. /\ c \in Session /\ c # NoSession
        /\ c.login = session[t].login /\ c.era = session[t].era
    BY <1>1, SessionsAssumption DEF SessionsTypeOK, Session
  <1>3. SessionsTypeOK'
    BY <1>1, <1>2 DEF SessionsTypeOK
  <1>4. /\ Live' = Live
        /\ \A u \in Live : session'[u].login = session[u].login /\ session'[u].era = session[u].era
    BY <1>1, <1>2 DEF Live, SessionsTypeOK
  <1>5. OneTokenPerLogin' /\ ResetEndsSessions'
    BY <1>1, <1>4 DEF OneTokenPerLogin, ResetEndsSessions, Storing
  <1>6. HoldsWhatItNeeds' /\ SecretHistory' /\ SecretUsedOnce'
    BY <1>1 DEF HoldsWhatItNeeds, SecretHistory, SecretUsedOnce
  <1> QED
    BY <1>3, <1>5, <1>6

-----------------------------------------------------------------------------
(* The secrets.                                                            *)

(* One secret changes by one step of its life: it is new, expires, or is   *)
(* left alone; requests that hold it only matter once it has been used.    *)
LEMMA SecretBecomes ==
  ASSUME SessionsInvariant, NEW s \in Secrets, NEW c \in Secret,
         secret' = [secret EXCEPT ![s] = c], c.uses = 0,
         UNCHANGED <<session, stopped>>,
         \/ UNCHANGED device
         \/ \E d \in Devices : DeviceEnds(d) /\ device[d].pc # "revoke"
  PROVE  SessionsInvariant'
  <1> USE DEF SessionsInvariant
  <1>1. PICK d : \/ UNCHANGED device
                 \/ d \in Devices /\ DeviceEnds(d) /\ device[d].pc # "revoke"
    OBVIOUS
  <1>2. SessionsTypeOK'
    BY <1>1, IdleDeviceType DEF SessionsTypeOK, DeviceEnds
  <1>3. \A e \in Devices : device'[e] = device[e] \/ (e = d /\ device'[e] = IdleDevice
                                                     /\ device[e].pc # "revoke")
    BY <1>1 DEF SessionsTypeOK, DeviceEnds
  <1>4. HoldsWhatItNeeds'
    BY <1>3 DEF HoldsWhatItNeeds, IdleDevice
  <1>5. /\ Live' = Live /\ Storing' \subseteq Storing
        /\ \A e \in Storing' : device'[e] = device[e]
    BY <1>3 DEF Live, Storing, IdleDevice
  <1>6. OneTokenPerLogin'
    BY <1>5 DEF OneTokenPerLogin
  <1>7. ResetEndsSessions'
    BY <1>3, <1>5 DEF ResetEndsSessions
  <1>8. \A u \in Secrets : secret'[u] = IF u = s THEN c ELSE secret[u]
    BY DEF SessionsTypeOK
  <1>9. \A e \in Devices, u \in Secrets : device'[e].secret = u => device[e].secret = u
    BY <1>3, SessionsAssumption DEF IdleDevice
  <1>10. SecretHistory' /\ SecretUsedOnce'
    BY <1>8, <1>9 DEF SecretHistory, SecretUsedOnce
  <1> QED
    BY <1>2, <1>4, <1>6, <1>7, <1>10

LEMMA NewLinkKeeps ==
  ASSUME SessionsInvariant, NEW s \in Links, NewLink(s)
  PROVE  SessionsInvariant'
  <1>1. FreshSecret("unused") \in Secret /\ FreshSecret("unused").uses = 0
    BY FreshSecretType DEF FreshSecret
  <1>2. /\ s \in Secrets /\ secret' = [secret EXCEPT ![s] = FreshSecret("unused")]
        /\ UNCHANGED <<session, stopped, device>>
    BY DEF NewLink, Secrets
  <1> QED
    BY <1>1, <1>2, SecretBecomes

LEMMA CreateCodeKeeps ==
  ASSUME SessionsInvariant, NEW d \in Devices, NEW s \in Codes, CreateCode(d, s)
  PROVE  SessionsInvariant'
  <1>1. FreshSecret("unused") \in Secret /\ FreshSecret("unused").uses = 0
    BY FreshSecretType DEF FreshSecret
  <1>2. /\ s \in Secrets /\ DeviceEnds(d) /\ device[d].pc # "revoke" /\ stopped \in BOOLEAN
        /\ UNCHANGED <<session, stopped>>
    BY DEF CreateCode, Secrets, SessionsInvariant, SessionsTypeOK
  <1>3. CASE secret' = [secret EXCEPT ![s] = FreshSecret("unused")]
    BY <1>1, <1>2, <1>3, SecretBecomes
  <1>4. CASE UNCHANGED secret
    BY <1>2, <1>4, RequestEnds
  <1> QED
    BY <1>3, <1>4 DEF CreateCode

LEMMA SecretExpiresKeeps ==
  ASSUME SessionsInvariant, NEW s \in Secrets, SecretExpires(s)
  PROVE  SessionsInvariant'
  <1> DEFINE c == [secret[s] EXCEPT !.status = "expired"]
  <1>1. c \in Secret /\ c.uses = 0
    BY DEF SecretExpires, SessionsInvariant, SessionsTypeOK, SecretHistory, Secret
  <1>2. /\ secret' = [secret EXCEPT ![s] = c]
        /\ UNCHANGED <<session, stopped, device>>
    BY DEF SecretExpires
  <1> QED
    BY <1>1, <1>2, SecretBecomes

LEMMA PresentSecretKeeps ==
  ASSUME SessionsInvariant, NEW d \in Devices, NEW s \in Secrets, PresentSecret(d, s)
  PROVE  SessionsInvariant'
  <1> DEFINE c == [IdleDevice EXCEPT !.pc = "write", !.op = "reset", !.secret = s]
  <1>1. c \in Device /\ c.pc = "write" /\ c.secret = s
    BY IdleDeviceType DEF IdleDevice, Device
  <1>2. /\ device' = [device EXCEPT ![d] = c] /\ device[d].pc = "idle"
        /\ secret[s].status = "unused"
        /\ UNCHANGED <<session, secret, stopped>>
    BY DEF PresentSecret, StoreStays
  <1> QED
    BY <1>1, <1>2, RequestMoves DEF SessionsInvariant, SessionsTypeOK

(* Every unused secret is deleted, under the requests that hold it.        *)
LEMMA ForgotWithCodeKeeps ==
  ASSUME SessionsInvariant, NEW d \in Devices, ForgotWithCode(d)
  PROVE  SessionsInvariant'
  <1> USE DEF SessionsInvariant
  <1> DEFINE c == [IdleDevice EXCEPT !.pc = "createCode", !.op = "forgot"]
  <1>1. c \in Device /\ c.pc = "createCode" /\ c.secret = NoSecret
    BY IdleDeviceType DEF IdleDevice, Device
  <1>2. /\ device[d].pc = "idle" /\ UNCHANGED <<session, stopped>>
        /\ device' = [e \in Devices |->
             IF e = d THEN c
             ELSE IF device[e].secret \in Unused THEN [device[e] EXCEPT !.secret = NoSecret]
             ELSE device[e]]
        /\ secret' = [s \in Secrets |-> IF s \in Unused THEN FreshSecret("none") ELSE secret[s]]
    BY DEF ForgotWithCode
  <1> HIDE DEF c
  <1>3. \A e \in Devices : [device[e] EXCEPT !.secret = NoSecret] \in Device
    BY DEF SessionsTypeOK, Device
  <1>4. SessionsTypeOK'
    BY <1>1, <1>2, <1>3, FreshSecretType DEF SessionsTypeOK
  <1>5. \A e \in Devices \ {d} :
          /\ device'[e].pc = device[e].pc /\ device'[e].op = device[e].op
          /\ device'[e].token = device[e].token /\ device'[e].login = device[e].login
          /\ device'[e].secret = NoSecret \/ device'[e] = device[e]
    BY <1>2 DEF SessionsTypeOK, Device
  <1>6. device'[d] = c
    BY <1>2
  <1>7. HoldsWhatItNeeds'
    BY <1>1, <1>5, <1>6 DEF HoldsWhatItNeeds
  <1>8. /\ Live' = Live /\ Storing' \subseteq Storing
        /\ \A e \in Storing' : device'[e].login = device[e].login
    BY <1>1, <1>2, <1>5, <1>6 DEF Live, Storing
  <1>9. OneTokenPerLogin'
    BY <1>2, <1>8 DEF OneTokenPerLogin
  <1>10. ResetEndsSessions'
    BY <1>2, <1>5, <1>8 DEF ResetEndsSessions
  <1>11. \A e \in Devices, s \in Secrets : device'[e].secret = s => device[e].secret = s
    BY <1>1, <1>5, <1>6, SessionsAssumption
  <1>12. \A s \in Secrets : secret'[s] = FreshSecret("none") \/ secret'[s] = secret[s]
    BY <1>2
  <1>13. SecretHistory' /\ SecretUsedOnce'
    BY <1>11, <1>12 DEF SecretHistory, SecretUsedOnce, FreshSecret
  <1> QED
    BY <1>4, <1>7, <1>9, <1>10, <1>13

(* The reset itself: the sessions age, its request has them to revoke, and *)
(* the first use notes whether others hold the secret.                     *)
LEMMA WriteResetKeeps ==
  ASSUME SessionsInvariant, NEW d \in Devices, WriteReset(d)
  PROVE  SessionsInvariant'
  <1> USE DEF SessionsInvariant
  <1> DEFINE s == device[d].secret
             others == {e \in Devices \ {d} : device[e].secret = s}
             c == [device[d] EXCEPT !.pc = "revoke", !.secret = NoSecret, !.current = TRUE]
             n == [secret[s] EXCEPT !.status = "used", !.uses = @ + 1,
                                    !.shared = @ \/ (secret[s].uses = 0 /\ others # {})]
  <1>1. device[d].pc = "write" /\ UNCHANGED stopped /\ device[d] \in Device
    BY DEF WriteReset, SessionsTypeOK
  <1>2. CASE s = NoSecret /\ DeviceEnds(d) /\ UNCHANGED <<secret, session>>
    BY <1>1, <1>2, RequestEnds DEF SessionsTypeOK
  <1>3. CASE /\ s # NoSecret
             /\ secret' = [secret EXCEPT ![s] = n]
             /\ session' = [t \in Tokens |-> Aged(t)]
             /\ device' = [e \in Devices |-> IF e = d THEN c ELSE Outdated(device[e])]
    <2>1. s \in Secrets /\ secret[s] \in Secret
      BY <1>1, <1>3 DEF SessionsTypeOK, Device
    <2>2. /\ n.status = "used" /\ n.uses = secret[s].uses + 1
          /\ n.shared = (secret[s].shared \/ (secret[s].uses = 0 /\ others # {}))
          /\ n \in Secret
      <3> DEFINE b == secret[s].shared \/ (secret[s].uses = 0 /\ others # {})
      <3>1. PICK k \in Nat : k = secret[s].uses + 1
        BY <2>1 DEF Secret
      <3>2. PICK v \in BOOLEAN : v = b
        OBVIOUS
      <3>3. n = [secret[s] EXCEPT !.status = "used", !.uses = k, !.shared = v]
        BY <3>1, <3>2
      <3>4. n.status = "used" /\ n.uses = k /\ n.shared = v /\ n \in Secret
        <4>1. PICK r \in Secret : r = secret[s]
          BY <2>1
        <4> HIDE DEF b, n, s
        <4>2. n = [r EXCEPT !.status = "used", !.uses = k, !.shared = v]
          BY <3>3, <4>1
        <4>3. n.status = "used" /\ n.uses = k /\ n.shared = v
          BY <4>2, Zenon DEF Secret
        <4>4. n \in Secret
          BY <4>2 DEF Secret
        <4> QED
          BY <4>3, <4>4
      <3> QED
        BY <3>1, <3>2, <3>4 DEF b
    <2>3. c \in Device /\ c.pc = "revoke" /\ c.secret = NoSecret
      BY <1>1, SessionsAssumption DEF Device
    <2>4. \A e \in Devices :
            /\ Outdated(device[e]) \in Device
            /\ Outdated(device[e]).pc = device[e].pc /\ Outdated(device[e]).op = device[e].op
            /\ Outdated(device[e]).token = device[e].token
            /\ Outdated(device[e]).login = device[e].login
            /\ Outdated(device[e]).secret = device[e].secret
      BY DEF Outdated, SessionsTypeOK, Device
    <2> HIDE DEF c, n
    <2>5. SessionsTypeOK'
      BY <1>1, <1>3, <2>1, <2>2, <2>3, <2>4, AgedType DEF SessionsTypeOK
    <2>6. \A e \in Devices : device'[e] = IF e = d THEN c ELSE Outdated(device[e])
      BY <1>3
    <2>7. HoldsWhatItNeeds'
      BY <2>3, <2>4, <2>6 DEF HoldsWhatItNeeds
    <2>8. Live' = Live /\ \A t \in Live : session'[t].login = session[t].login
      BY <1>3, AgedType DEF Live
    <2>9. Storing' \subseteq Storing /\ \A e \in Storing' : device'[e].login = device[e].login
      BY <2>3, <2>4, <2>6 DEF Storing
    <2>10. OneTokenPerLogin'
      BY <2>8, <2>9 DEF OneTokenPerLogin
    <2>11. ResetEndsSessions'
      BY <2>3, <2>6 DEF ResetEndsSessions
    <2>12. \A u \in Secrets : secret'[u] = IF u = s THEN n ELSE secret[u]
      BY <1>3, <2>1 DEF SessionsTypeOK
    <2>13. \A e \in Devices, u \in Secrets :
             device'[e].secret = u => e # d /\ device[e].secret = u
      BY <2>3, <2>4, <2>6, SessionsAssumption
    <2>14. secret[s].uses > 0 => secret[s].shared
      BY <2>1 DEF SecretHistory
    <2>15. (\E e \in Devices : device'[e].secret = s) => n.shared
      BY <2>1, <2>2, <2>13, <2>14 DEF Secret
    <2>16. n.uses > 1 => n.shared
      BY <2>1, <2>2, <2>14 DEF Secret
    <2>17. SecretHistory' /\ SecretUsedOnce'
      BY <2>2, <2>12, <2>13, <2>15, <2>16 DEF SecretHistory, SecretUsedOnce
    <2> QED
      BY <2>5, <2>7, <2>10, <2>11, <2>17
  <1> QED
    BY <1>2, <1>3 DEF WriteReset

-----------------------------------------------------------------------------
(* The theorems.                                                           *)

LEMMA RequestFailsKeeps ==
  ASSUME SessionsInvariant, NEW d \in Devices, RequestFails(d)
  PROVE  SessionsInvariant'
  BY RequestEnds DEF RequestFails, SessionsInvariant, SessionsTypeOK

LEMMA SessionsStep ==
  ASSUME SessionsInvariant, [SessionsNext]_sessionsVars
  PROVE  SessionsInvariant'
  <1>1. CASE UNCHANGED sessionsVars
    BY <1>1 DEF sessionsVars, SessionsInvariant, SessionsTypeOK, HoldsWhatItNeeds,
           OneTokenPerLogin, ResetEndsSessions, SecretHistory, SecretUsedOnce, Live, Storing
  <1>2. ASSUME NEW d \in Devices,
               Login(d) \/ FindToken(d) \/ ExchangeToken(d) \/ DeleteToken(d)
        PROVE  SessionsInvariant'
    BY <1>2, LoginKeeps, FindTokenKeeps, ExchangeTokenKeeps, DeleteTokenKeeps
  <1>3. ASSUME NEW d \in Devices, NEW t \in Tokens,
               \/ \E l \in Logins : StoreToken(d, t, l)
               \/ \E op \in {"refresh", "logout"} : PresentToken(d, t, op)
        PROVE  SessionsInvariant'
    BY <1>3, StoreTokenKeeps, PresentTokenKeeps
  <1>4. ASSUME NEW d \in Devices,
               \/ ForgotWithCode(d) \/ WriteReset(d) \/ RevokeAll(d) \/ RequestFails(d)
               \/ \E s \in Codes : CreateCode(d, s)
               \/ \E s \in Secrets : PresentSecret(d, s)
        PROVE  SessionsInvariant'
    BY <1>4, ForgotWithCodeKeeps, WriteResetKeeps, RevokeAllKeeps, RequestFailsKeeps,
       CreateCodeKeeps, PresentSecretKeeps
  <1>5. ASSUME \/ \E s \in Links : NewLink(s)
               \/ \E t \in Tokens : TokenExpires(t)
               \/ \E s \in Secrets : SecretExpires(s)
        PROVE  SessionsInvariant'
    BY <1>5, NewLinkKeeps, TokenExpiresKeeps, SecretExpiresKeeps
  <1> QED
    BY <1>1, <1>2, <1>3, <1>4, <1>5 DEF SessionsNext

LEMMA SessionsInductive == SessionsSpec => []SessionsInvariant
  BY InitSessions, SessionsStep, PTL DEF SessionsSpec

(* Every variable of the sessions has its type.                            *)
THEOREM SessionsTypeCorrect == SessionsSpec => []SessionsTypeOK
  BY SessionsInductive, PTL DEF SessionsInvariant

(* However refreshes, logouts and resets race, a login has one live token  *)
(* (refreshTokens, whose deleteMany lets one caller go on).                *)
THEOREM OneTokenCorrect == SessionsSpec => []OneTokenPerLogin
  BY SessionsInductive, PTL DEF SessionsInvariant

(* A session older than a reset is gone once its revocation has run.       *)
THEOREM ResetCorrect == SessionsSpec => []ResetEndsSessions
  BY SessionsInductive, PTL DEF SessionsInvariant

(* A secret resets the password twice only if two requests had it accepted *)
(* before either of them used it.                                          *)
THEOREM SecretCorrect == SessionsSpec => []SecretUsedOnce
  BY SessionsInductive, PTL DEF SessionsInvariant

-----------------------------------------------------------------------------
(* Registration.                                                           *)

SignupsApart ==
  /\ \A e, f \in Emails : (/\ pending[e] # Unwritten /\ pending[f] # Unwritten
                           /\ pending[e].signup = pending[f].signup) => e = f
  /\ \A e \in Emails, a \in Accounts :
       (pending[e] # Unwritten /\ account[a] # Unwritten) => pending[e].signup # account[a].signup

(* The change a request is about to spend, while it is there.              *)
Spending(v) ==
  /\ change[visitor[v].row] # Unwritten
  /\ change[visitor[v].row].account = visitor[v].account
  /\ change[visitor[v].row].email = visitor[v].email

RequestsHold ==
  \A v \in Visitors :
    LET r == visitor[v]
    IN  /\ r.pc \notin {"idle", "findPending", "insertPending", "create", "renew"} =>
             r.account \in Accounts
        /\ r.op \in {"request", "confirm"} => r.email = Lower[r.email]
        /\ r.pc \in {"findChange", "spend"} => r.op = "confirm"
        /\ r.pc = "spend" => r.row \in Changes \cup {Unwritten}
        /\ r.pc \in {"create", "renew"} => r.row \in Signups
        /\ r.pc \in {"deleteChanges", "insertChange"} => r.op = "request"
        /\ (r.pc = "spend" /\ r.row # Unwritten) => Spending(v)

RegistrationInvariant ==
  /\ RegistrationTypeOK
  /\ SignupsApart
  /\ RequestsHold
  /\ RegisteredOnce
  /\ ChangedAddressAnswered

LEMMA IdleVisitorType == IdleVisitor \in Visitor /\ IdleVisitor.pc = "idle"
                         /\ IdleVisitor.op = "register"
  BY RegistrationAssumption DEF IdleVisitor, Visitor

LEMMA InitRegistration == RegistrationInit => RegistrationInvariant
  <1> SUFFICES ASSUME RegistrationInit PROVE RegistrationInvariant
    OBVIOUS
  <1>1. PICK a \in Accounts, e \in Typed, there \in BOOLEAN :
          account = [b \in Accounts |-> IF b = a /\ there
                       THEN [email |-> e, signup |-> Unwritten, via |-> "profile"] ELSE Unwritten]
    BY DEF RegistrationInit
  <1>2. [email |-> e, signup |-> Unwritten, via |-> "profile"] \in Account
    BY RegistrationAssumption DEF Account
  <1>3. \A b \in Accounts : account[b] # Unwritten =>
          account[b].signup = Unwritten /\ account[b].via = "profile"
    BY <1>1
  <1>4. account \in [Accounts -> Account \cup {Unwritten}]
    BY <1>1, <1>2
  <1>5. RegistrationTypeOK
    BY <1>4, IdleVisitorType DEF RegistrationInit, RegistrationTypeOK
  <1>6. SignupsApart /\ RegisteredOnce /\ ChangedAddressAnswered
    BY <1>3 DEF RegistrationInit, SignupsApart, RegisteredOnce, ChangedAddressAnswered
  <1>7. RequestsHold
    BY IdleVisitorType DEF RegistrationInit, RequestsHold
  <1> QED
    BY <1>5, <1>6, <1>7 DEF RegistrationInvariant

-----------------------------------------------------------------------------
(* The tables stay, and one request begins, moves on or ends.              *)
LEMMA VisitorIs ==
  ASSUME RegistrationInvariant, RowsStay, NEW v \in Visitors, NEW c \in Visitor,
         visitor' = [visitor EXCEPT ![v] = c],
         c.pc \notin {"idle", "findPending", "insertPending", "create", "renew"} =>
           c.account \in Accounts,
         c.op \in {"request", "confirm"} => c.email = Lower[c.email],
         c.pc \in {"findChange", "spend"} => c.op = "confirm",
         c.pc \in {"deleteChanges", "insertChange"} => c.op = "request",
         c.pc = "spend" => c.row \in Changes \cup {Unwritten},
         c.pc \in {"create", "renew"} => c.row \in Signups,
         (c.pc = "spend" /\ c.row # Unwritten) =>
           /\ change[c.row] # Unwritten /\ change[c.row].account = c.account
           /\ change[c.row].email = c.email
  PROVE  RegistrationInvariant'
  <1> USE DEF RegistrationInvariant, RowsStay
  <1>1. RegistrationTypeOK'
    BY DEF RegistrationTypeOK
  <1>2. \A w \in Visitors : visitor'[w] = IF w = v THEN c ELSE visitor[w]
    BY DEF RegistrationTypeOK
  <1>3. RequestsHold'
    BY <1>2 DEF RequestsHold, Spending
  <1>4. SignupsApart' /\ RegisteredOnce' /\ ChangedAddressAnswered'
    BY DEF SignupsApart, RegisteredOnce, ChangedAddressAnswered
  <1> QED
    BY <1>1, <1>3, <1>4

LEMMA VisitorLeaves ==
  ASSUME RegistrationInvariant, RowsStay, NEW v \in Visitors, VisitorEnds(v)
  PROVE  RegistrationInvariant'
  BY IdleVisitorType, VisitorIs DEF VisitorEnds

LEMMA VisitorStartsKeep ==
  ASSUME RegistrationInvariant, NEW v \in Visitors, NEW e \in Typed,
         \/ Register(v, e) \/ VerifyEmail(v, e) \/ ResendVerification(v, e)
         \/ \E a \in Accounts : RequestChange(v, a, e) \/ ConfirmChange(v, a, e) \/ UpdateProfile(v, a, e)
  PROVE  RegistrationInvariant'
  <1> USE DEF RegistrationInvariant
  <1>1. ASSUME NEW pc \in {"findPending", "create", "renew", "free", "write"},
               NEW op \in {"register", "verify", "resend", "request", "confirm", "profile"},
               NEW a \in Accounts \cup {Unwritten}, NEW f \in Emails,
               NEW row \in Signups \cup {Unwritten}, Starts(v, pc, op, f, a, row),
               pc \in {"free", "write"} => a \in Accounts,
               pc \in {"create", "renew"} => row \in Signups,
               op \in {"request", "confirm"} => f = Lower[f]
        PROVE  RegistrationInvariant'
    <2> DEFINE c == [pc |-> pc, op |-> op, email |-> f, account |-> a, row |-> row]
    <2>1. c \in Visitor
      BY DEF Visitor
    <2>2. visitor' = [visitor EXCEPT ![v] = c] /\ RowsStay
      BY <1>1 DEF Starts
    <2> QED
      BY <1>1, <2>1, <2>2, VisitorIs
  <1>2. e \in Emails /\ Lower[e] \in Emails /\ Lower[Lower[e]] = Lower[e]
    BY RegistrationAssumption
  <1>3. pending[e] # Unwritten => pending[e].signup \in Signups
    BY <1>2 DEF RegistrationTypeOK, Pending
  <1>4. CASE Register(v, e) \/ VerifyEmail(v, e) \/ ResendVerification(v, e)
    BY <1>1, <1>2, <1>3, <1>4 DEF Register, VerifyEmail, ResendVerification
  <1>5. ASSUME NEW a \in Accounts,
               RequestChange(v, a, e) \/ ConfirmChange(v, a, e) \/ UpdateProfile(v, a, e)
        PROVE  RegistrationInvariant'
    BY <1>1, <1>2, <1>5 DEF RequestChange, ConfirmChange, UpdateProfile
  <1> QED
    BY <1>4, <1>5
LEMMA VisitorMovesKeep ==
  ASSUME RegistrationInvariant, RowsStay, NEW v \in Visitors,
         NEW pc \in {"insertPending", "deleteChanges", "findChange", "write"},
         VisitorGoes(v, pc),
         pc = "insertPending" \/ visitor[v].account \in Accounts,
         pc = "findChange" => visitor[v].op = "confirm",
         pc = "deleteChanges" => visitor[v].op = "request"
  PROVE  RegistrationInvariant'
  <1> DEFINE c == [visitor[v] EXCEPT !.pc = pc]
  <1>1. /\ c \in Visitor /\ c.pc = pc /\ c.op = visitor[v].op /\ c.email = visitor[v].email
        /\ c.account = visitor[v].account /\ c.row = visitor[v].row
    BY DEF RegistrationInvariant, RegistrationTypeOK, Visitor
  <1>2. visitor' = [visitor EXCEPT ![v] = c]
    BY DEF VisitorGoes
  <1> HIDE DEF c
  <1>3. c.op \in {"request", "confirm"} => c.email = Lower[c.email]
    BY <1>1 DEF RegistrationInvariant, RequestsHold
  <1> QED
    BY <1>1, <1>2, <1>3, VisitorIs

LEMMA LookupsKeep ==
  ASSUME RegistrationInvariant, NEW v \in Visitors,
         FindPending(v) \/ FindInUse(v) \/ VisitorFails(v)
  PROVE  RegistrationInvariant'
  <1>1. CASE FindPending(v)
    BY <1>1, VisitorMovesKeep, VisitorLeaves DEF FindPending
  <1>2. CASE FindInUse(v)
    <2>1. RowsStay /\ visitor[v].account \in Accounts
      BY <1>2 DEF FindInUse, RegistrationInvariant, RequestsHold
    <2>2. CASE visitor[v].op = "request"
      BY <1>2, <2>1, <2>2, VisitorMovesKeep, VisitorLeaves DEF FindInUse
    <2>3. CASE visitor[v].op = "confirm"
      BY <1>2, <2>1, <2>3, VisitorMovesKeep, VisitorLeaves DEF FindInUse
    <2>4. CASE visitor[v].op \notin {"request", "confirm"}
      BY <1>2, <2>1, <2>4, VisitorMovesKeep, VisitorLeaves DEF FindInUse
    <2> QED
      BY <2>2, <2>3, <2>4
  <1>3. CASE VisitorFails(v)
    BY <1>3, VisitorLeaves DEF VisitorFails
  <1> QED
    BY <1>1, <1>2, <1>3

(* The row that was found becomes the one to spend.                        *)
LEMMA FindChangeKeeps ==
  ASSUME RegistrationInvariant, NEW v \in Visitors, NEW k \in Changes, FindChange(v, k)
  PROVE  RegistrationInvariant'
  <1> DEFINE c == [visitor[v] EXCEPT !.pc = "spend", !.row = k]
  <1>1. /\ c \in Visitor /\ c.pc = "spend" /\ c.op = visitor[v].op /\ c.email = visitor[v].email
        /\ c.account = visitor[v].account /\ c.row = k
    BY DEF RegistrationInvariant, RegistrationTypeOK, Visitor
  <1>2. /\ visitor' = [visitor EXCEPT ![v] = c] /\ RowsStay
        /\ change[k] # Unwritten
        /\ change[k].account = visitor[v].account /\ change[k].email = visitor[v].email
        /\ visitor[v].pc = "findChange"
    BY DEF FindChange
  <1> HIDE DEF c
  <1>3. c.op = "confirm" /\ c.account \in Accounts /\ c.email = Lower[c.email]
    BY <1>1, <1>2 DEF RegistrationInvariant, RequestsHold
  <1> QED
    BY <1>1, <1>2, <1>3, VisitorIs

-----------------------------------------------------------------------------
(* PendingRegistration and the accounts that come from it.                 *)

(* The pending row of one address is written: a new one, or the same one   *)
(* with another expiry, or none.                                           *)
LEMMA PendingBecomes ==
  ASSUME RegistrationInvariant, NEW e \in Emails, NEW n \in Pending,
         pending' = [pending EXCEPT ![e] = n], UNCHANGED <<account, change>>,
         visitor' = visitor \/ \E v \in Visitors : VisitorEnds(v),
         \/ pending[e] # Unwritten /\ n.signup = pending[e].signup
         \/ NewSignup(n.signup)
  PROVE  RegistrationInvariant'
  <1> USE DEF RegistrationInvariant
  <1>1. PICK v : visitor' = visitor \/ (v \in Visitors /\ VisitorEnds(v))
    OBVIOUS
  <1>2. \A w \in Visitors : visitor'[w] = visitor[w] \/ visitor'[w] = IdleVisitor
    BY <1>1 DEF VisitorEnds, RegistrationTypeOK
  <1>3. visitor' \in [Visitors -> Visitor]
    BY <1>1, IdleVisitorType DEF VisitorEnds, RegistrationTypeOK
  <1>4. \A f \in Emails : pending'[f] = IF f = e THEN n ELSE pending[f]
    BY DEF RegistrationTypeOK
  <1>5. RegistrationTypeOK'
    BY <1>3 DEF RegistrationTypeOK
  <1>6. SignupsApart'
    BY <1>4, RegistrationAssumption DEF SignupsApart, NewSignup, RegistrationTypeOK
  <1>7. RequestsHold'
    BY <1>2, IdleVisitorType DEF RequestsHold, Spending
  <1>8. RegisteredOnce' /\ ChangedAddressAnswered'
    BY DEF RegisteredOnce, ChangedAddressAnswered
  <1> QED
    BY <1>5, <1>6, <1>7, <1>8

LEMMA PendingKeeps ==
  ASSUME RegistrationInvariant,
         \/ \E v \in Visitors : RenewCode(v) \/ \E s \in Signups : InsertPending(v, s)
         \/ \E e \in Emails : PendingExpires(e)
  PROVE  RegistrationInvariant'
  <1> USE DEF RegistrationInvariant
  <1>1. ASSUME NEW v \in Visitors, NEW s \in Signups, InsertPending(v, s)
        PROVE  RegistrationInvariant'
    <2>1. visitor[v].email \in Emails /\ [signup |-> s, expired |-> FALSE] \in Pending
          /\ [signup |-> s, expired |-> FALSE].signup = s
      BY DEF RegistrationTypeOK, Visitor, Pending
    <2> QED
      BY <1>1, <2>1, PendingBecomes DEF InsertPending
  <1>2. ASSUME NEW v \in Visitors, RenewCode(v)
        PROVE  RegistrationInvariant'
    <2> DEFINE e == visitor[v].email
               n == [pending[e] EXCEPT !.expired = FALSE]
    <2>1. e \in Emails
      BY DEF RegistrationTypeOK, Visitor
    <2>2. CASE pending[e] # Unwritten
      <3>1. n \in Pending /\ n.signup = pending[e].signup
        BY <2>1, <2>2 DEF RegistrationTypeOK, Pending
      <3>2. pending' = [pending EXCEPT ![e] = n] /\ VisitorEnds(v) /\ UNCHANGED <<account, change>>
        BY <1>2 DEF RenewCode
      <3> QED
        BY <2>1, <2>2, <3>1, <3>2, PendingBecomes
    <2>3. CASE pending[e] = Unwritten
      <3>1. visitor[v].pc = "renew" /\ visitor[v].row = Unwritten
        BY <1>2, <2>3 DEF RenewCode, RowOf
      <3> QED
        BY <3>1, RegistrationAssumption DEF RequestsHold
    <2> QED
      BY <2>2, <2>3
  <1>3. ASSUME NEW e \in Emails, PendingExpires(e)
        PROVE  RegistrationInvariant'
    <2> DEFINE n == [pending[e] EXCEPT !.expired = TRUE]
    <2>1. n \in Pending /\ n.signup = pending[e].signup
      BY <1>3 DEF PendingExpires, RegistrationTypeOK, Pending
    <2> QED
      BY <1>3, <2>1, PendingBecomes DEF PendingExpires
  <1> QED
    BY <1>1, <1>2, <1>3
(* A pending row becomes an account: its registration is then pending no   *)
(* more, and no other account has it.                                      *)
LEMMA CreateAccountKeeps ==
  ASSUME RegistrationInvariant, NEW v \in Visitors, NEW a \in Accounts, CreateAccount(v, a)
  PROVE  RegistrationInvariant'
  <1> USE DEF RegistrationInvariant
  <1> DEFINE e == visitor[v].email
  <1>1. /\ e \in Emails /\ visitor[v].pc = "create" /\ visitor[v].row \in Signups
        /\ Born(v) \in Account /\ Born(v).signup = visitor[v].row /\ Born(v).via = "code"
    BY DEF CreateAccount, RequestsHold, RegistrationTypeOK, Visitor, Born, Account
  <1>2. pending[e] # Unwritten /\ pending[e].signup = visitor[v].row
    BY <1>1, RegistrationAssumption DEF CreateAccount, RowOf
  <1>3. /\ account[a] = Unwritten
        /\ account' = [account EXCEPT ![a] = Born(v)]
        /\ pending' = [pending EXCEPT ![e] = Unwritten]
        /\ visitor' = [visitor EXCEPT ![v] = IdleVisitor] /\ UNCHANGED change
    BY DEF CreateAccount, NewAccount, VisitorEnds
  <1> HIDE DEF e
  <1>4. /\ \A b \in Accounts : account'[b] = IF b = a THEN Born(v) ELSE account[b]
        /\ \A f \in Emails : pending'[f] = IF f = e THEN Unwritten ELSE pending[f]
        /\ \A w \in Visitors : visitor'[w] = IF w = v THEN IdleVisitor ELSE visitor[w]
    BY <1>3 DEF RegistrationTypeOK
  <1>5. RegistrationTypeOK'
    BY <1>1, <1>3, IdleVisitorType DEF RegistrationTypeOK
  <1>6. SignupsApart'
    BY <1>1, <1>2, <1>4 DEF SignupsApart
  <1>7. RequestsHold'
    BY <1>3, <1>4, IdleVisitorType DEF RequestsHold, Spending
  <1>8. RegisteredOnce'
    BY <1>1, <1>2, <1>4 DEF RegisteredOnce, SignupsApart
  <1>9. ChangedAddressAnswered'
    BY <1>1, <1>3, <1>4 DEF ChangedAddressAnswered
  <1> QED
    BY <1>5, <1>6, <1>7, <1>8, <1>9

-----------------------------------------------------------------------------
(* The change requests.                                                    *)

LEMMA DeleteChangesKeeps ==
  ASSUME RegistrationInvariant, NEW v \in Visitors, DeleteChanges(v)
  PROVE  RegistrationInvariant'
  <1> USE DEF RegistrationInvariant
  <1> DEFINE gone == {c \in Changes : /\ change[c] # Unwritten
                                      /\ change[c].account = visitor[v].account
                                      /\ change[c].status # "used"}
             next == [visitor[v] EXCEPT !.pc = "insertChange"]
             cut(w) == [visitor[w] EXCEPT !.row = Unwritten]
  <1>1. /\ visitor[v].pc = "deleteChanges" /\ UNCHANGED <<account, pending>>
        /\ change' = [c \in Changes |-> IF c \in gone THEN Unwritten ELSE change[c]]
        /\ visitor' = [w \in Visitors |->
             IF w = v THEN next ELSE IF visitor[w].row \in gone THEN cut(w) ELSE visitor[w]]
    BY DEF DeleteChanges
  <1>2. /\ next \in Visitor /\ next.pc = "insertChange" /\ next.op = visitor[v].op
        /\ next.account = visitor[v].account /\ next.email = visitor[v].email
        /\ next.row = visitor[v].row
    BY DEF RegistrationTypeOK, Visitor
  <1>3. \A w \in Visitors :
          /\ cut(w) \in Visitor /\ cut(w).pc = visitor[w].pc /\ cut(w).op = visitor[w].op
          /\ cut(w).account = visitor[w].account /\ cut(w).email = visitor[w].email
          /\ cut(w).row = Unwritten
    BY DEF RegistrationTypeOK, Visitor
  <1>4. gone \subseteq Changes /\ \A c \in Changes \ gone : change'[c] = change[c]
    BY <1>1
  <1>5. \A c \in Changes : change[c] # Unwritten /\ change[c].status = "used" => c \notin gone
    OBVIOUS
  <1> HIDE DEF gone, next, cut
  <1>6. visitor' \in [Visitors -> Visitor]
    BY <1>1, <1>2, <1>3 DEF RegistrationTypeOK
  <1>7. RegistrationTypeOK'
    BY <1>1, <1>6 DEF RegistrationTypeOK
  <1>8. RequestsHold'
    <2>1. \A w \in Visitors :
           /\ visitor'[w].account = visitor[w].account /\ visitor'[w].op = visitor[w].op
           /\ visitor'[w].email = visitor[w].email
           /\ \/ visitor'[w].pc = visitor[w].pc
              \/ visitor[w].pc = "deleteChanges" /\ visitor'[w].pc = "insertChange"
      BY <1>1, <1>2, <1>3
    <2>2. ASSUME NEW w \in Visitors, visitor[w].pc = "spend", visitor'[w].row # Unwritten
          PROVE  Spending(w)'
      <3>1. w # v /\ visitor'[w] = visitor[w] /\ visitor[w].row \notin gone
        BY <1>1, <1>3, <2>2
      <3>2. Spending(w) /\ visitor[w].row \in Changes
        BY <2>2, <3>1 DEF RequestsHold
      <3> QED
        BY <1>4, <3>1, <3>2 DEF Spending
    <2>3. ASSUME NEW w \in Visitors, visitor[w].pc \in {"create", "renew"}
          PROVE  visitor'[w] = visitor[w]
      <3>1. w # v /\ visitor[w].row \notin gone
        BY <1>1, <1>4, <2>3, RegistrationAssumption DEF RequestsHold
      <3> QED
        BY <1>1, <3>1
    <2>4. ASSUME NEW w \in Visitors, visitor'[w].pc = "spend"
          PROVE  visitor'[w].row \in Changes \cup {Unwritten}
      <3>1. w # v /\ visitor[w].pc = "spend"
        BY <1>1, <1>2, <2>1, <2>4
      <3> QED
        BY <1>1, <1>3, <3>1 DEF RequestsHold
    <2> QED
      BY <1>1, <1>2, <2>1, <2>2, <2>3, <2>4 DEF RequestsHold
  <1>9. SignupsApart' /\ RegisteredOnce'
    BY <1>1 DEF SignupsApart, RegisteredOnce
  <1>10. ChangedAddressAnswered'
    <2>1. ASSUME NEW a \in Accounts, account[a] # Unwritten, account[a].via = "change"
          PROVE  \E c \in Changes : change'[c] = [account |-> a, email |-> account[a].email,
                                                  status |-> "used"]
      <3>1. PICK c \in Changes : change[c] = [account |-> a, email |-> account[a].email,
                                              status |-> "used"]
        BY <2>1 DEF ChangedAddressAnswered
      <3>2. change[c] # Unwritten /\ change[c].status = "used"
        <4>1. change[c].status = "used" /\ change[c] \in Change \cup {Unwritten}
          BY <3>1 DEF RegistrationTypeOK
        <4>2. account[a].email \in Emails
          BY <2>1 DEF RegistrationTypeOK, Account
        <4>3. change[c] \in Change
          BY <3>1, <4>2 DEF Change
        <4> QED
          BY <4>1, <4>3, RegistrationAssumption
      <3> QED
        BY <1>4, <1>5, <3>1, <3>2
    <2> QED
      BY <1>1, <2>1 DEF ChangedAddressAnswered
  <1> QED
    BY <1>7, <1>8, <1>9, <1>10
(* The used request that answers for an address an account has changed to. *)
LEMMA AnswerOf ==
  ASSUME RegistrationInvariant, NEW a \in Accounts, account[a] # Unwritten,
         account[a].via = "change"
  PROVE  \E c \in Changes :
           /\ change[c] = [account |-> a, email |-> account[a].email, status |-> "used"]
           /\ change[c] # Unwritten /\ change[c].status = "used" /\ change[c].account = a
  <1>1. PICK c \in Changes : change[c] = [account |-> a, email |-> account[a].email,
                                          status |-> "used"]
    BY DEF RegistrationInvariant, ChangedAddressAnswered
  <1>2. account[a].email \in Emails
    BY DEF RegistrationInvariant, RegistrationTypeOK, Account
  <1>3. change[c] \in Change
    BY <1>1, <1>2 DEF Change
  <1> QED
    BY <1>1, <1>3, RegistrationAssumption

LEMMA InsertChangeKeeps ==
  ASSUME RegistrationInvariant, NEW v \in Visitors, NEW k \in Changes, InsertChange(v, k)
  PROVE  RegistrationInvariant'
  <1> USE DEF RegistrationInvariant
  <1> DEFINE n == [account |-> visitor[v].account, email |-> visitor[v].email, status |-> "unused"]
  <1>1. /\ change[k] = Unwritten
        /\ change' = [change EXCEPT ![k] = n]
        /\ visitor' = [visitor EXCEPT ![v] = IdleVisitor]
        /\ UNCHANGED <<account, pending>>
    BY DEF InsertChange, NewChange, VisitorEnds
  <1>2. n \in Change
    BY DEF InsertChange, RequestsHold, RegistrationTypeOK, Visitor, Change
  <1> HIDE DEF n
  <1>3. \A w \in Visitors : visitor'[w] = IF w = v THEN IdleVisitor ELSE visitor[w]
    BY <1>1 DEF RegistrationTypeOK
  <1>4. \A c \in Changes : change[c] # Unwritten => change'[c] = change[c]
    BY <1>1 DEF RegistrationTypeOK
  <1>5. RegistrationTypeOK'
    BY <1>1, <1>2, IdleVisitorType DEF RegistrationTypeOK
  <1>6. RequestsHold'
    <2>1. ASSUME NEW w \in Visitors, w # v, visitor[w].pc = "spend", visitor[w].row # Unwritten
          PROVE  Spending(w)'
      <3>1. Spending(w) /\ visitor[w].row \in Changes
        BY <2>1 DEF RequestsHold
      <3> QED
        BY <1>3, <1>4, <2>1, <3>1 DEF Spending
    <2> QED
      BY <1>3, <2>1, IdleVisitorType DEF RequestsHold
  <1>7. SignupsApart' /\ RegisteredOnce'
    BY <1>1 DEF SignupsApart, RegisteredOnce
  <1>8. ChangedAddressAnswered'
    <2>1. ASSUME NEW a \in Accounts, account[a] # Unwritten, account[a].via = "change"
          PROVE  \E c \in Changes : change'[c] = [account |-> a, email |-> account[a].email,
                                                  status |-> "used"]
      BY <1>4, <2>1, AnswerOf
    <2> QED
      BY <1>1, <2>1 DEF ChangedAddressAnswered
  <1> QED
    BY <1>5, <1>6, <1>7, <1>8

(* The status of a row changes, and it was not used before.                *)
LEMMA ChangeExpiresKeeps ==
  ASSUME RegistrationInvariant, NEW k \in Changes, ChangeExpires(k)
  PROVE  RegistrationInvariant'
  <1> USE DEF RegistrationInvariant
  <1> DEFINE n == [change[k] EXCEPT !.status = "expired"]
  <1>1. /\ change[k] # Unwritten /\ change[k].status = "unused"
        /\ change' = [change EXCEPT ![k] = n] /\ UNCHANGED <<account, pending, visitor>>
    BY DEF ChangeExpires
  <1>2. n \in Change /\ n # Unwritten /\ n.account = change[k].account /\ n.email = change[k].email
    BY <1>1, RegistrationAssumption DEF RegistrationTypeOK, Change
  <1> HIDE DEF n
  <1>3. \A c \in Changes : change'[c] = IF c = k THEN n ELSE change[c]
    BY <1>1 DEF RegistrationTypeOK
  <1>4. RegistrationTypeOK'
    BY <1>1, <1>2 DEF RegistrationTypeOK
  <1>5. RequestsHold'
    <2>1. ASSUME NEW w \in Visitors, visitor[w].pc = "spend", visitor[w].row # Unwritten
          PROVE  Spending(w)'
      <3>1. Spending(w) /\ visitor[w].row \in Changes
        BY <2>1 DEF RequestsHold
      <3> QED
        BY <1>1, <1>2, <1>3, <3>1 DEF Spending
    <2> QED
      BY <1>1, <2>1 DEF RequestsHold
  <1>6. SignupsApart' /\ RegisteredOnce'
    BY <1>1 DEF SignupsApart, RegisteredOnce
  <1>7. ChangedAddressAnswered'
    <2>1. ASSUME NEW a \in Accounts, account[a] # Unwritten, account[a].via = "change"
          PROVE  \E c \in Changes : change'[c] = [account |-> a, email |-> account[a].email,
                                                  status |-> "used"]
      <3>1. PICK c \in Changes :
              /\ change[c] = [account |-> a, email |-> account[a].email, status |-> "used"]
              /\ change[c].status = "used"
        BY <2>1, AnswerOf
      <3>2. c # k
        BY <1>1, <3>1
      <3> QED
        BY <1>3, <3>1, <3>2
    <2> QED
      BY <1>1, <2>1 DEF ChangedAddressAnswered
  <1> QED
    BY <1>4, <1>5, <1>6, <1>7

-----------------------------------------------------------------------------
(* Writing an address.                                                     *)

LEMMA AddressWritten ==
  ASSUME RegistrationTypeOK, NEW v \in Visitors, NEW via \in {"change", "profile", "code"},
         visitor[v].account \in Accounts, Writable(v), WriteAddress(v, via)
  PROVE  LET a == visitor[v].account
         IN  /\ account' \in [Accounts -> Account \cup {Unwritten}]
             /\ account'[a] # Unwritten /\ account'[a].email = visitor[v].email
             /\ account'[a].via = via /\ account'[a].signup = account[a].signup
             /\ \A b \in Accounts \ {a} : account'[b] = account[b]
  <1> DEFINE a == visitor[v].account
             n == [account[a] EXCEPT !.email = visitor[v].email, !.via = via]
  <1>1. account[a] \in Account /\ visitor[v].email \in Emails
    BY DEF Writable, RegistrationTypeOK, Visitor
  <1>2. /\ n \in Account /\ n.email = visitor[v].email /\ n.via = via
        /\ n.signup = account[a].signup
    BY <1>1 DEF Account
  <1>3. account' = [account EXCEPT ![a] = n]
    BY DEF WriteAddress
  <1> HIDE DEF n
  <1> QED
    BY <1>2, <1>3, RegistrationAssumption DEF RegistrationTypeOK

LEMMA SpendChangeKeeps ==
  ASSUME RegistrationInvariant, NEW v \in Visitors, SpendChange(v)
  PROVE  RegistrationInvariant'
  <1> USE DEF RegistrationInvariant
  <1> DEFINE a == visitor[v].account
             k == visitor[v].row
             n == [change[k] EXCEPT !.status = "used"]
  <1>1. /\ visitor[v].pc = "spend" /\ k # Unwritten /\ k \in Changes /\ a \in Accounts
        /\ change[k] # Unwritten /\ change[k].account = a /\ change[k].email = visitor[v].email
        /\ visitor[v].email = Lower[visitor[v].email]
    BY DEF SpendChange, RequestsHold, Spending
  <1>2. /\ change' = [change EXCEPT ![k] = n]
        /\ visitor' = [visitor EXCEPT ![v] = IdleVisitor]
        /\ UNCHANGED pending
        /\ Writable(v) /\ WriteAddress(v, "change")
    BY DEF SpendChange, VisitorEnds
  <1>3. /\ n = [account |-> a, email |-> visitor[v].email, status |-> "used"]
        /\ n \in Change /\ n # Unwritten /\ n.account = a /\ n.email = visitor[v].email
    BY <1>1, RegistrationAssumption DEF RegistrationTypeOK, Change
  <1>4. /\ account' \in [Accounts -> Account \cup {Unwritten}]
        /\ account'[a] # Unwritten /\ account'[a].email = visitor[v].email
        /\ account'[a].signup = account[a].signup
        /\ \A b \in Accounts \ {a} : account'[b] = account[b]
    BY <1>1, <1>2, AddressWritten
  <1>5. account[a] # Unwritten
    BY <1>2 DEF Writable
  <1> HIDE DEF n
  <1>6. /\ \A c \in Changes : change'[c] = IF c = k THEN n ELSE change[c]
        /\ \A w \in Visitors : visitor'[w] = IF w = v THEN IdleVisitor ELSE visitor[w]
    BY <1>2 DEF RegistrationTypeOK
  <1>7. RegistrationTypeOK'
    BY <1>2, <1>3, <1>4, IdleVisitorType DEF RegistrationTypeOK
  <1>8. RequestsHold'
    <2>1. ASSUME NEW w \in Visitors, w # v, visitor[w].pc = "spend", visitor[w].row # Unwritten
          PROVE  Spending(w)'
      <3>1. Spending(w) /\ visitor[w].row \in Changes
        BY <2>1 DEF RequestsHold
      <3> QED
        BY <1>1, <1>3, <1>6, <2>1, <3>1 DEF Spending
    <2> QED
      BY <1>6, <2>1, IdleVisitorType DEF RequestsHold
  <1>9. SignupsApart'
    BY <1>2, <1>4, <1>5 DEF SignupsApart
  <1>10. RegisteredOnce'
    BY <1>4, <1>5 DEF RegisteredOnce
  <1>11. ChangedAddressAnswered'
    <2>1. ASSUME NEW b \in Accounts, account'[b] # Unwritten, account'[b].via = "change"
          PROVE  /\ account'[b].email = Lower[account'[b].email]
                 /\ \E c \in Changes : change'[c] = [account |-> b, email |-> account'[b].email,
                                                     status |-> "used"]
      <3>1. CASE b = a
        BY <1>1, <1>3, <1>4, <1>6, <3>1
      <3>2. CASE b # a
        <4>1. account'[b] = account[b]
          BY <1>4, <3>2
        <4>2. PICK c \in Changes :
                /\ change[c] = [account |-> b, email |-> account[b].email, status |-> "used"]
                /\ change[c].account = b
          BY <2>1, <4>1, AnswerOf
        <4>3. c # k
          BY <1>1, <3>2, <4>2
        <4>4. account[b].email = Lower[account[b].email]
          BY <2>1, <4>1 DEF ChangedAddressAnswered
        <4> QED
          BY <1>6, <4>1, <4>2, <4>3, <4>4
      <3> QED
        BY <3>1, <3>2
    <2> QED
      BY <2>1 DEF ChangedAddressAnswered
  <1> QED
    BY <1>7, <1>8, <1>9, <1>10, <1>11
LEMMA WriteProfileKeeps ==
  ASSUME RegistrationInvariant, NEW v \in Visitors, WriteProfile(v)
  PROVE  RegistrationInvariant'
  <1> USE DEF RegistrationInvariant
  <1> DEFINE a == visitor[v].account
             same == account[a].email = visitor[v].email
             via == IF same THEN account[a].via ELSE "profile"
  <1>1. /\ a \in Accounts /\ Writable(v) /\ WriteAddress(v, via)
        /\ visitor' = [visitor EXCEPT ![v] = IdleVisitor] /\ UNCHANGED <<pending, change>>
    BY DEF WriteProfile, VisitorEnds, RequestsHold
  <1>2. account[a] # Unwritten /\ account[a] \in Account
    BY <1>1 DEF Writable, RegistrationTypeOK
  <1>3. via \in {"change", "profile", "code"}
    BY <1>2 DEF Account
  <1>4. /\ account' \in [Accounts -> Account \cup {Unwritten}]
        /\ account'[a] # Unwritten /\ account'[a].email = visitor[v].email
        /\ account'[a].via = via /\ account'[a].signup = account[a].signup
        /\ \A b \in Accounts \ {a} : account'[b] = account[b]
    BY <1>1, <1>3, AddressWritten
  <1>5. \A w \in Visitors : visitor'[w] = IF w = v THEN IdleVisitor ELSE visitor[w]
    BY <1>1 DEF RegistrationTypeOK
  <1>6. RegistrationTypeOK'
    BY <1>1, <1>4, IdleVisitorType DEF RegistrationTypeOK
  <1>7. RequestsHold'
    BY <1>1, <1>5, IdleVisitorType DEF RequestsHold, Spending
  <1>8. SignupsApart'
    BY <1>1, <1>2, <1>4 DEF SignupsApart
  <1>9. RegisteredOnce'
    BY <1>2, <1>4 DEF RegisteredOnce
  <1>10. ASSUME NEW b \in Accounts, account'[b] # Unwritten, account'[b].via = "change"
         PROVE  /\ account[b] # Unwritten /\ account[b].via = "change"
                /\ account'[b].email = account[b].email
    BY <1>2, <1>4, <1>10
  <1>11. ChangedAddressAnswered'
    BY <1>1, <1>10 DEF ChangedAddressAnswered
  <1> QED
    BY <1>6, <1>7, <1>8, <1>9, <1>11

(* An account goes, its change requests with it.                           *)
LEMMA DeleteAccountKeeps ==
  ASSUME RegistrationInvariant, NEW a \in Accounts, DeleteAccount(a)
  PROVE  RegistrationInvariant'
  <1> USE DEF RegistrationInvariant
  <1> DEFINE gone == {c \in Changes : change[c] # Unwritten /\ change[c].account = a}
             cut(w) == [visitor[w] EXCEPT !.row = Unwritten]
  <1>1. /\ account' = [account EXCEPT ![a] = Unwritten] /\ UNCHANGED pending
        /\ change' = [c \in Changes |-> IF c \in gone THEN Unwritten ELSE change[c]]
        /\ visitor' = [w \in Visitors |-> IF visitor[w].row \in gone THEN cut(w) ELSE visitor[w]]
    BY DEF DeleteAccount
  <1>2. \A w \in Visitors :
          /\ cut(w) \in Visitor /\ cut(w).pc = visitor[w].pc /\ cut(w).op = visitor[w].op
          /\ cut(w).account = visitor[w].account /\ cut(w).email = visitor[w].email
          /\ cut(w).row = Unwritten
    BY DEF RegistrationTypeOK, Visitor
  <1>3. gone \subseteq Changes /\ \A c \in gone : change[c].account = a
    OBVIOUS
  <1> HIDE DEF gone, cut
  <1>4. \A c \in Changes \ gone : change'[c] = change[c]
    BY <1>1
  <1>5. \A b \in Accounts : account'[b] = IF b = a THEN Unwritten ELSE account[b]
    BY <1>1 DEF RegistrationTypeOK
  <1>6. RegistrationTypeOK'
    BY <1>1, <1>2 DEF RegistrationTypeOK
  <1>7. RequestsHold'
    <2>1. \A w \in Visitors :
            /\ visitor'[w].account = visitor[w].account /\ visitor'[w].op = visitor[w].op
            /\ visitor'[w].email = visitor[w].email /\ visitor'[w].pc = visitor[w].pc
            /\ visitor'[w].row \in {visitor[w].row, Unwritten}
      BY <1>1, <1>2
    <2>2. ASSUME NEW w \in Visitors, visitor[w].pc = "spend", visitor'[w].row # Unwritten
          PROVE  Spending(w)'
      <3>1. visitor'[w] = visitor[w] /\ visitor[w].row \notin gone
        BY <1>1, <1>2, <2>2
      <3>2. Spending(w) /\ visitor[w].row \in Changes
        BY <2>2, <3>1 DEF RequestsHold
      <3> QED
        BY <1>4, <3>1, <3>2 DEF Spending
    <2>3. ASSUME NEW w \in Visitors, visitor[w].pc \in {"create", "renew"}
          PROVE  visitor'[w] = visitor[w]
      <3>1. visitor[w].row \notin gone
        BY <1>3, <2>3, RegistrationAssumption DEF RequestsHold
      <3> QED
        BY <1>1, <3>1
    <2> QED
      BY <2>1, <2>2, <2>3 DEF RequestsHold
  <1>8. SignupsApart' /\ RegisteredOnce'
    BY <1>1, <1>5 DEF SignupsApart, RegisteredOnce
  <1>9. ChangedAddressAnswered'
    <2>1. ASSUME NEW b \in Accounts, account'[b] # Unwritten, account'[b].via = "change"
          PROVE  \E c \in Changes : change'[c] = [account |-> b, email |-> account'[b].email,
                                                  status |-> "used"]
      <3>1. b # a /\ account'[b] = account[b]
        BY <1>5, <2>1
      <3>2. PICK c \in Changes :
              /\ change[c] = [account |-> b, email |-> account[b].email, status |-> "used"]
              /\ change[c].account = b
        BY <2>1, <3>1, AnswerOf
      <3> QED
        BY <1>3, <1>4, <3>1, <3>2
    <2>2. \A b \in Accounts : account'[b] # Unwritten => account'[b] = account[b]
      BY <1>5
    <2> QED
      BY <2>1, <2>2 DEF ChangedAddressAnswered
  <1> QED
    BY <1>6, <1>7, <1>8, <1>9

-----------------------------------------------------------------------------
(* The theorems.                                                           *)

LEMMA RegistrationStep ==
  ASSUME RegistrationInvariant, [RegistrationNext]_registrationVars
  PROVE  RegistrationInvariant'
  <1>1. CASE UNCHANGED registrationVars
    BY <1>1 DEF registrationVars, RegistrationInvariant, RegistrationTypeOK, SignupsApart,
           RequestsHold, Spending, RegisteredOnce, ChangedAddressAnswered
  <1>2. ASSUME NEW v \in Visitors, NEW e \in Typed,
               \/ Register(v, e) \/ VerifyEmail(v, e) \/ ResendVerification(v, e)
               \/ \E a \in Accounts :
                    RequestChange(v, a, e) \/ ConfirmChange(v, a, e) \/ UpdateProfile(v, a, e)
        PROVE  RegistrationInvariant'
    BY <1>2, VisitorStartsKeep
  <1>3. ASSUME NEW v \in Visitors,
               \/ FindPending(v) \/ FindInUse(v) \/ VisitorFails(v)
               \/ RenewCode(v) \/ \E s \in Signups : InsertPending(v, s)
        PROVE  RegistrationInvariant'
    BY <1>3, LookupsKeep, PendingKeeps
  <1>4. ASSUME NEW v \in Visitors,
               \/ DeleteChanges(v) \/ SpendChange(v) \/ WriteProfile(v)
               \/ \E a \in Accounts : CreateAccount(v, a)
               \/ \E c \in Changes : InsertChange(v, c) \/ FindChange(v, c)
        PROVE  RegistrationInvariant'
    BY <1>4, DeleteChangesKeeps, SpendChangeKeeps, WriteProfileKeeps, CreateAccountKeeps,
       InsertChangeKeeps, FindChangeKeeps
  <1>5. ASSUME \/ \E a \in Accounts : DeleteAccount(a)
               \/ \E e \in Emails : PendingExpires(e)
               \/ \E c \in Changes : ChangeExpires(c)
        PROVE  RegistrationInvariant'
    BY <1>5, DeleteAccountKeeps, PendingKeeps, ChangeExpiresKeeps
  <1> QED
    BY <1>1, <1>2, <1>3, <1>4, <1>5 DEF RegistrationNext

LEMMA RegistrationInductive == RegistrationSpec => []RegistrationInvariant
  BY InitRegistration, RegistrationStep, PTL DEF RegistrationSpec

(* Every variable of the registration has its type.                        *)
THEOREM RegistrationTypeCorrect == RegistrationSpec => []RegistrationTypeOK
  BY RegistrationInductive, PTL DEF RegistrationInvariant

(* A registration makes one account, however often its code is entered.    *)
THEOREM RegisteredOnceCorrect == RegistrationSpec => []RegisteredOnce
  BY RegistrationInductive, PTL DEF RegistrationInvariant

(* An address that was changed to is lower case and was answered from.     *)
THEOREM ChangedAddressCorrect == RegistrationSpec => []ChangedAddressAnswered
  BY RegistrationInductive, PTL DEF RegistrationInvariant

(* A change is marked used by the step that writes its address.            *)
THEOREM SpentCorrect == RegistrationSpec => SpentWithAddress
  <1>1. ASSUME RegistrationInvariant, [RegistrationNext]_registrationVars, NEW c \in Changes,
               change[c] # Unwritten, change[c].status # "used",
               change'[c] # Unwritten, change'[c].status = "used"
        PROVE  /\ account'[change[c].account] # Unwritten
               /\ account'[change[c].account].email = change[c].email
    <2>1. change' # change /\ RegistrationNext
      BY <1>1 DEF registrationVars
    <2>2. \/ \E v \in Visitors : SpendChange(v) \/ DeleteChanges(v)
                                 \/ \E k \in Changes : InsertChange(v, k)
          \/ \E a \in Accounts : DeleteAccount(a)
          \/ \E k \in Changes : ChangeExpires(k)
      BY <2>1 DEF RegistrationNext, Register, VerifyEmail, ResendVerification, RequestChange,
         ConfirmChange, UpdateProfile, Starts, FindPending, RenewCode, FindInUse, InsertPending,
         CreateAccount, WriteProfile, VisitorFails, FindChange, PendingExpires, RowsStay
    <2>3. ASSUME NEW v \in Visitors, SpendChange(v)
          PROVE  /\ account'[change[c].account] # Unwritten
                 /\ account'[change[c].account].email = change[c].email
      <3>1. /\ visitor[v].row \in Changes /\ visitor[v].account \in Accounts
            /\ change[visitor[v].row].account = visitor[v].account
            /\ change[visitor[v].row].email = visitor[v].email
        BY <1>1, <2>3 DEF SpendChange, RegistrationInvariant, RequestsHold, Spending
      <3>2. visitor[v].row = c
        BY <1>1, <2>3, <3>1 DEF SpendChange, RegistrationInvariant, RegistrationTypeOK
      <3>3. /\ account'[visitor[v].account] # Unwritten
            /\ account'[visitor[v].account].email = visitor[v].email
        BY <1>1, <2>3, <3>1, AddressWritten DEF SpendChange, RegistrationInvariant
      <3> QED
        BY <3>1, <3>2, <3>3
    <2>4. ASSUME NEW v \in Visitors, NEW k \in Changes, InsertChange(v, k)
          PROVE  FALSE
      <3>1. change'[c] = change[c]
        BY <1>1, <2>4 DEF InsertChange, NewChange, RegistrationInvariant, RegistrationTypeOK
      <3> QED
        BY <1>1, <3>1
    <2>5. ASSUME \/ \E v \in Visitors : DeleteChanges(v)
                 \/ \E a \in Accounts : DeleteAccount(a)
          PROVE  FALSE
      <3>1. change'[c] = change[c]
        BY <1>1, <2>5 DEF DeleteChanges, DeleteAccount
      <3> QED
        BY <1>1, <3>1
    <2>6. ASSUME NEW k \in Changes, ChangeExpires(k)
          PROVE  FALSE
      <3>1. change[k] \in Change
        BY <1>1, <2>6 DEF ChangeExpires, RegistrationInvariant, RegistrationTypeOK
      <3>2. change'[c].status # "used"
        BY <1>1, <2>6 DEF ChangeExpires, RegistrationInvariant, RegistrationTypeOK, Change
      <3> QED
        BY <1>1, <3>2
    <2> QED
      BY <2>2, <2>3, <2>4, <2>5, <2>6
  <1>2. RegistrationInvariant /\ [RegistrationNext]_registrationVars =>
          [\A c \in Changes :
             (/\ change[c] # Unwritten /\ change[c].status # "used"
              /\ change'[c] # Unwritten /\ change'[c].status = "used") =>
             /\ account'[change[c].account] # Unwritten
             /\ account'[change[c].account].email = change[c].email]_registrationVars
    BY <1>1
  <1> QED
    BY <1>2, RegistrationInductive, PTL DEF RegistrationSpec, SpentWithAddress

-----------------------------------------------------------------------------
(* Staff.                                                                  *)

Informed ==
  \A o \in Officers :
    LET q == officer[o]
    IN  /\ q.pc # "idle" => q.by \in People /\ q.target \in People
        /\ q.pc \in {"target", "write"} =>
             q.byRole \in ADMIN_ROLES /\ (q.stale \/ role[q.by] = q.byRole)
        /\ q.pc = "write" => /\ q.byRole = "ADMIN" => q.newRole = NoRole
                             /\ q.newRole # NoRole => q.target # q.by

StaffInvariant ==
  /\ StaffTypeOK
  /\ Informed
  /\ SuperadminOutOfReach

LEMMA IdleOfficerType == IdleOfficer \in Officer /\ IdleOfficer.pc = "idle"
  BY StaffAssumption DEF IdleOfficer, Officer, Roles

(* A requester who is let in as an administrator is one of the two kinds.  *)
LEMMA PermittedIsAdmin ==
  ASSUME NEW r \in Roles, Permitted(r, ADMIN_ROLES)
  PROVE  r \in ADMIN_ROLES
  <1>1. /\ ROLE_HIERARCHY["USER"] = 1 /\ ROLE_HIERARCHY["ADMIN"] = 2
        /\ ROLE_HIERARCHY["SUPERADMIN"] = 3
    BY DEF ROLE_HIERARCHY
  <1> QED
    BY <1>1 DEF Permitted, ADMIN_ROLES, Roles

LEMMA InitStaff == StaffInit => StaffInvariant
  BY IdleOfficerType
  DEF StaffInit, StaffInvariant, StaffTypeOK, Informed, SuperadminOutOfReach

-----------------------------------------------------------------------------
(* One request begins or moves on and the tables stay.                     *)
LEMMA OfficerIs ==
  ASSUME StaffInvariant, NEW o \in Officers, NEW c \in Officer,
         officer' = [officer EXCEPT ![o] = c], UNCHANGED <<role, buyers, deletionLog>>,
         c.pc # "idle" => c.by \in People /\ c.target \in People,
         c.pc \in {"target", "write"} =>
           c.byRole \in ADMIN_ROLES /\ (c.stale \/ role[c.by] = c.byRole),
         c.pc = "write" => /\ c.byRole = "ADMIN" => c.newRole = NoRole
                           /\ c.newRole # NoRole => c.target # c.by,
         (/\ c.pc \in {"write", "log", "delete"} /\ c.byRole # "SUPERADMIN"
          /\ role[c.target] = "SUPERADMIN") => c.raised
  PROVE  StaffInvariant'
  <1> USE DEF StaffInvariant
  <1>1. StaffTypeOK'
    BY DEF StaffTypeOK
  <1>2. \A q \in Officers : officer'[q] = IF q = o THEN c ELSE officer[q]
    BY DEF StaffTypeOK
  <1>3. Informed'
    BY <1>2 DEF Informed
  <1>4. SuperadminOutOfReach'
    BY <1>2 DEF SuperadminOutOfReach
  <1> QED
    BY <1>1, <1>3, <1>4

LEMMA OfficerEndsKeeps ==
  ASSUME StaffInvariant, NEW o \in Officers, OfficerEnds(o)
  PROVE  StaffInvariant'
  BY IdleOfficerType, OfficerIs DEF OfficerEnds

(* A request is let in with what it has read of its requester.             *)
LEMMA LetInKeeps ==
  ASSUME StaffInvariant, NEW o \in Officers, NEW op \in {"update", "delete", "selfDelete"},
         NEW by \in People, NEW target \in People, NEW new \in Roles \cup {NoRole},
         NEW pc \in {"target", "self"}, LetIn(o, op, by, target, new, pc),
         pc = "target" => Permitted(role[by], ADMIN_ROLES)
  PROVE  StaffInvariant'
  <1> DEFINE c == [pc |-> pc, op |-> op, by |-> by, byRole |-> role[by],
                   target |-> target, newRole |-> new, stale |-> FALSE, raised |-> FALSE]
  <1>1. role[by] \in Roles
    BY DEF StaffInvariant, StaffTypeOK, LetIn, Here
  <1>2. c \in Officer
    BY <1>1 DEF Officer
  <1>3. officer' = [officer EXCEPT ![o] = c] /\ UNCHANGED <<role, buyers, deletionLog>>
    BY DEF LetIn
  <1> QED
    BY <1>1, <1>2, <1>3, PermittedIsAdmin, OfficerIs

LEMMA OfficerStartsKeep ==
  ASSUME StaffInvariant, NEW o \in Officers, NEW by \in People, NEW p \in People,
         \/ \E r \in Grants : StartUserUpdate(o, by, p, r)
         \/ StartUserDelete(o, by, p)
         \/ StartSelfDelete(o, by)
  PROVE  StaffInvariant'
  BY StaffAssumption, LetInKeeps DEF StartUserUpdate, StartUserDelete, StartSelfDelete

LEMMA OfficerMovesKeep ==
  ASSUME StaffInvariant, NEW o \in Officers, NEW pc \in {"write", "delete", "log"},
         KnowsTarget(o, pc), officer[o].pc # "idle",
         pc = "write" => officer[o].pc = "target" /\ UpdateAllowed(o),
         officer[o].byRole # "SUPERADMIN" => role[officer[o].target] # "SUPERADMIN"
  PROVE  StaffInvariant'
  <1> DEFINE c == [officer[o] EXCEPT !.pc = pc, !.raised = FALSE]
  <1>1. /\ c \in Officer /\ c.pc = pc /\ c.by = officer[o].by /\ c.target = officer[o].target
        /\ c.byRole = officer[o].byRole /\ c.newRole = officer[o].newRole
        /\ c.stale = officer[o].stale
    BY DEF StaffInvariant, StaffTypeOK, Officer
  <1>2. officer' = [officer EXCEPT ![o] = c] /\ UNCHANGED <<role, buyers, deletionLog>>
    BY DEF KnowsTarget
  <1> HIDE DEF c
  <1>3. c.by \in People /\ c.target \in People
    BY <1>1 DEF StaffInvariant, Informed
  <1>4. pc = "write" => c.byRole \in ADMIN_ROLES /\ (c.stale \/ role[c.by] = c.byRole)
    BY <1>1 DEF StaffInvariant, Informed
  <1>5. pc = "write" => /\ c.byRole = "ADMIN" => c.newRole = NoRole
                        /\ c.newRole # NoRole => c.target # c.by
    BY <1>1 DEF UpdateAllowed
  <1> QED
    BY <1>1, <1>2, <1>3, <1>4, <1>5, OfficerIs

LEMMA ReadsKeep ==
  ASSUME StaffInvariant, NEW o \in Officers, ReadTarget(o) \/ ReadSelf(o)
  PROVE  StaffInvariant'
  <1>1. CASE ReadTarget(o)
    <2>1. CASE OfficerEnds(o)
      BY <2>1, OfficerEndsKeeps
    <2>2. CASE KnowsTarget(o, "write") /\ UpdateAllowed(o) /\ officer[o].pc = "target"
      <3>1. officer[o].byRole # "SUPERADMIN" => role[officer[o].target] # "SUPERADMIN"
        BY <2>2 DEF StaffInvariant, Informed, ADMIN_ROLES, UpdateAllowed
      <3> QED
        BY <2>2, <3>1, OfficerMovesKeep
    <2>3. CASE KnowsTarget(o, "delete") /\ DeleteAllowed(o) /\ officer[o].pc = "target"
      <3>1. officer[o].byRole # "SUPERADMIN" => role[officer[o].target] # "SUPERADMIN"
        BY <2>3 DEF StaffInvariant, Informed, ADMIN_ROLES, DeleteAllowed
      <3> QED
        BY <2>3, <3>1, OfficerMovesKeep
    <2> QED
      BY <1>1, <2>1, <2>2, <2>3 DEF ReadTarget
  <1>2. CASE ReadSelf(o)
    BY <1>2, OfficerEndsKeeps, OfficerMovesKeep DEF ReadSelf
  <1> QED
    BY <1>1, <1>2

-----------------------------------------------------------------------------
(* A row changes, and the request that changed it ends.                    *)
LEMMA RoleBecomes ==
  ASSUME StaffInvariant, NEW o \in Officers, NEW p \in People, NEW r \in Roles \cup {NoPerson},
         role' = [role EXCEPT ![p] = r], EndAndAge(o, p, r), UNCHANGED buyers,
         deletionLog' \in SUBSET deletionLog
  PROVE  StaffInvariant'
  <1> USE DEF StaffInvariant
  <1> DEFINE b(q) == officer[q].stale \/ officer[q].by = p
             d(q) == officer[q].raised \/ (officer[q].target = p /\ r = "SUPERADMIN")
             c(q) == [officer[q] EXCEPT !.stale = b(q), !.raised = d(q)]
  <1>1. ASSUME NEW q \in Officers
        PROVE  /\ c(q) \in Officer /\ c(q).pc = officer[q].pc /\ c(q).by = officer[q].by
               /\ c(q).target = officer[q].target /\ c(q).byRole = officer[q].byRole
               /\ c(q).newRole = officer[q].newRole
               /\ (officer[q].stale \/ officer[q].by = p) => c(q).stale
               /\ (officer[q].raised \/ (officer[q].target = p /\ r = "SUPERADMIN")) => c(q).raised
    <2>1. PICK v \in BOOLEAN, w \in BOOLEAN : v = b(q) /\ w = d(q)
      OBVIOUS
    <2>2. c(q) = [officer[q] EXCEPT !.stale = v, !.raised = w] /\ officer[q] \in Officer
      BY <2>1 DEF StaffTypeOK
    <2> HIDE DEF c, b, d
    <2>3. /\ c(q) \in Officer /\ c(q).pc = officer[q].pc /\ c(q).by = officer[q].by
          /\ c(q).target = officer[q].target /\ c(q).byRole = officer[q].byRole
          /\ c(q).newRole = officer[q].newRole
      BY <2>2 DEF Officer
    <2>4. c(q).stale = v /\ c(q).raised = w
      BY <2>2, Zenon DEF Officer
    <2> QED
      BY <2>1, <2>3, <2>4 DEF b, d
  <1>2. officer' = [q \in Officers |-> IF q = o THEN IdleOfficer ELSE c(q)]
    BY DEF EndAndAge
  <1> HIDE DEF c
  <1>3. \A q \in Officers : officer'[q] = IF q = o THEN IdleOfficer ELSE c(q)
    BY <1>2
  <1>4. \A q \in People : role'[q] = IF q = p THEN r ELSE role[q]
    BY DEF StaffTypeOK
  <1>5. StaffTypeOK'
    BY <1>1, <1>2, IdleOfficerType DEF StaffTypeOK
  <1>6. Informed'
    BY <1>1, <1>3, <1>4, IdleOfficerType DEF Informed
  <1>7. SuperadminOutOfReach'
    <2> SUFFICES ASSUME NEW q \in Officers, officer'[q].pc \in {"write", "log", "delete"},
                        officer'[q].byRole # "SUPERADMIN",
                        role'[officer'[q].target] = "SUPERADMIN"
                 PROVE  officer'[q].raised
      BY DEF SuperadminOutOfReach
    <2>1. q # o /\ officer'[q] = c(q)
      BY <1>3, IdleOfficerType
    <2>2. officer[q].target \in People
      BY <1>1, <2>1 DEF Informed
    <2> QED
      BY <1>1, <1>4, <2>1, <2>2 DEF SuperadminOutOfReach
  <1> QED
    BY <1>5, <1>6, <1>7

LEMMA WriteRoleKeeps ==
  ASSUME StaffInvariant, NEW o \in Officers, WriteRole(o)
  PROVE  StaffInvariant'
  <1> DEFINE p == officer[o].target
             r == IF officer[o].newRole = NoRole THEN role[p] ELSE officer[o].newRole
  <1>1. p \in People /\ role[p] \in Roles /\ r \in Roles
    BY DEF WriteRole, StaffInvariant, Informed, StaffTypeOK, Officer, Here
  <1>2. role' = [role EXCEPT ![p] = r] /\ EndAndAge(o, p, r) /\ UNCHANGED <<buyers, deletionLog>>
    BY DEF WriteRole
  <1> HIDE DEF r, p
  <1> QED
    BY <1>1, <1>2, RoleBecomes

LEMMA DeleteUserKeeps ==
  ASSUME StaffInvariant, NEW o \in Officers, DeleteUser(o)
  PROVE  StaffInvariant'
  <1>1. officer[o].target \in People
    BY DEF DeleteUser, StaffInvariant, Informed
  <1> QED
    BY <1>1, RoleBecomes DEF DeleteUser

(* The log is written, the request moves on.                               *)
LEMMA LogDeletionKeeps ==
  ASSUME StaffInvariant, NEW o \in Officers, LogDeletion(o)
  PROVE  StaffInvariant'
  <1> USE DEF StaffInvariant
  <1> DEFINE c == [officer[o] EXCEPT !.pc = "delete"]
  <1>1. /\ c \in Officer /\ c.pc = "delete" /\ c.by = officer[o].by
        /\ c.target = officer[o].target /\ c.byRole = officer[o].byRole
        /\ c.raised = officer[o].raised
    BY DEF StaffTypeOK, Officer
  <1>2. officer[o].pc = "log" /\ officer' = [officer EXCEPT ![o] = c] /\ UNCHANGED <<role, buyers>>
    BY DEF LogDeletion
  <1> HIDE DEF c
  <1>3. officer[o].by \in People /\ officer[o].target \in People
    BY <1>2 DEF Informed
  <1>4. \A q \in Officers : officer'[q] = IF q = o THEN c ELSE officer[q]
    BY <1>2 DEF StaffTypeOK
  <1>5. StaffTypeOK'
    BY <1>1, <1>2, <1>3 DEF StaffTypeOK, LogDeletion
  <1>6. Informed'
    BY <1>1, <1>2, <1>3, <1>4 DEF Informed
  <1>7. SuperadminOutOfReach'
    BY <1>1, <1>2, <1>4 DEF SuperadminOutOfReach
  <1> QED
    BY <1>5, <1>6, <1>7

LEMMA OthersKeep ==
  ASSUME StaffInvariant, NEW p \in People, NewUser(p) \/ Buys(p)
  PROVE  StaffInvariant'
  <1> USE DEF StaffInvariant
  <1>1. CASE NewUser(p)
    <2>1. \A q \in People : role'[q] = IF q = p THEN "USER" ELSE role[q]
      BY <1>1 DEF NewUser, StaffTypeOK
    <2>2. StaffTypeOK'
      BY <1>1 DEF NewUser, StaffTypeOK, Roles
    <2>3. Informed'
      BY <1>1, <2>1 DEF NewUser, Informed
    <2>4. SuperadminOutOfReach'
      BY <1>1, <2>1 DEF NewUser, SuperadminOutOfReach, Informed
    <2> QED
      BY <2>2, <2>3, <2>4
  <1>2. CASE Buys(p)
    BY <1>2 DEF Buys, StaffTypeOK, Informed, SuperadminOutOfReach
  <1> QED
    BY <1>1, <1>2

LEMMA StaffStep ==
  ASSUME StaffInvariant, [StaffNext]_staffVars
  PROVE  StaffInvariant'
  <1>1. CASE UNCHANGED staffVars
    BY <1>1 DEF staffVars, StaffInvariant, StaffTypeOK, Informed, SuperadminOutOfReach
  <1>2. ASSUME NEW o \in Officers, NEW by \in People, NEW p \in People,
               \/ \E r \in Grants : StartUserUpdate(o, by, p, r)
               \/ StartUserDelete(o, by, p) \/ StartSelfDelete(o, by)
        PROVE  StaffInvariant'
    BY <1>2, OfficerStartsKeep
  <1>3. ASSUME NEW o \in Officers,
               \/ ReadTarget(o) \/ ReadSelf(o) \/ LogDeletion(o) \/ WriteRole(o) \/ DeleteUser(o)
               \/ OfficerFails(o)
        PROVE  StaffInvariant'
    BY <1>3, ReadsKeep, LogDeletionKeeps, WriteRoleKeeps, DeleteUserKeeps, OfficerEndsKeeps
    DEF OfficerFails
  <1>4. ASSUME NEW p \in People, NewUser(p) \/ Buys(p)
        PROVE  StaffInvariant'
    BY <1>4, OthersKeep
  <1> QED
    BY <1>1, <1>2, <1>3, <1>4 DEF StaffNext

LEMMA StaffInductive == StaffSpec => []StaffInvariant
  BY InitStaff, StaffStep, PTL DEF StaffSpec

-----------------------------------------------------------------------------
(* The theorems.                                                           *)

(* Every variable has its type.                                            *)
THEOREM StaffTypeCorrect == StaffSpec => []StaffTypeOK
  BY StaffInductive, PTL DEF StaffInvariant

(* A request of a lower role is about to touch a SUPERADMIN only if that   *)
(* one was raised after the request had read it.                           *)
THEOREM ReachCorrect == StaffSpec => []SuperadminOutOfReach
  BY StaffInductive, PTL DEF StaffInvariant

(* A request that is not stale leaves its requester a SUPERADMIN when it   *)
(* takes the role from another.                                            *)
LEMMA WriteLeavesSuperadmin ==
  ASSUME StaffInvariant, NEW o \in Officers, WriteRole(o), ~ officer[o].stale,
         Superadmins # {}
  PROVE  Superadmins' # {}
  <1> DEFINE q == officer[o]
  <1>1. /\ q.by \in People /\ q.target \in People /\ q.byRole \in ADMIN_ROLES
        /\ role[q.by] = q.byRole
        /\ q.byRole = "ADMIN" => q.newRole = NoRole
        /\ q.newRole # NoRole => q.target # q.by
    BY DEF WriteRole, StaffInvariant, Informed
  <1>2. \A p \in People : p # q.target \/ q.newRole = NoRole => role'[p] = role[p]
    BY DEF WriteRole, StaffInvariant, StaffTypeOK
  <1>3. CASE q.newRole = NoRole
    BY <1>2, <1>3 DEF Superadmins
  <1>4. CASE q.newRole # NoRole
    BY <1>1, <1>2, <1>4 DEF Superadmins, ADMIN_ROLES
  <1> QED
    BY <1>3, <1>4

(* Changes of role leave a SUPERADMIN behind, unless the requester has     *)
(* lost the role since being let in.                                       *)
THEOREM DemotionCorrect == StaffSpec => DemotionLeavesSuperadmin
  <1>1. ASSUME StaffInvariant, [StaffNext]_staffVars, NEW o \in Officers,
               officer[o].pc = "write", officer'[o].pc = "idle",
               Superadmins # {}, Superadmins' = {}
        PROVE  officer[o].stale
    <2>1. role' # role
      BY <1>1 DEF Superadmins
    <2>2. StaffNext
      BY <1>1, <2>1 DEF staffVars
    <2>3. \/ \E p \in People : NewUser(p)
          \/ \E n \in Officers : WriteRole(n) \/ DeleteUser(n)
      BY <2>1, <2>2 DEF StaffNext, StartUserUpdate, StartUserDelete, StartSelfDelete, LetIn,
         ReadTarget, ReadSelf, KnowsTarget, OfficerEnds, LogDeletion, OfficerFails, Buys
    <2>4. officer'[o].pc # officer[o].pc
      BY <1>1
    <2>5. CASE \E n \in Officers : WriteRole(n) \/ DeleteUser(n)
      <3>1. PICK n \in Officers : WriteRole(n) \/ DeleteUser(n)
        BY <2>5
      <3>2. n = o
        <4>1. CASE n # o
          <5>1. PICK p, r : EndAndAge(n, p, r)
            BY <3>1 DEF WriteRole, DeleteUser
          <5>2. officer'[o] = [officer[o] EXCEPT
                                 !.stale = @ \/ officer[o].by = p,
                                 !.raised = @ \/ (officer[o].target = p /\ r = "SUPERADMIN")]
            BY <4>1, <5>1 DEF EndAndAge
          <5>3. officer[o] \in Officer
            BY <1>1 DEF StaffInvariant, StaffTypeOK
          <5>4. officer'[o].pc = officer[o].pc
            BY <5>2, <5>3 DEF Officer
          <5> QED
            BY <2>4, <5>4
        <4> QED
          BY <4>1
      <3>3. WriteRole(o)
        BY <1>1, <3>1, <3>2 DEF DeleteUser
      <3> QED
        BY <1>1, <3>3, WriteLeavesSuperadmin
    <2>6. CASE \E p \in People : NewUser(p)
      BY <2>4, <2>6 DEF NewUser
    <2> QED
      BY <2>3, <2>5, <2>6
  <1>2. StaffInvariant /\ [StaffNext]_staffVars =>
          [\A o \in Officers :
             (/\ officer[o].pc = "write" /\ officer'[o].pc = "idle"
              /\ Superadmins # {} /\ Superadmins' = {}) => officer[o].stale]_staffVars
    BY <1>1
  <1> QED
    BY <1>2, StaffInductive, PTL DEF StaffSpec, DemotionLeavesSuperadmin
=============================================================================
