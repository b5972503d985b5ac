------------------------------- MODULE Staff -------------------------------
(***************************************************************************)
(* Roles and the deletion of users: user.service adminUpdateUser (its role *)
(* part), deleteUser and selfDelete, behind JwtStrategy, which reads the   *)
(* requester's role from the database, and RolesGuard.  What a request has *)
(* read of the requester and of the target may be old when it writes.      *)
(***************************************************************************)
EXTENDS Naturals

CONSTANTS
  Officers,      \* requests in progress at the same time
  People,        \* identities of User rows
  Grants,        \* roles that updates name, NoRole for none
  NoPerson, NoRole

Roles == {"USER", "ADMIN", "SUPERADMIN"}
ROLE_HIERARCHY == [USER |-> 1, ADMIN |-> 2, SUPERADMIN |-> 3]
ADMIN_ROLES == {"ADMIN", "SUPERADMIN"}

ASSUME StaffAssumption == NoPerson \notin Roles \cup People /\ NoRole \notin Roles
                           /\ Grants \subseteq Roles \cup {NoRole}

VARIABLES
  role,          \* User.role, NoPerson where there is no row
  buyers,        \* users some Order or Payment refers to
  deletionLog,   \* UserDeletionLog.userId
  officer        \* what each request is doing

staffVars == <<role, buyers, deletionLog, officer>>

(* stale: the requester's row has changed since the request was let in.    *)
(* raised: the target became a SUPERADMIN after the request had read it.   *)
Officer == [pc : {"idle", "target", "self", "log", "write", "delete"},
            op : {"update", "delete", "selfDelete"},
            by : People \cup {NoPerson}, byRole : Roles, target : People \cup {NoPerson},
            newRole : Roles \cup {NoRole}, stale : BOOLEAN, raised : BOOLEAN]

IdleOfficer == [pc |-> "idle", op |-> "update", by |-> NoPerson, byRole |-> "USER",
                target |-> NoPerson, newRole |-> NoRole, stale |-> FALSE, raised |-> FALSE]

StaffTypeOK ==
  /\ role \in [People -> Roles \cup {NoPerson}]
  /\ buyers \in SUBSET People /\ deletionLog \in SUBSET People
  /\ officer \in [Officers -> Officer]

StaffInit ==
  /\ role \in [People -> Roles \cup {NoPerson}]
  /\ buyers = {} /\ deletionLog = {}
  /\ officer = [o \in Officers |-> IdleOfficer]

Here(p) == role[p] # NoPerson
KnowsTarget(o, pc) ==
  /\ officer' = [officer EXCEPT ![o].pc = pc, ![o].raised = FALSE]
  /\ UNCHANGED <<role, buyers, deletionLog>>
OfficerEnds(o) == officer' = [officer EXCEPT ![o] = IdleOfficer] /\ UNCHANGED <<role, buyers, deletionLog>>

(* The request is over; p is now r, and what the others know of p is old.  *)
EndAndAge(o, p, r) ==
  officer' = [q \in Officers |->
                IF q = o THEN IdleOfficer
                ELSE [officer[q] EXCEPT !.stale = @ \/ officer[q].by = p,
                                        !.raised = @ \/ (officer[q].target = p /\ r = "SUPERADMIN")]]

(* RolesGuard: a role of at least the level of one that is required.       *)
Permitted(r, required) == \E s \in required : ROLE_HIERARCHY[r] >= ROLE_HIERARCHY[s]

LetIn(o, op, by, target, new, pc) ==
  /\ officer[o].pc = "idle"
  /\ Here(by)
  /\ officer' = [officer EXCEPT ![o] = [pc |-> pc, op |-> op, by |-> by, byRole |-> role[by],
                                        target |-> target, newRole |-> new,
                                        stale |-> FALSE, raised |-> FALSE]]
  /\ UNCHANGED <<role, buyers, deletionLog>>

StartUserUpdate(o, by, target, new) ==
  /\ Here(by) /\ Permitted(role[by], ADMIN_ROLES)
  /\ LetIn(o, "update", by, target, new, "target")

StartUserDelete(o, by, target) ==
  /\ Here(by) /\ Permitted(role[by], ADMIN_ROLES)
  /\ LetIn(o, "delete", by, target, NoRole, "target")

StartSelfDelete(o, by) == LetIn(o, "selfDelete", by, by, NoRole, "self")

-----------------------------------------------------------------------------
(* adminUpdateUser and deleteUser read the target and refuse, or go on.    *)

(* Mutant: one's own role may be changed.                                  *)
AnyRoleMayChange(o) ==
  LET q == officer[o]
  IN  q.byRole = "ADMIN" => q.newRole = NoRole /\ role[q.target] # "SUPERADMIN"

UpdateAllowed(o) ==
  LET q == officer[o]
  IN  /\ q.byRole = "ADMIN" => q.newRole = NoRole /\ role[q.target] # "SUPERADMIN"
      /\ q.newRole # NoRole => q.target # q.by

(* Mutant: whoever is let in may delete anyone.                            *)
AnyoneMayBeDeleted(o) == officer[o].byRole \in ADMIN_ROLES

DeleteAllowed(o) ==
  officer[o].byRole = "ADMIN" => role[officer[o].target] # "SUPERADMIN"

ReadTarget(o) ==
  LET update == officer[o].op = "update"
      allowed == Here(officer[o].target) /\ (IF update THEN UpdateAllowed(o) ELSE DeleteAllowed(o))
  IN  /\ officer[o].pc = "target"
      /\ IF allowed THEN KnowsTarget(o, IF update THEN "write" ELSE "delete") ELSE OfficerEnds(o)

(* selfDelete: one transaction reads the row and counts orders, payments.  *)
ReadSelf(o) ==
  LET p == officer[o].target
      allowed == /\ Here(p)
                 /\ role[p] = "SUPERADMIN" => officer[o].byRole = "SUPERADMIN"
                 /\ p \notin buyers
  IN  /\ officer[o].pc = "self"
      /\ IF allowed THEN KnowsTarget(o, "log") ELSE OfficerEnds(o)

(* The entry refers to the user, who is unique in it; an error is ignored. *)
LogDeletion(o) ==
  /\ officer[o].pc = "log"
  /\ \/ Here(officer[o].target) /\ deletionLog' = deletionLog \cup {officer[o].target}
     \/ UNCHANGED deletionLog
  /\ officer' = [officer EXCEPT ![o].pc = "delete"]
  /\ UNCHANGED <<role, buyers>>

(* UPDATE by id.  Without a role the other columns are written.            *)
WriteRole(o) ==
  LET p == officer[o].target
      r == IF officer[o].newRole = NoRole THEN role[p] ELSE officer[o].newRole
  IN  /\ officer[o].pc = "write"
      /\ Here(p)
      /\ role' = [role EXCEPT ![p] = r]
      /\ EndAndAge(o, p, r)
      /\ UNCHANGED <<buyers, deletionLog>>

(* DELETE by id: restricted by orders and payments; cascades to the log.   *)
DeleteUser(o) ==
  LET p == officer[o].target
  IN  /\ officer[o].pc = "delete"
      /\ Here(p) /\ p \notin buyers
      /\ role' = [role EXCEPT ![p] = NoPerson]
      /\ deletionLog' = deletionLog \ {p}
      /\ EndAndAge(o, p, NoPerson)
      /\ UNCHANGED buyers

(* A statement throws, for one of the reasons above or another.            *)
OfficerFails(o) == officer[o].pc # "idle" /\ OfficerEnds(o)

(* verifyEmail makes a user; checkout makes one a buyer, for good.         *)
NewUser(p) ==
  /\ ~ Here(p) /\ \A o \in Officers : p \notin {officer[o].by, officer[o].target}
  /\ role' = [role EXCEPT ![p] = "USER"]
  /\ UNCHANGED <<buyers, deletionLog, officer>>

Buys(p) ==
  /\ Here(p)
  /\ buyers' = buyers \cup {p}
  /\ UNCHANGED <<role, deletionLog, officer>>

StaffNext ==
  \/ \E o \in Officers :
       \/ \E by, p \in People, r \in Grants : StartUserUpdate(o, by, p, r)
       \/ \E by, p \in People : StartUserDelete(o, by, p)
       \/ \E by \in People : StartSelfDelete(o, by)
       \/ ReadTarget(o) \/ ReadSelf(o) \/ LogDeletion(o) \/ WriteRole(o) \/ DeleteUser(o)
       \/ OfficerFails(o)
  \/ \E p \in People : NewUser(p) \/ Buys(p)

StaffSpec == StaffInit /\ [][StaffNext]_staffVars

-----------------------------------------------------------------------------
(* Properties.                                                             *)

Superadmins == {p \in People : role[p] = "SUPERADMIN"}

(* Nobody may change the own role, so a change of role leaves a SUPERADMIN *)
(* behind: the one who asked for it, unless that one has been demoted or   *)
(* deleted since being let in (two who demote each other at the same time  *)
(* leave none).                                                            *)
DemotionLeavesSuperadmin ==
  [][\A o \in Officers :
       (/\ officer[o].pc = "write" /\ officer'[o].pc = "idle"
        /\ Superadmins # {} /\ Superadmins' = {}) => officer[o].stale]_staffVars

(* An ADMIN neither modifies nor removes a SUPERADMIN, and only a          *)
(* SUPERADMIN removes a SUPERADMIN: a request of a lower role that is      *)
(* about to write or delete such a row can only be one whose target was    *)
(* made a SUPERADMIN after the request had read it.                        *)
SuperadminOutOfReach ==
  \A o \in Officers :
    (/\ officer[o].pc \in {"write", "log", "delete"} /\ officer[o].byRole # "SUPERADMIN"
     /\ role[officer[o].target] = "SUPERADMIN") => officer[o].raised
=============================================================================
