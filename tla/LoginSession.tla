----------------------------- MODULE LoginSession -----------------------------
(***************************************************************************)
(* The login sessions of one user: the opaque sessions of RedisSessionStore *)
(* with the per-user index that logout_all reads, the user document, and   *)
(* the verification code of a password reset, under concurrent requests.   *)
(*                                                                         *)
(* AuthService goes to Redis and MongoDB once per await: every action is   *)
(* one such command and the code that follows it. A pipeline of the store  *)
(* is one MULTI/EXEC transaction. Sessions are numbered as they are        *)
(* created; 0 is a JWT of the grace period, which has no session.          *)
(*                                                                         *)
(* Passwords, names and avatars are fields nobody's control depends on     *)
(* here: whether a password or a code is the right one is left open.       *)
(***************************************************************************)
EXTENDS Naturals, FiniteSets

CONSTANTS Slots,        \* requests in progress at a time
          MaxLogins,    \* sessions created
          MaxRequests   \* requests in all

ASSUME LoginConstants ==
    MaxLogins \in Nat /\ MaxRequests \in Nat

VARIABLES
    live,     \* the keys session:<id>
    index,    \* the set user_sessions:<user>
    logins,   \* sessions created so far
    account,  \* the user document
    code,     \* the verification code in the cache
    reqs,     \* each slot: the request in it
    begun,
    \* History.
    ended,    \* sessions of a logout, a rotation or a logout_all that has returned
    revived,  \* sessions a touch has written back after they were deleted or expired
    missed,   \* sessions whose index entry a logout_all removed unread
    tried, accepted, \* how often the code was compared, and found right
    uncounted \* a verification of this code overlapped with another, or with its
              \* sending, or came in its last second, when an attempt is not written

sessions == <<live, index, logins, ended, revived, missed>>
codes == <<code, tried, accepted, uncounted>>
loginVars == <<sessions, account, codes, reqs, begun>>

Grace == 0
Sids == 1..MaxLogins
\* "use" is any endpoint behind get_current_user, "change" one that changes the password,
\* the name or the avatar, "touch" and "rotate" are /refresh without and with rotation.
AuthOps == {"use", "logout", "logoutall", "change"}
RefreshOps == {"touch", "rotate"}
AdminOps == {"deactivate", "activate"}
CodeOps == {"send", "reset"}
OtherOps == {"login", "register"}
LoginOps == AuthOps \cup RefreshOps \cup AdminOps \cup CodeOps \cup OtherOps
LoginPC == {"idle", "resolve", "touch get", "touch set", "load", "act", "delete get",
            "delete", "srem", "members", "wipe", "refresh", "auth", "exists", "insert",
            "fetch", "put", "create", "send get", "send set", "verify", "wrong", "right",
            "burn"}
NoCode == [stored |-> FALSE, attempts |-> 0]
LoginRequest == [op: LoginOps, pc: LoginPC, sid: Sids \cup {Grace},
            active: BOOLEAN,     \* is_active of the user document it read
            members: SUBSET Sids, \* what smembers returned to it
            found: BOOLEAN,      \* delete() got the session
            read: [stored: BOOLEAN, attempts: 0..3]]
NoRequest == [op |-> "use", pc |-> "idle", sid |-> Grace, active |-> FALSE, members |-> {},
          found |-> FALSE, read |-> NoCode]

LoginTypeOK ==
    /\ live \subseteq Sids /\ index \subseteq Sids /\ logins \in 0..MaxLogins
    /\ account \in [known: BOOLEAN, active: BOOLEAN]
    /\ code \in [stored: BOOLEAN, attempts: 0..3]
    /\ reqs \in [Slots -> LoginRequest]
    /\ begun \in 0..MaxRequests
    /\ ended \subseteq Sids /\ revived \subseteq Sids /\ missed \subseteq Sids
    /\ uncounted \in BOOLEAN
    /\ tried \in Nat /\ accepted \in Nat

LoginInit ==
    /\ live = {} /\ index = {} /\ logins = 0
    /\ account \in [known: {FALSE}, active: {FALSE}] \cup [known: {TRUE}, active: {TRUE}]
    /\ code = NoCode
    /\ reqs = [r \in Slots |-> NoRequest] /\ begun = 0
    /\ ended = {} /\ revived = {} /\ missed = {}
    /\ tried = 0 /\ accepted = 0 /\ uncounted = FALSE

In(r, pc) == reqs[r].pc = pc
To(r, pc) == reqs' = [reqs EXCEPT ![r].pc = pc]
Answered(r) == reqs' = [reqs EXCEPT ![r] = NoRequest]

FirstPC(op) ==
    CASE op \in AuthOps -> "resolve"
      [] op \in RefreshOps -> "refresh"
      [] op \in AdminOps -> "fetch"
      [] op = "login" -> "auth"
      [] op = "register" -> "exists"
      [] op = "send" -> "send get"
      [] op = "reset" -> "verify"

Begin(r, op) ==
    /\ In(r, "idle") /\ begun < MaxRequests
    /\ begun' = begun + 1
    /\ \E sid \in IF op \in AuthOps \cup RefreshOps THEN {Grace} \cup (1..logins)
                  ELSE {Grace} :
        reqs' = [reqs EXCEPT ![r] = [NoRequest EXCEPT !.op = op, !.pc = FirstPC(op),
                                         !.sid = sid]]
    /\ UNCHANGED <<sessions, account, codes>>

\* The TTL of a session's key. The index has none.
Expire(sid) ==
    /\ sid \in live
    /\ live' = live \ {sid}
    /\ UNCHANGED <<index, logins, ended, revived, missed, account, codes, reqs,
                   begun>>

-----------------------------------------------------------------------------
(* resolve_credentials and RedisSessionStore.touch.                        *)

KeepRest == UNCHANGED <<account, codes, begun>>

\* resolve_session_token, or resolve_jwt_grace for a token that is no session
Resolve(r) ==
    /\ In(r, "resolve")
    /\ IF reqs[r].sid = Grace THEN To(r, "load")
       ELSE IF reqs[r].sid \in live THEN To(r, "touch get") ELSE Answered(r)
    /\ UNCHANGED sessions /\ KeepRest

\* refresh_access_token: the session, or a refresh token of the grace period
Refresh(r) ==
    /\ In(r, "refresh")
    /\ IF reqs[r].sid = Grace \/ reqs[r].sid \in live THEN To(r, "load") ELSE Answered(r)
    /\ UNCHANGED sessions /\ KeepRest

\* The result of touch() is not looked at.
AfterTouch(r) == IF reqs[r].op = "touch" THEN Answered(r) ELSE To(r, "load")
TouchGet(r) ==
    /\ In(r, "touch get")
    /\ IF reqs[r].sid \in live THEN To(r, "touch set") ELSE AfterTouch(r)
    /\ UNCHANGED sessions /\ KeepRest

TouchSet(r) ==
    /\ In(r, "touch set")
    /\ live' = live \cup {reqs[r].sid}
    /\ revived' = IF reqs[r].sid \in live THEN revived ELSE revived \cup {reqs[r].sid}
    /\ AfterTouch(r)
    /\ UNCHANGED <<index, logins, ended, missed>> /\ KeepRest

\* What a request does once its user is known. Logging out a JWT does nothing.
NextAct(r) ==
    CASE reqs[r].op = "rotate" -> IF reqs[r].sid = Grace THEN "create" ELSE "delete get"
      [] reqs[r].op = "touch" -> IF reqs[r].sid = Grace THEN "create" ELSE "touch get"
      [] OTHER -> "act"

\* _user_from_id: an account that is not active is refused, whatever it holds.
Load(r) ==
    /\ In(r, "load")
    /\ IF account.active THEN To(r, NextAct(r)) ELSE Answered(r)
    /\ UNCHANGED sessions /\ KeepRest

Perform(r) ==
    /\ In(r, "act")
    /\ CASE reqs[r].op = "logoutall" -> To(r, "members")
         [] reqs[r].op = "change" -> To(r, "fetch")
         [] reqs[r].op = "logout" /\ reqs[r].sid # Grace -> To(r, "delete get")
         [] OTHER -> Answered(r)
    /\ UNCHANGED sessions /\ KeepRest

-----------------------------------------------------------------------------
(* RedisSessionStore.delete, delete_all_for_user and create.               *)

\* A fault of NextOfRotate: the old session is left to expire.
NextOfRotateKeep == "create"
NextOfRotate == "delete"

DeleteGet(r) ==
    /\ In(r, "delete get")
    /\ reqs' = [reqs EXCEPT ![r].found = (reqs[r].sid \in live),
                            ![r].pc = IF reqs[r].op = "rotate" THEN NextOfRotate
                                      ELSE "delete"]
    /\ UNCHANGED sessions /\ KeepRest

AfterDelete(r) ==
    IF reqs[r].op = "rotate" THEN To(r, "create") /\ UNCHANGED ended
    ELSE Answered(r) /\ ended' = ended \cup {reqs[r].sid}
Delete(r) ==
    /\ In(r, "delete")
    /\ live' = live \ {reqs[r].sid} /\ revived' = revived \ {reqs[r].sid}
    /\ IF reqs[r].found THEN To(r, "srem") /\ UNCHANGED ended ELSE AfterDelete(r)
    /\ UNCHANGED <<index, logins, missed>> /\ KeepRest

Srem(r) ==
    /\ In(r, "srem")
    /\ index' = index \ {reqs[r].sid}
    /\ AfterDelete(r)
    /\ UNCHANGED <<live, logins, revived, missed>> /\ KeepRest

Members(r) ==
    /\ In(r, "members")
    /\ IF index = {} THEN Answered(r)
       ELSE reqs' = [reqs EXCEPT ![r].members = index, ![r].pc = "wipe"]
    /\ UNCHANGED sessions /\ KeepRest

\* The sessions read are deleted, and the whole index with them.
Wipe(r) ==
    /\ In(r, "wipe")
    /\ live' = live \ reqs[r].members /\ index' = {}
    /\ ended' = ended \cup reqs[r].members
    /\ revived' = revived \ reqs[r].members
    /\ missed' = missed \cup (index \ reqs[r].members)
    /\ Answered(r)
    /\ UNCHANGED logins /\ KeepRest

\* A fault of Indexed: the session is stored alone.
IndexedNot(sid) == index
Indexed(sid) == index \cup {sid}

NewLogin(r) ==
    /\ In(r, "create") /\ logins < MaxLogins
    /\ logins' = logins + 1
    /\ live' = live \cup {logins + 1} /\ index' = Indexed(logins + 1)
    /\ ended' = IF reqs[r].sid = Grace THEN ended ELSE ended \cup {reqs[r].sid}
    /\ Answered(r)
    /\ UNCHANGED <<revived, missed>> /\ KeepRest

-----------------------------------------------------------------------------
(* The user document: every update writes the whole user that was read.    *)

Put(active) == account' = [known |-> TRUE, active |-> active]

\* authenticate_user up to its update_user; the password may be wrong.
Auth(r) ==
    /\ In(r, "auth")
    /\ \/ account.active /\ reqs' = [reqs EXCEPT ![r].pc = "put", ![r].active = TRUE]
       \/ Answered(r)
    /\ UNCHANGED <<sessions, account, codes, begun>>

\* deactivate_user and activate_user; change_password, change_fullname and set_avatar,
\* which may refuse
Fetch(r) ==
    /\ In(r, "fetch")
    /\ \/ /\ account.known
          /\ reqs' = [reqs EXCEPT ![r].pc = "put",
                                  ![r].active = CASE reqs[r].op = "activate" -> TRUE
                                                  [] reqs[r].op = "deactivate" -> FALSE
                                                  [] OTHER -> account.active]
       \/ /\ account.known => reqs[r].op = "change"
          /\ Answered(r)
    /\ UNCHANGED <<sessions, account, codes, begun>>

\* The end of the update_user of a login, an administrator, a change and a reset
Update(r) ==
    /\ In(r, "put")
    /\ Put(reqs[r].active)
    /\ IF reqs[r].op = "login" THEN To(r, "create") ELSE Answered(r)
    /\ UNCHANGED <<sessions, codes, begun>>

\* email_exists, then the insert, which the unique index of the address refuses
Exists(r) ==
    /\ In(r, "exists")
    /\ IF account.known THEN Answered(r) ELSE To(r, "insert")
    /\ UNCHANGED <<sessions, account, codes, begun>>
Insert(r) ==
    /\ In(r, "insert")
    /\ IF account.known THEN Answered(r) /\ UNCHANGED account ELSE To(r, "create") /\ Put(TRUE)
    /\ UNCHANGED <<sessions, codes, begun>>

-----------------------------------------------------------------------------
(* EmailService: the verification code of a password reset.                *)

Verifying(r) == \E q \in Slots \ {r} : reqs[q].pc \in {"wrong", "right", "burn"}

\* send_verification_code: a code less than a minute old is not replaced.
SendGet(r) ==
    /\ In(r, "send get")
    /\ \/ account.active /\ To(r, "send set")
       \/ (code.stored \/ ~account.active) /\ Answered(r)
    /\ UNCHANGED <<sessions, account, codes, begun>>
SendSet(r) ==
    /\ In(r, "send set")
    /\ code' = [stored |-> TRUE, attempts |-> 0]
    /\ tried' = 0 /\ accepted' = 0 /\ uncounted' = Verifying(r)
    /\ Answered(r)
    /\ UNCHANGED <<sessions, account, begun>>

\* verify_code up to its next command: the code is right or wrong, unless it has been
\* compared three times.
Verify(r) ==
    /\ In(r, "verify")
    /\ IF ~code.stored THEN Answered(r) /\ UNCHANGED <<tried, uncounted>>
       ELSE /\ uncounted' = (uncounted \/ Verifying(r))
            /\ IF code.attempts >= 3 THEN To(r, "burn") /\ UNCHANGED tried
               ELSE /\ \E answer \in {"wrong", "right"} :
                          reqs' = [reqs EXCEPT ![r].read = code, ![r].pc = answer]
                    /\ tried' = tried + 1
    /\ UNCHANGED <<sessions, account, code, accepted, begun>>

\* The code that was compared three times is deleted, or the one sent meanwhile.
Burn(r) ==
    /\ In(r, "burn")
    /\ code' = NoCode
    /\ Answered(r)
    /\ UNCHANGED <<sessions, account, tried, accepted, uncounted, begun>>

\* A fault of Counted: the attempts are counted in the object only.
CountedNot(data) == data
Counted(data) == [data EXCEPT !.attempts = data.attempts + 1]

\* What was read is written back with one attempt more, if a second is left to it: a
\* code that is gone has expired, or another verification has deleted it.
Wrong(r) ==
    /\ In(r, "wrong")
    /\ \/ /\ code.stored \/ uncounted
          /\ code' = Counted(reqs[r].read) /\ UNCHANGED uncounted
       \/ /\ uncounted' = (uncounted \/ code.stored) /\ UNCHANGED code
    /\ Answered(r)
    /\ UNCHANGED <<sessions, account, tried, accepted, begun>>

\* The code is deleted; reset_password reads the account and saves it.
Right(r) ==
    /\ In(r, "right")
    /\ code' = NoCode /\ accepted' = accepted + 1
    /\ IF account.active THEN reqs' = [reqs EXCEPT ![r].pc = "put", ![r].active = TRUE]
       ELSE Answered(r)
    /\ UNCHANGED <<sessions, account, tried, uncounted, begun>>

CodeExpires ==
    /\ code.stored /\ code' = NoCode
    /\ UNCHANGED <<sessions, account, tried, accepted, uncounted, reqs, begun>>

RequestStep(r) ==
    \/ Resolve(r) \/ Refresh(r) \/ TouchGet(r) \/ TouchSet(r) \/ Load(r) \/ Perform(r)
    \/ DeleteGet(r) \/ Delete(r) \/ Srem(r) \/ Members(r) \/ Wipe(r) \/ NewLogin(r)
    \/ Auth(r) \/ Fetch(r) \/ Update(r) \/ Exists(r) \/ Insert(r)
    \/ SendGet(r) \/ SendSet(r) \/ Verify(r) \/ Burn(r) \/ Wrong(r) \/ Right(r)

LoginNext ==
    \/ CodeExpires
    \/ \E sid \in Sids : Expire(sid)
    \/ \E r \in Slots : RequestStep(r) \/ \E op \in LoginOps : Begin(r, op)

LoginSpec == LoginInit /\ [][LoginNext]_loginVars

-----------------------------------------------------------------------------
(* Properties.                                                             *)

\* logout_all reaches every session that is stored, but for those it can never
\* reach again: what a touch wrote back after its deletion, and what was created
\* while another logout_all was between its two commands (RedisSessionStore.create,
\* touch, delete, delete_all_for_user).
IndexCovers == live \ (revived \cup missed) \subseteq index

\* A session is refused once a logout, a rotation or a logout_all of it has returned,
\* unless a request that had read it was about to slide it
\* (RedisSessionStore.touch and delete, refresh_access_token).
EndedStaysEnded == ended \cap live \subseteq revived

\* A code whose verifications neither overlap with one another nor with its sending,
\* and end a second before it does, is compared at most three times and accepted
\* once, whatever became of the codes before it (verify_code reads, then writes).
CodeLimit == ~uncounted => tried <= 3 /\ accepted <= 1
===============================================================================
