------------------------------ MODULE Accounts ------------------------------
(***************************************************************************)
(* One e-mail address: its registrations, reset links and logins. Each     *)
(* request is one transaction that locks the user's row first; those that  *)
(* hash a password while they hold the lock have a step before and a step  *)
(* after it. A password is named by the request that chose it.             *)
(***************************************************************************)
EXTENDS Naturals, FiniteSets

CONSTANTS
    Handles,      \* registrations, each with a handle and a password of its own
    Links,        \* links to reset the password
    Redeemers,    \* requests that redeem a link, each with a new password
    Logins,       \* login requests; a login names the session it opens
    Nobody,       \* no password, no holder of the lock, no link
    MaxAttempts,  \* REGISTRATION_MAX_ATTEMPTS
    MaxMails      \* bound on the codes sent for one registration

ASSUME AccountsAssumption ==
    /\ Nobody \notin Handles \cup Links \cup Redeemers \cup Logins
    /\ Handles \cap Redeemers = {}
    /\ Logins \cap (Handles \cup Redeemers) = {}
    /\ MaxAttempts \in Nat \ {0}
    /\ MaxMails \in Nat \ {0}

VARIABLES
    password,   \* user.password_hash; Nobody: there is no row
    verified,   \* user.email_verified_at is set
    holder,     \* the login or redeemer that holds the lock of the user's row
    challenge,  \* email_challenges of the registrations
    link,       \* email_challenges of the reset links
    cooling,    \* the Redis counter of the 60 seconds between two codes
    request,    \* what each registration, redeemer and login does next
    tried,      \* the password a login tries, the link a redeemer brings
    session,    \* auth_sessions
    newest,     \* history: the last registration accepted, the last link issued
    spent       \* history: the links that have set a password

accountVars == <<password, verified, holder, challenge, link, cooling, request,
                 tried, session, newest, spent>>

Passwords == Handles \cup Redeemers

(* bound: code_hash and registration_password_hash are set (always both);    *)
(* fresh: not expired; aged: created 60 seconds ago; arrived: the mail with  *)
(* the newest code reached the mailbox.                                      *)
Challenge == [bound : BOOLEAN, consumed : BOOLEAN, attempts : 0..MaxAttempts,
              fresh : BOOLEAN, aged : BOOLEAN, arrived : BOOLEAN,
              mails : 0..MaxMails]

NoChallenge == [bound |-> FALSE, consumed |-> FALSE, attempts |-> 0,
                fresh |-> FALSE, aged |-> FALSE, arrived |-> FALSE, mails |-> 0]

(* none: not issued; lost: issued, but its mail did not arrive. *)
LinkState == {"none", "lost", "open", "consumed", "expired"}

AccountsTypeOK ==
    /\ password \in Passwords \cup {Nobody}
    /\ verified \in BOOLEAN
    /\ holder \in Redeemers \cup Logins \cup {Nobody}
    /\ challenge \in [Handles -> Challenge]
    /\ link \in [Links -> LinkState]
    /\ cooling \in BOOLEAN
    /\ request \in [Passwords \cup Logins ->
                      {"idle", "inserting", "locking", "hashing", "over"}]
    /\ tried \in [Redeemers \cup Logins -> Links \cup Passwords \cup {Nobody}]
    /\ session \in [Logins -> {"none", "live", "revoked"}]
    /\ newest \in [handle : Handles \cup {Nobody}, link : Links \cup {Nobody}]
    /\ spent \subseteq Links

AccountsInit ==
    /\ password = Nobody
    /\ verified = FALSE
    /\ holder = Nobody
    /\ challenge = [h \in Handles |-> NoChallenge]
    /\ link = [l \in Links |-> "none"]
    /\ cooling = FALSE
    /\ request = [r \in Passwords \cup Logins |-> "idle"]
    /\ tried = [r \in Redeemers \cup Logins |-> Nobody]
    /\ session = [s \in Logins |-> "none"]
    /\ newest = [handle |-> Nobody, link |-> Nobody]
    /\ spent = {}

-----------------------------------------------------------------------------
Reach(r, from, to) ==
    /\ request[r] = from
    /\ request' = [request EXCEPT ![r] = to]

(* The row can be locked: who holds it is waited for. *)
Unlocked == holder = Nobody

(* check_limit: one code in 60 seconds for an address. *)
Admitted == ~cooling /\ cooling' = TRUE

(* Slip: earlier registrations are closed, but keep their password. *)
WithoutHandlesClosed == [h \in Handles |-> [challenge[h] EXCEPT !.consumed = TRUE]]

(* A closed registration. What else its row holds is never read again.       *)
Closed == [NoChallenge EXCEPT !.consumed = TRUE]

(* invalidate_challenges for registrations: closed for good, as the password *)
(* they would set is removed.                                                *)
WithoutHandles ==
    [h \in Handles |-> IF challenge[h] = NoChallenge THEN NoChallenge ELSE Closed]

(* invalidate_challenges for reset links. *)
WithoutLinks ==
    [l \in Links |-> IF link[l] \in {"open", "lost"} THEN "consumed" ELSE link[l]]

(* revoke_all *)
Revoked == [s \in Logins |-> IF session[s] = "live" THEN "revoked" ELSE session[s]]

(* register past the look-up of the user: a challenge, and a code by mail.  *)
IssueCode(h) ==
    /\ \E arrived \in BOOLEAN :
         challenge' = [WithoutHandles EXCEPT ![h] =
           [bound |-> TRUE, consumed |-> FALSE, attempts |-> 0, fresh |-> TRUE,
            aged |-> FALSE, arrived |-> arrived, mails |-> 1]]
    /\ newest' = [newest EXCEPT !.handle = h]

(* register of an address that has a row: one transaction. *)
Register(h) ==
    /\ Reach(h, "idle", "over")
    /\ Admitted
    /\ Unlocked
    /\ password # Nobody
    /\ IF verified THEN UNCHANGED <<challenge, newest>> ELSE IssueCode(h)
    /\ UNCHANGED <<password, verified, holder, link, tried, session, spent>>

(* register of an address without a row: the new one is inserted later. *)
RegisterNew(h) ==
    /\ Reach(h, "idle", "inserting")
    /\ Admitted
    /\ password = Nobody
    /\ UNCHANGED <<password, verified, holder, challenge, link, tried, session,
                   newest, spent>>

(* The flush fails when another registration has inserted the row. *)
Insert(h) ==
    /\ Reach(h, "inserting", "over")
    /\ IF password = Nobody
       THEN password' = h /\ IssueCode(h)
       ELSE UNCHANGED <<password, challenge, newest>>
    /\ UNCHANGED <<verified, holder, link, cooling, tried, session, spent>>

Resend(h) ==
    /\ Admitted
    /\ Unlocked
    /\ ~verified
    /\ challenge[h].bound
    /\ challenge[h].aged
    /\ challenge[h].mails < MaxMails
    /\ \E arrived \in BOOLEAN :
         challenge' = [challenge EXCEPT ![h] =
           [bound |-> TRUE, consumed |-> FALSE, attempts |-> 0, fresh |-> TRUE,
            aged |-> FALSE, arrived |-> arrived, mails |-> @.mails + 1]]
    /\ UNCHANGED <<password, verified, holder, link, request, tried, session,
                   newest, spent>>

(* The checks of verify_registration. *)
Verifiable(h) ==
    /\ Unlocked
    /\ ~verified
    /\ challenge[h].bound
    /\ ~challenge[h].consumed
    /\ challenge[h].fresh
    /\ challenge[h].attempts < MaxAttempts

VerifyWrong(h) ==
    /\ Verifiable(h)
    /\ challenge' = [challenge EXCEPT
                       ![h].attempts = @ + 1,
                       ![h].consumed = challenge[h].attempts + 1 >= MaxAttempts]
    /\ UNCHANGED <<password, verified, holder, link, cooling, request, tried,
                   session, newest, spent>>

(* The code is the one in the newest mail. *)
Verify(h) ==
    /\ Verifiable(h)
    /\ challenge[h].arrived
    /\ password' = h
    /\ verified' = TRUE
    /\ challenge' = WithoutHandles
    /\ session' = Revoked
    /\ UNCHANGED <<holder, link, cooling, request, tried, newest, spent>>

-----------------------------------------------------------------------------
(* request_password_reset for a verified user; nothing happens for others. *)
RequestReset(l) ==
    /\ Unlocked
    /\ verified
    /\ link[l] = "none"
    /\ \E mailed \in {"open", "lost"} :
         link' = [WithoutLinks EXCEPT ![l] = mailed]
    /\ newest' = [newest EXCEPT !.link = l]
    /\ UNCHANGED <<password, verified, holder, challenge, cooling, request,
                   tried, session, spent>>

(* reset_password finds the link, before it locks anything. *)
Redeem(r) ==
    /\ Reach(r, "idle", "locking")
    /\ \E l \in Links :
         /\ link[l] \notin {"none", "lost"}
         /\ tried' = [tried EXCEPT ![r] = l]
    /\ UNCHANGED <<password, verified, holder, challenge, link, cooling,
                   session, newest, spent>>

(* With the locks of user and link, the link is read again and checked. *)
RedeemLock(r) ==
    /\ Unlocked
    /\ request[r] = "locking"
    /\ IF link[tried[r]] = "open"
       THEN Reach(r, "locking", "hashing") /\ holder' = r
       ELSE Reach(r, "locking", "over") /\ UNCHANGED holder
    /\ UNCHANGED <<password, verified, challenge, link, cooling, tried, session,
                   newest, spent>>

RedeemCommit(r) ==
    /\ Reach(r, "hashing", "over")
    /\ holder' = Nobody
    /\ password' = r
    /\ link' = [WithoutLinks EXCEPT ![tried[r]] = "consumed"]
    /\ session' = Revoked
    /\ spent' = spent \cup {tried[r]}
    /\ UNCHANGED <<verified, challenge, cooling, tried, newest>>

-----------------------------------------------------------------------------
(* Slip: the user is read without a lock. *)
LoginRead(s) ==
    /\ password # Nobody
    /\ Reach(s, "idle", "hashing")
    /\ tried' = [tried EXCEPT ![s] = password]
    /\ UNCHANGED <<password, verified, holder, challenge, link, cooling, session,
                   newest, spent>>

(* login locks the user and compares the password in a thread. An address    *)
(* nobody registered, and a password that is wrong, are refused.             *)
LoginLock(s) ==
    /\ Unlocked
    /\ password # Nobody
    /\ Reach(s, "idle", "hashing")
    /\ holder' = s
    /\ tried' = [tried EXCEPT ![s] = password]
    /\ UNCHANGED <<password, verified, challenge, link, cooling, session,
                   newest, spent>>

LoginCommit(s) ==
    /\ Reach(s, "hashing", "over")
    /\ holder' = Nobody
    /\ session' = [session EXCEPT ![s] = IF verified THEN "live" ELSE "none"]
    /\ UNCHANGED <<password, verified, challenge, link, cooling, tried, newest,
                   spent>>

(* The request dies, and its transaction with it. *)
RollBack(r) ==
    /\ Reach(r, "hashing", "over")
    /\ holder' = Nobody
    /\ UNCHANGED <<password, verified, challenge, link, cooling, tried, session,
                   newest, spent>>

Logout(s) ==
    /\ session[s] = "live"
    /\ session' = [session EXCEPT ![s] = "revoked"]
    /\ UNCHANGED <<password, verified, holder, challenge, link, cooling, request,
                   tried, newest, spent>>

(* valid_session: the session counts for a request. *)
Signed(s) == session[s] = "live" /\ verified

-----------------------------------------------------------------------------
(* Time passes: the limiter's 60 seconds, then those of the code ...         *)
Cool ==
    /\ cooling
    /\ cooling' = FALSE
    /\ UNCHANGED <<password, verified, holder, challenge, link, request, tried,
                   session, newest, spent>>

Age(h) ==
    /\ ~cooling
    /\ challenge[h].mails > 0
    /\ ~challenge[h].aged
    /\ challenge' = [challenge EXCEPT ![h].aged = TRUE]
    /\ UNCHANGED <<password, verified, holder, link, cooling, request, tried,
                   session, newest, spent>>

(* ... and what a code and a link are good for. *)
ExpireCode(h) ==
    /\ challenge[h].fresh
    /\ challenge[h].aged
    /\ challenge' = [challenge EXCEPT ![h].fresh = FALSE]
    /\ UNCHANGED <<password, verified, holder, link, cooling, request, tried,
                   session, newest, spent>>

ExpireLink(l) ==
    /\ link[l] = "open"
    /\ link' = [link EXCEPT ![l] = "expired"]
    /\ UNCHANGED <<password, verified, holder, challenge, cooling, request, tried,
                   session, newest, spent>>

AccountsNext ==
    \/ \E h \in Handles :
         \/ Register(h) \/ RegisterNew(h) \/ Insert(h) \/ Resend(h)
         \/ VerifyWrong(h) \/ Verify(h) \/ Age(h) \/ ExpireCode(h)
    \/ \E l \in Links : RequestReset(l) \/ ExpireLink(l)
    \/ \E r \in Redeemers : Redeem(r) \/ RedeemLock(r) \/ RedeemCommit(r) \/ RollBack(r)
    \/ \E s \in Logins : LoginLock(s) \/ LoginCommit(s) \/ RollBack(s) \/ Logout(s)
    \/ Cool

AccountsSpec == AccountsInit /\ [][AccountsNext]_accountVars

-----------------------------------------------------------------------------
(* Properties *)

(* A password comes into force only with the newest proof: a registration   *)
(* that no later one has replaced, or the last reset link, unused so far.   *)
PasswordProven ==
    [][(verified' /\ <<verified, password>>' # <<verified, password>>) =>
          \/ ~verified /\ password' = newest.handle
          \/ /\ verified
             /\ password' \in Redeemers
             /\ tried[password'] = newest.link
             /\ tried[password'] \notin spent]_accountVars

(* A session never outlives the password it was opened with: who resets a   *)
(* password ends all sessions, those of logins under way included.          *)
SessionsCurrent == \A s \in Logins : Signed(s) => tried[s] = password

=============================================================================
