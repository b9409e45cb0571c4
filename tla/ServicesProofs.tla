--------------------------- MODULE ServicesProofs ----------------------------
(***************************************************************************)
(* What belongs to an owner: knowledge bases and documents, accounts and   *)
(* sessions. A document is deleted in the very step that takes it out of its *)
(* last knowledge base, for any number of bases, documents and requests at *)
(* once. And the parts side by side: what each of them guarantees alone    *)
(* holds where a behaviour takes one of them.                              *)
(***************************************************************************)
EXTENDS MCServices, LibraryProofs, ReaderProofs, FiniteSetTheorems, TLAPS

(* A deleted document is in no base. *)
RemovedUnfiled == \A l \in links : l[2] \notin removed

KnowledgeInv == KnowledgeTypeOK /\ RemovedUnfiled

-----------------------------------------------------------------------------
(* What a request is about to do names bases and documents there may be.    *)
LEMMA OperationAt ==
    ASSUME KnowledgeTypeOK, NEW e \in Editors
    PROVE  /\ \A op \in {"add", "remove", "update"} : Doing(e, op) => editor[e].at \in Link
           /\ Doing(e, "delete") => editor[e].base \in Bases
  <1>1. editor[e] \in Operation \/ editor[e] = Fresh \/ editor[e] = Over
    BY DEF KnowledgeTypeOK
  <1>2. CASE editor[e] \in [op : {"add", "remove", "update"}, at : Link]
    BY <1>2 DEF Doing
  <1>3. CASE editor[e] \in [op : {"delete"}, base : Bases]
    BY <1>3 DEF Doing
  <1>4. CASE editor[e] = Fresh
    BY <1>4 DEF Doing, Fresh
  <1>5. CASE editor[e] = Over
    BY <1>5 DEF Doing
  <1> QED BY <1>1, <1>2, <1>3, <1>4, <1>5 DEF Operation

(* A request that is over leaves the types of what it was about to do.      *)
LEMMA LeavesTypes ==
    ASSUME KnowledgeTypeOK, NEW e \in Editors, Leaves(e)
    PROVE  /\ editor' \in [Editors -> Operation \cup {Fresh, Over}]
           /\ seen' \in [Editors -> SUBSET Link]
  BY DEF KnowledgeTypeOK, Leaves

(* What the deletion of the links in gone does to the documents.            *)
LEMMA PrepareRemovalEffect ==
    ASSUME KnowledgeInv, NEW gone \in SUBSET links, NEW docs, docs \subseteq Documents,
           PrepareRemoval(docs, gone)
    PROVE  /\ links' \subseteq links \ gone /\ enabled' \subseteq links'
           /\ removed' \subseteq Documents
           /\ RemovedUnfiled'
  BY DEF KnowledgeInv, KnowledgeTypeOK, RemovedUnfiled, PrepareRemoval

(* The invariant holds at first. *)
LEMMA KnowledgeInvInit == KnowledgeInit => KnowledgeInv
  BY DEF KnowledgeInit, KnowledgeInv, KnowledgeTypeOK, RemovedUnfiled, NoBase, Link

(* Every step keeps the invariant. *)
LEMMA KnowledgeInvNext == KnowledgeInv /\ [KnowledgeNext]_knowledgeVars => KnowledgeInv'
  <1> SUFFICES ASSUME KnowledgeInv, [KnowledgeNext]_knowledgeVars PROVE KnowledgeInv'
    OBVIOUS
  <1> USE DEF KnowledgeInv
  <1>1. CASE \E b \in Bases : CreateBase(b)
    BY <1>1 DEF CreateBase, KnowledgeTypeOK, RemovedUnfiled
  <1>2. CASE \E e \in Editors : Arrive(e)
    BY <1>2 DEF Arrive, KnowledgeTypeOK, RemovedUnfiled, Link
  <1>3. CASE \E e \in Editors : AddFile(e)
    <2> PICK e \in Editors : AddFile(e)
      BY <1>3
    <2>1. editor[e].at \in Link
      BY OperationAt DEF AddFile
    <2>2. /\ links' \subseteq bases \X Documents /\ enabled' \subseteq links'
          /\ UNCHANGED <<bases, removed, scope>>
          /\ RemovedUnfiled'
      BY <2>1 DEF AddFile, Addable, Link, KnowledgeTypeOK, RemovedUnfiled
    <2> QED BY <2>2, LeavesTypes DEF AddFile, KnowledgeTypeOK
  <1>4. CASE \E e \in Editors : UpdateFile(e)
    <2> PICK e \in Editors : UpdateFile(e)
      BY <1>4
    <2>1. enabled' \subseteq links /\ UNCHANGED <<bases, links, removed, scope>>
      BY DEF UpdateFile, KnowledgeTypeOK
    <2> QED BY <2>1, LeavesTypes DEF UpdateFile, KnowledgeTypeOK, RemovedUnfiled
  <1>5. CASE \E e \in Editors : RemoveFile(e)
    <2> PICK e \in Editors : RemoveFile(e)
      BY <1>5
    <2> DEFINE l == editor[e].at
    <2>1. l \in Link
      BY OperationAt DEF RemoveFile
    <2>2. /\ links' \subseteq links /\ enabled' \subseteq links'
          /\ removed' \subseteq Documents /\ RemovedUnfiled'
      <3>1. CASE l[1] \in bases /\ l \in links
        <4>1. PrepareRemoval(Unlinked(e, {l}), {l})
          BY <3>1 DEF RemoveFile
        <4>2. Unlinked(e, {l}) \subseteq Documents
          BY <2>1 DEF Unlinked, Link
        <4> QED BY <3>1, <4>1, <4>2, PrepareRemovalEffect
      <3>2. CASE ~(l[1] \in bases /\ l \in links)
        BY <3>2 DEF RemoveFile, KnowledgeTypeOK, RemovedUnfiled
      <3> QED BY <3>1, <3>2
    <2>3. UNCHANGED <<bases, scope>>
      BY DEF RemoveFile
    <2> QED BY <2>2, <2>3, LeavesTypes DEF RemoveFile, KnowledgeTypeOK
  <1>6. CASE \E e \in Editors : DeleteBase(e)
    <2> PICK e \in Editors : DeleteBase(e)
      BY <1>6
    <2> DEFINE b == editor[e].base
               gone == {l \in links : l[1] = b}
    <2>1. CASE b \in bases
      <3>1. /\ bases' = bases \ {b}
            /\ PrepareRemoval(Unlinked(e, gone), gone)
            /\ scope' = [s \in Sessions |-> IF scope[s] = b THEN "lost" ELSE scope[s]]
        BY <2>1 DEF DeleteBase
      <3>2. Unlinked(e, gone) \subseteq Documents
        BY DEF Unlinked, KnowledgeTypeOK
      <3>3. /\ links' \subseteq links \ gone /\ enabled' \subseteq links'
            /\ removed' \subseteq Documents /\ RemovedUnfiled'
        BY <3>1, <3>2, PrepareRemovalEffect
      <3>4. links' \subseteq bases' \X Documents
        BY <3>1, <3>3 DEF KnowledgeTypeOK
      <3>5. scope' \in [Sessions -> bases' \cup NoBase]
        BY <3>1 DEF KnowledgeTypeOK, NoBase
      <3> QED BY <3>1, <3>3, <3>4, <3>5, LeavesTypes DEF DeleteBase, KnowledgeTypeOK
    <2>2. CASE b \notin bases
      BY <2>2, LeavesTypes DEF DeleteBase, KnowledgeTypeOK, RemovedUnfiled
    <2> QED BY <2>1, <2>2
  <1>7. CASE \E s \in Sessions : Bind(s)
    BY <1>7 DEF Bind, KnowledgeTypeOK, RemovedUnfiled
  <1>8. CASE UNCHANGED knowledgeVars
    BY <1>8 DEF knowledgeVars, KnowledgeTypeOK, RemovedUnfiled
  <1> QED BY <1>1, <1>2, <1>3, <1>4, <1>5, <1>6, <1>7, <1>8 DEF KnowledgeNext

(* So it always holds. *)
LEMMA KnowledgeInvariant == KnowledgeSpec => []KnowledgeInv
  BY KnowledgeInvInit, KnowledgeInvNext, PTL DEF KnowledgeSpec

-----------------------------------------------------------------------------
(* The bases a document is in. *)
BasesOf(d) == {l[1] : l \in LinksOf(d)}

(* What LastLinkDeletes asks of a step, for one document. *)
DeletedWithLastLink(d) ==
    IF d \in removed' \ removed
    THEN Cardinality(BasesOf(d)) = 1 /\ BasesOf(d)' = {}
    ELSE removed \subseteq removed' /\ (BasesOf(d) # {} => BasesOf(d)' # {})

(* A removal of links that all belong to one base keeps the promise: the    *)
(* documents it deletes had just this base, and the others keep one.        *)
LEMMA RemovalKeepsPromise ==
    ASSUME KnowledgeInv, NEW b, NEW gone \in SUBSET links,
           \A l \in gone : l[1] = b,
           NEW e \in Editors, PrepareRemoval(Unlinked(e, gone), gone),
           NEW d \in Documents
    PROVE  DeletedWithLastLink(d)
  <1>1. /\ removed' = removed \cup Unlinked(e, gone)
        /\ links' = {l \in links \ gone : l[2] \notin Unlinked(e, gone)}
    BY DEF PrepareRemoval
  <1>2. CASE d \in removed' \ removed
    <2>1. d \in Unlinked(e, gone)
      BY <1>1, <1>2
    <2>2. LinksOf(d) \subseteq gone /\ \E l \in gone : l[2] = d
      BY <2>1 DEF Unlinked
    <2>3. BasesOf(d) = {b}
      BY <2>2 DEF BasesOf, LinksOf
    <2>4. Cardinality({b}) = 1
      BY FS_Singleton
    <2>5. LinksOf(d)' = {}
      BY <1>1, <2>1 DEF LinksOf
    <2>6. BasesOf(d)' = {}
      BY <2>5 DEF BasesOf
    <2> QED BY <1>2, <2>3, <2>4, <2>6 DEF DeletedWithLastLink
  <1>3. CASE d \notin removed' \ removed
    <2>1. ASSUME BasesOf(d) # {} PROVE BasesOf(d)' # {}
      <3>1. PICK l \in links : l[2] = d
        BY <2>1 DEF BasesOf, LinksOf
      <3>2. d \notin removed
        BY <3>1 DEF KnowledgeInv, RemovedUnfiled
      <3>3. d \notin Unlinked(e, gone)
        BY <1>1, <1>3, <3>2
      <3>4. PICK k \in links \ gone : k[2] = d
        BY <3>1, <3>3 DEF Unlinked, LinksOf
      <3>5. k \in LinksOf(d)'
        BY <1>1, <3>3, <3>4 DEF LinksOf
      <3> QED BY <3>5 DEF BasesOf
    <2> QED BY <1>1, <1>3, <2>1 DEF DeletedWithLastLink
  <1> QED BY <1>2, <1>3

(* Every other step deletes nothing and takes no link away. *)
LEMMA OthersKeepPromise ==
    ASSUME removed' = removed, links \subseteq links', NEW d \in Documents
    PROVE  DeletedWithLastLink(d)
  BY DEF DeletedWithLastLink, BasesOf, LinksOf

(* A document is deleted exactly by the step that takes it out of its last  *)
(* base, whichever requests run at once and whatever their snapshots say.   *)
THEOREM LastLinkDeletesCorrect == KnowledgeSpec => LastLinkDeletes
  <1>1. ASSUME KnowledgeInv, KnowledgeNext, NEW d \in Documents
        PROVE  DeletedWithLastLink(d)
    <2>1. CASE \E e \in Editors : RemoveFile(e)
      <3> PICK e \in Editors : RemoveFile(e)
        BY <2>1
      <3> DEFINE l == editor[e].at
      <3>1. CASE l[1] \in bases /\ l \in links
        <4>1. PrepareRemoval(Unlinked(e, {l}), {l})
          BY <3>1 DEF RemoveFile
        <4> QED BY <1>1, <3>1, <4>1, RemovalKeepsPromise
      <3>2. CASE ~(l[1] \in bases /\ l \in links)
        BY <1>1, <3>2, OthersKeepPromise DEF RemoveFile
      <3> QED BY <3>1, <3>2
    <2>2. CASE \E e \in Editors : DeleteBase(e)
      <3> PICK e \in Editors : DeleteBase(e)
        BY <2>2
      <3> DEFINE b == editor[e].base
                 gone == {l \in links : l[1] = b}
      <3>1. CASE b \in bases
        <4>1. PrepareRemoval(Unlinked(e, gone), gone)
          BY <3>1 DEF DeleteBase
        <4>2. gone \subseteq links /\ \A l \in gone : l[1] = b
          OBVIOUS
        <4> HIDE DEF gone, b
        <4> QED BY <1>1, <4>1, <4>2, RemovalKeepsPromise
      <3>2. CASE b \notin bases
        BY <1>1, <3>2, OthersKeepPromise DEF DeleteBase
      <3> QED BY <3>1, <3>2
    <2>3. CASE \/ \E b \in Bases : CreateBase(b)
               \/ \E e \in Editors : Arrive(e) \/ AddFile(e) \/ UpdateFile(e)
               \/ \E s \in Sessions : Bind(s)
      <3>1. removed' = removed /\ links \subseteq links'
        BY <2>3 DEF CreateBase, Arrive, AddFile, UpdateFile, Bind
      <3> QED BY <1>1, <3>1, OthersKeepPromise
    <2> QED BY <1>1, <2>1, <2>2, <2>3 DEF KnowledgeNext
  <1>2. KnowledgeInv /\ [KnowledgeNext]_knowledgeVars
          => [\A d \in Documents : DeletedWithLastLink(d)]_knowledgeVars
    BY <1>1
  <1>3. (\A d \in Documents : DeletedWithLastLink(d))
          <=> \A d \in Documents :
                LET before == {l[1] : l \in LinksOf(d)}
                    after == {l[1] : l \in LinksOf(d)'}
                IN IF d \in removed' \ removed
                   THEN Cardinality(before) = 1 /\ after = {}
                   ELSE removed \subseteq removed' /\ (before # {} => after # {})
    BY DEF DeletedWithLastLink, BasesOf
  <1> QED BY <1>2, <1>3, KnowledgeInvariant, PTL DEF KnowledgeSpec, LastLinkDeletes

-----------------------------------------------------------------------------
(***************************************************************************)
(* Sessions never outlive their password, and a password comes into force  *)
(* only with the newest proof, for any number of registrations, links and  *)
(* logins.  Both rest on the lock of the user's row: who is hashing holds  *)
(* it, and what it has read under the lock is still so when it commits.    *)
(***************************************************************************)

Lockers == Redeemers \cup Logins

(* Who hashes a password holds the lock, and nobody else does. *)
HashingHolds == \A r \in Lockers : request[r] = "hashing" <=> holder = r

(* A verified address has a password. *)
VerifiedSet == verified => password # Nobody

(* A login that hashes compares with the password in force; it opens its    *)
(* session with it.                                                         *)
LoginsCurrent ==
    \A s \in Logins :
        /\ request[s] \in {"idle", "hashing"} => session[s] = "none"
        /\ request[s] = "hashing" => tried[s] = password /\ password # Nobody
        /\ session[s] = "live" => verified /\ tried[s] = password

(* Only the registration that came last can still set its password. *)
BoundNewest == \A h \in Handles : challenge[h].bound => newest.handle = h

(* Only the link that was sent last is open, and a spent one is closed. *)
OpenNewest ==
    /\ \A l \in Links : link[l] = "open" => verified /\ newest.link = l
    /\ \A l \in spent : link[l] = "consumed"

(* A redeemer that hashes has found the last link open under the lock. *)
RedeemersSure ==
    \A r \in Redeemers :
        /\ request[r] = "locking" => tried[r] \in Links
        /\ request[r] = "hashing" =>
             verified /\ tried[r] = newest.link /\ tried[r] \in Links \ spent

AccountsInv ==
    /\ AccountsTypeOK
    /\ HashingHolds
    /\ VerifiedSet
    /\ LoginsCurrent
    /\ BoundNewest
    /\ OpenNewest
    /\ RedeemersSure

-----------------------------------------------------------------------------
(* The bulk updates keep the types. *)
LEMMA BulkTypes ==
    ASSUME AccountsTypeOK
    PROVE  /\ WithoutHandles \in [Handles -> Challenge]
           /\ \A h \in Handles : ~WithoutHandles[h].bound
           /\ WithoutLinks \in [Links -> LinkState]
           /\ \A l \in Links : /\ WithoutLinks[l] # "open"
                               /\ link[l] = "consumed" => WithoutLinks[l] = "consumed"
           /\ Revoked \in [Logins -> {"none", "live", "revoked"}]
           /\ \A s \in Logins : /\ Revoked[s] # "live"
                                /\ session[s] = "none" => Revoked[s] = "none"
  <1>1. /\ WithoutHandles \in [Handles -> Challenge]
        /\ \A h \in Handles : ~WithoutHandles[h].bound
    <2> SUFFICES ASSUME NEW h \in Handles
                 PROVE  WithoutHandles[h] \in Challenge /\ ~WithoutHandles[h].bound
      BY DEF WithoutHandles
    <2>1. 0 \in 0..MaxAttempts /\ 0 \in 0..MaxMails
      BY AccountsAssumption
    <2>2. NoChallenge \in Challenge /\ ~NoChallenge.bound
      BY <2>1 DEF NoChallenge, Challenge
    <2>3. Closed \in Challenge /\ ~Closed.bound
      BY <2>2 DEF Closed, Challenge
    <2> QED BY <2>2, <2>3 DEF WithoutHandles
  <1>2. /\ WithoutLinks \in [Links -> LinkState]
        /\ \A l \in Links : /\ WithoutLinks[l] # "open"
                            /\ link[l] = "consumed" => WithoutLinks[l] = "consumed"
    BY DEF AccountsTypeOK, WithoutLinks, LinkState
  <1>3. /\ Revoked \in [Logins -> {"none", "live", "revoked"}]
        /\ \A s \in Logins : /\ Revoked[s] # "live"
                             /\ session[s] = "none" => Revoked[s] = "none"
    BY DEF AccountsTypeOK, Revoked
  <1> QED BY <1>1, <1>2, <1>3

(* A new registration closes all others. *)
LEMMA IssueCodeEffect ==
    ASSUME AccountsInv, NEW h \in Handles, IssueCode(h)
    PROVE  /\ challenge' \in [Handles -> Challenge]
           /\ newest' \in [handle : Handles \cup {Nobody}, link : Links \cup {Nobody}]
           /\ newest'.link = newest.link
           /\ BoundNewest'
  <1>1. newest \in [handle : Handles \cup {Nobody}, link : Links \cup {Nobody}]
    BY DEF AccountsInv, AccountsTypeOK
  <1>2. newest' = [newest EXCEPT !.handle = h]
    BY DEF IssueCode
  <1>3. /\ WithoutHandles \in [Handles -> Challenge]
        /\ \A k \in Handles : ~WithoutHandles[k].bound
    BY BulkTypes DEF AccountsInv
  <1>4. PICK arrived \in BOOLEAN :
          challenge' = [WithoutHandles EXCEPT ![h] =
            [bound |-> TRUE, consumed |-> FALSE, attempts |-> 0, fresh |-> TRUE,
             aged |-> FALSE, arrived |-> arrived, mails |-> 1]]
    BY DEF IssueCode
  <1>5. [bound |-> TRUE, consumed |-> FALSE, attempts |-> 0, fresh |-> TRUE,
         aged |-> FALSE, arrived |-> arrived, mails |-> 1] \in Challenge
    BY AccountsAssumption DEF Challenge
  <1>6. challenge' \in [Handles -> Challenge]
    BY <1>3, <1>4, <1>5
  <1>7. /\ newest'.handle = h /\ newest'.link = newest.link
        /\ newest' \in [handle : Handles \cup {Nobody}, link : Links \cup {Nobody}]
    BY <1>1, <1>2
  <1>8. BoundNewest'
    BY <1>3, <1>4, <1>7 DEF BoundNewest
  <1> QED BY <1>6, <1>7, <1>8

(* The requests do not mix. *)
LEMMA Distinct ==
    /\ Nobody \notin Lockers
    /\ Nobody \notin Passwords
    /\ Redeemers \cap Logins = {}
    /\ Handles \cap Lockers = {}
  BY AccountsAssumption DEF Lockers, Passwords

(* The invariant holds at first. *)
LEMMA AccountsInvInit == AccountsInit => AccountsInv
  <1> SUFFICES ASSUME AccountsInit PROVE AccountsInv
    OBVIOUS
  <1>1. AccountsTypeOK
    <2>1. NoChallenge \in Challenge
      BY AccountsAssumption DEF NoChallenge, Challenge
    <2>2. challenge \in [Handles -> Challenge]
      BY <2>1 DEF AccountsInit
    <2> QED BY <2>2 DEF AccountsInit, AccountsTypeOK, LinkState, Passwords
  <1>2. HashingHolds
    BY Distinct DEF AccountsInit, HashingHolds, Lockers, Passwords
  <1>3. VerifiedSet /\ LoginsCurrent /\ BoundNewest /\ OpenNewest /\ RedeemersSure
    BY DEF AccountsInit, VerifiedSet, LoginsCurrent, BoundNewest, NoChallenge,
           OpenNewest, RedeemersSure, Passwords
  <1> QED BY <1>1, <1>2, <1>3 DEF AccountsInv

-----------------------------------------------------------------------------
(* A registration, its code and its verification. *)
LEMMA RegistrationStep ==
    ASSUME AccountsInv, NEW h \in Handles,
           \/ Register(h) \/ RegisterNew(h) \/ Insert(h) \/ Resend(h)
           \/ VerifyWrong(h) \/ Age(h) \/ ExpireCode(h)
    PROVE  AccountsInv'
  <1> USE DEF AccountsInv
  <1>1. /\ UNCHANGED <<verified, holder, link, tried, session, spent>>
        /\ newest'.link = newest.link
        /\ newest' \in [handle : Handles \cup {Nobody}, link : Links \cup {Nobody}]
        /\ password' # password => password = Nobody /\ password' = h
    BY IssueCodeEffect
       DEF Register, RegisterNew, Insert, Resend, VerifyWrong, Age, ExpireCode,
           AccountsTypeOK
  <1>2. request' = request \/ \E to \in {"inserting", "over"} :
                                   request' = [request EXCEPT ![h] = to]
    BY DEF Register, RegisterNew, Insert, Resend, VerifyWrong, Age, ExpireCode, Reach
  <1>3. challenge' \in [Handles -> Challenge] /\ BoundNewest'
    <2>1. CASE Register(h) \/ Insert(h)
      BY <2>1, IssueCodeEffect DEF Register, Insert, AccountsTypeOK, BoundNewest
    <2>2. CASE RegisterNew(h)
      BY <2>2 DEF RegisterNew, AccountsTypeOK, BoundNewest
    <2>3. CASE Resend(h)
      <3>1. PICK arrived \in BOOLEAN :
              challenge' = [challenge EXCEPT ![h] =
                [bound |-> TRUE, consumed |-> FALSE, attempts |-> 0, fresh |-> TRUE,
                 aged |-> FALSE, arrived |-> arrived, mails |-> @.mails + 1]]
        BY <2>3 DEF Resend
      <3>2. challenge[h].mails + 1 \in 0..MaxMails
        BY <2>3, AccountsAssumption DEF Resend, AccountsTypeOK, Challenge
      <3>3. [bound |-> TRUE, consumed |-> FALSE, attempts |-> 0, fresh |-> TRUE,
             aged |-> FALSE, arrived |-> arrived, mails |-> challenge[h].mails + 1]
              \in Challenge
        BY <3>2, AccountsAssumption DEF Challenge
      <3>4. challenge[h].bound /\ newest' = newest
        BY <2>3 DEF Resend
      <3> QED BY <3>1, <3>3, <3>4 DEF AccountsTypeOK, BoundNewest
    <2>4. CASE VerifyWrong(h)
      <3> DEFINE n == challenge[h].attempts + 1
      <3>1. challenge' = [challenge EXCEPT ![h] =
                            [@ EXCEPT !.attempts = n, !.consumed = n >= MaxAttempts]]
        BY <2>4 DEF VerifyWrong, AccountsTypeOK, Challenge
      <3>2. n \in 0..MaxAttempts /\ (n >= MaxAttempts) \in BOOLEAN
        BY <2>4, AccountsAssumption DEF VerifyWrong, Verifiable, AccountsTypeOK, Challenge
      <3>3. /\ challenge'[h] \in Challenge
            /\ challenge'[h].bound = challenge[h].bound
        <4>1. challenge[h] \in Challenge
          BY DEF AccountsTypeOK
        <4>2. challenge'[h] = [challenge[h] EXCEPT !.attempts = n,
                                                   !.consumed = n >= MaxAttempts]
          BY <3>1 DEF AccountsTypeOK
        <4> HIDE DEF n
        <4> QED BY <4>1, <4>2, <3>2 DEF Challenge
      <3>4. newest' = newest
        BY <2>4 DEF VerifyWrong
      <3> QED BY <3>1, <3>3, <3>4 DEF AccountsTypeOK, BoundNewest
    <2>5. CASE Age(h) \/ ExpireCode(h)
      <3>1. newest' = newest
        BY <2>5 DEF Age, ExpireCode
      <3>2. /\ challenge' = [challenge EXCEPT ![h] = challenge'[h]]
            /\ challenge'[h] \in Challenge
            /\ challenge'[h].bound = challenge[h].bound
        <4>1. challenge[h] \in Challenge
          BY DEF AccountsTypeOK
        <4>2. PICK c \in {[challenge[h] EXCEPT !.aged = TRUE],
                          [challenge[h] EXCEPT !.fresh = FALSE]} :
                challenge' = [challenge EXCEPT ![h] = c]
          BY <2>5 DEF Age, ExpireCode
        <4>3. c \in Challenge /\ c.bound = challenge[h].bound
          BY <4>1, <4>2 DEF Challenge
        <4> QED BY <4>2, <4>3 DEF AccountsTypeOK
      <3> QED BY <3>1, <3>2 DEF AccountsTypeOK, BoundNewest
    <2> QED BY <2>1, <2>2, <2>3, <2>4, <2>5
  <1>4. cooling' \in BOOLEAN
    BY DEF Register, RegisterNew, Insert, Resend, VerifyWrong, Age, ExpireCode,
           Admitted, AccountsTypeOK
  <1>5. AccountsTypeOK'
    BY <1>1, <1>2, <1>3, <1>4 DEF AccountsTypeOK, Passwords
  <1>6. \A r \in Lockers : request'[r] = request[r]
    BY <1>2, Distinct DEF AccountsTypeOK, Lockers, Passwords
  <1>7. HashingHolds'
    BY <1>1, <1>6 DEF HashingHolds
  <1>8. VerifiedSet'
    BY <1>1, Distinct DEF VerifiedSet, Passwords
  <1>9. LoginsCurrent'
    BY <1>1, <1>6 DEF LoginsCurrent, Lockers, VerifiedSet
  <1>10. OpenNewest' /\ RedeemersSure'
    BY <1>1, <1>6 DEF OpenNewest, RedeemersSure, Lockers
  <1> QED BY <1>3, <1>5, <1>7, <1>8, <1>9, <1>10

(* The right code ends registration, and every session. *)
LEMMA VerifyStep ==
    ASSUME AccountsInv, NEW h \in Handles, Verify(h)
    PROVE  AccountsInv'
  <1> USE DEF AccountsInv
  <1>1. AccountsTypeOK'
    BY BulkTypes DEF Verify, AccountsTypeOK, Passwords
  <1>2. holder = Nobody /\ \A r \in Lockers : request[r] # "hashing"
    BY Distinct DEF Verify, Verifiable, Unlocked, HashingHolds
  <1>3. HashingHolds'
    BY <1>2 DEF Verify, HashingHolds
  <1>4. VerifiedSet'
    BY Distinct DEF Verify, VerifiedSet, Passwords
  <1>5. LoginsCurrent'
    BY <1>2, BulkTypes DEF Verify, LoginsCurrent, Lockers
  <1>6. BoundNewest'
    BY BulkTypes DEF Verify, BoundNewest
  <1>7. OpenNewest' /\ RedeemersSure'
    BY <1>2 DEF Verify, OpenNewest, RedeemersSure, Lockers
  <1> QED BY <1>1, <1>3, <1>4, <1>5, <1>6, <1>7

(* A reset link, from its issue to its end. *)
LEMMA LinkStep ==
    ASSUME AccountsInv, NEW l \in Links, RequestReset(l) \/ ExpireLink(l)
    PROVE  AccountsInv'
  <1> USE DEF AccountsInv
  <1>1. UNCHANGED <<password, verified, holder, challenge, cooling, request, tried,
                    session, spent>>
    BY DEF RequestReset, ExpireLink
  <1>2. CASE RequestReset(l)
    <2>1. \A r \in Lockers : request[r] # "hashing"
      BY <1>2, Distinct DEF RequestReset, Unlocked, HashingHolds
    <2>2. /\ newest' \in [handle : Handles \cup {Nobody}, link : Links \cup {Nobody}]
          /\ newest'.link = l /\ newest'.handle = newest.handle
      BY <1>2 DEF RequestReset, AccountsTypeOK
    <2>3. PICK mailed \in {"open", "lost"} : link' = [WithoutLinks EXCEPT ![l] = mailed]
      BY <1>2 DEF RequestReset
    <2>4. AccountsTypeOK'
      BY <1>1, <2>2, <2>3, BulkTypes DEF AccountsTypeOK, LinkState
    <2>5. OpenNewest'
      <3>1. verified /\ l \notin spent
        BY <1>2 DEF RequestReset, OpenNewest
      <3>2. \A k \in Links : link'[k] = IF k = l THEN mailed ELSE WithoutLinks[k]
        BY <2>3, BulkTypes
      <3>3. spent \subseteq Links
        BY DEF AccountsTypeOK
      <3> QED BY <1>1, <2>2, <3>1, <3>2, <3>3, BulkTypes DEF OpenNewest
    <2>6. HashingHolds' /\ VerifiedSet' /\ LoginsCurrent' /\ BoundNewest'
      BY <1>1, <2>2 DEF HashingHolds, VerifiedSet, LoginsCurrent, BoundNewest
    <2>7. RedeemersSure'
      BY <1>1, <2>1 DEF RedeemersSure, Lockers
    <2> QED BY <2>4, <2>5, <2>6, <2>7
  <1>3. CASE ExpireLink(l)
    <2>1. newest' = newest /\ link' = [link EXCEPT ![l] = "expired"] /\ link[l] = "open"
      BY <1>3 DEF ExpireLink
    <2>2. AccountsTypeOK'
      BY <1>1, <2>1 DEF AccountsTypeOK, LinkState
    <2>3. OpenNewest'
      BY <1>1, <2>1 DEF OpenNewest, AccountsTypeOK
    <2>4. /\ HashingHolds' /\ VerifiedSet' /\ LoginsCurrent' /\ BoundNewest'
          /\ RedeemersSure'
      BY <1>1, <2>1 DEF HashingHolds, VerifiedSet, LoginsCurrent, BoundNewest, RedeemersSure
    <2> QED BY <2>2, <2>3, <2>4
  <1> QED BY <1>2, <1>3

(* A request that redeems a link. *)
LEMMA RedeemerStep ==
    ASSUME AccountsInv, NEW r \in Redeemers, Redeem(r) \/ RedeemLock(r) \/ RedeemCommit(r)
    PROVE  AccountsInv'
  <1> USE DEF AccountsInv
  <1>1. r \in Lockers /\ r \in Passwords /\ r \notin Logins /\ r # Nobody
    BY Distinct DEF Lockers, Passwords
  <1>2. CASE Redeem(r)
    <2>1. PICK l \in Links : tried' = [tried EXCEPT ![r] = l]
      BY <1>2 DEF Redeem
    <2>2. /\ request[r] = "idle" /\ request' = [request EXCEPT ![r] = "locking"]
          /\ UNCHANGED <<password, verified, holder, challenge, link, cooling,
                         session, newest, spent>>
      BY <1>2 DEF Redeem, Reach
    <2>3. AccountsTypeOK'
      BY <1>1, <2>1, <2>2 DEF AccountsTypeOK, Lockers, Passwords
    <2>4. /\ \A q \in Lockers \ {r} : request'[q] = request[q] /\ tried'[q] = tried[q]
          /\ request'[r] = "locking" /\ tried'[r] = l
      BY <1>1, <2>1, <2>2 DEF AccountsTypeOK, Lockers, Passwords
    <2>5. HashingHolds'
      BY <1>1, <2>2, <2>4 DEF HashingHolds
    <2>6. LoginsCurrent'
      BY <1>1, <2>2, <2>4 DEF LoginsCurrent, Lockers
    <2>7. RedeemersSure'
      BY <1>1, <2>2, <2>4 DEF RedeemersSure, Lockers
    <2>8. VerifiedSet' /\ BoundNewest' /\ OpenNewest'
      BY <2>2 DEF VerifiedSet, BoundNewest, OpenNewest
    <2> QED BY <2>3, <2>5, <2>6, <2>7, <2>8
  <1>3. CASE RedeemLock(r)
    <2>1. /\ holder = Nobody /\ request[r] = "locking"
          /\ UNCHANGED <<password, verified, challenge, link, cooling, tried, session,
                         newest, spent>>
      BY <1>3 DEF RedeemLock, Unlocked
    <2>2. \/ /\ link[tried[r]] = "open" /\ holder' = r
             /\ request' = [request EXCEPT ![r] = "hashing"]
          \/ /\ holder' = holder
             /\ request' = [request EXCEPT ![r] = "over"]
      BY <1>3 DEF RedeemLock, Reach
    <2>3. AccountsTypeOK'
      BY <1>1, <2>1, <2>2 DEF AccountsTypeOK, Lockers, Passwords
    <2>4. /\ \A q \in Lockers \ {r} : request'[q] = request[q] /\ request[q] # "hashing"
          /\ \/ /\ request'[r] = "hashing" /\ holder' = r
                /\ link[tried[r]] = "open" /\ tried[r] \in Links
             \/ request'[r] = "over" /\ holder' = holder
      <3>1. tried[r] \in Links
        BY <2>1 DEF RedeemersSure
      <3>2. \A q \in Lockers \ {r} : request'[q] = request[q]
        BY <1>1, <2>2 DEF AccountsTypeOK, Lockers, Passwords
      <3>3. \A q \in Lockers : request[q] # "hashing"
        BY <2>1, Distinct DEF HashingHolds
      <3>4. request'[r] = "hashing" \/ request'[r] = "over"
        BY <1>1, <2>2 DEF AccountsTypeOK
      <3> QED BY <1>1, <2>2, <3>1, <3>2, <3>3, <3>4 DEF AccountsTypeOK
    <2>5. HashingHolds'
      BY <1>1, <2>1, <2>4, Distinct DEF HashingHolds
    <2>6. LoginsCurrent'
      BY <1>1, <2>1, <2>4 DEF LoginsCurrent, Lockers
    <2>7. RedeemersSure'
      BY <1>1, <2>1, <2>4 DEF RedeemersSure, OpenNewest, Lockers
    <2>8. VerifiedSet' /\ BoundNewest' /\ OpenNewest'
      BY <2>1 DEF VerifiedSet, BoundNewest, OpenNewest
    <2> QED BY <2>3, <2>5, <2>6, <2>7, <2>8
  <1>4. CASE RedeemCommit(r)
    <2> DEFINE l == tried[r]
    <2>1. /\ request[r] = "hashing" /\ request' = [request EXCEPT ![r] = "over"]
          /\ holder' = Nobody /\ password' = r /\ session' = Revoked
          /\ link' = [WithoutLinks EXCEPT ![l] = "consumed"]
          /\ spent' = spent \cup {l}
          /\ UNCHANGED <<verified, challenge, cooling, tried, newest>>
      BY <1>4 DEF RedeemCommit, Reach
    <2>2. verified /\ l = newest.link /\ l \in Links
      BY <2>1 DEF RedeemersSure
    <2>3. AccountsTypeOK'
      BY <1>1, <2>1, <2>2, BulkTypes DEF AccountsTypeOK, Lockers, Passwords, LinkState
    <2>4. /\ \A q \in Lockers \ {r} : request'[q] = request[q] /\ request[q] # "hashing"
          /\ request'[r] = "over"
      BY <1>1, <2>1 DEF AccountsTypeOK, Lockers, Passwords, HashingHolds
    <2>5. HashingHolds'
      BY <1>1, <2>1, <2>4, Distinct DEF HashingHolds
    <2>6. LoginsCurrent'
      BY <1>1, <2>1, <2>4, BulkTypes DEF LoginsCurrent, Lockers
    <2>7. RedeemersSure'
      BY <1>1, <2>1, <2>4 DEF RedeemersSure, Lockers
    <2>8. OpenNewest'
      <3>1. \A k \in Links : link'[k] = IF k = l THEN "consumed" ELSE WithoutLinks[k]
        BY <2>1, BulkTypes
      <3>2. spent \subseteq Links
        BY DEF AccountsTypeOK
      <3> QED BY <2>1, <2>2, <3>1, <3>2, BulkTypes DEF OpenNewest
    <2>9. VerifiedSet' /\ BoundNewest'
      BY <1>1, <2>1 DEF VerifiedSet, BoundNewest
    <2> QED BY <2>3, <2>5, <2>6, <2>7, <2>8, <2>9
  <1> QED BY <1>2, <1>3, <1>4

(* A login, and the end of its session. *)
LEMMA LoginStep ==
    ASSUME AccountsInv, NEW s \in Logins, LoginLock(s) \/ LoginCommit(s) \/ Logout(s)
    PROVE  AccountsInv'
  <1> USE DEF AccountsInv
  <1>1. s \in Lockers /\ s \notin Redeemers /\ s # Nobody
    BY Distinct DEF Lockers
  <1>2. UNCHANGED <<password, verified, challenge, link, cooling, newest, spent>>
    BY DEF LoginLock, LoginCommit, Logout
  <1>3. VerifiedSet' /\ BoundNewest' /\ OpenNewest'
    BY <1>2 DEF VerifiedSet, BoundNewest, OpenNewest
  <1>4. CASE LoginLock(s)
    <2>1. /\ holder = Nobody /\ holder' = s /\ password # Nobody
          /\ request[s] = "idle" /\ request' = [request EXCEPT ![s] = "hashing"]
          /\ tried' = [tried EXCEPT ![s] = password] /\ session' = session
      BY <1>4 DEF LoginLock, Unlocked, Reach
    <2>2. AccountsTypeOK'
      BY <1>1, <1>2, <2>1 DEF AccountsTypeOK, Lockers, Passwords
    <2>3. /\ \A q \in Lockers \ {s} : /\ request'[q] = request[q] /\ tried'[q] = tried[q]
                                      /\ request[q] # "hashing"
          /\ request'[s] = "hashing" /\ tried'[s] = password
      BY <1>1, <2>1, Distinct DEF AccountsTypeOK, Lockers, Passwords, HashingHolds
    <2>4. HashingHolds'
      BY <1>1, <2>1, <2>3 DEF HashingHolds
    <2>5. LoginsCurrent'
      BY <1>1, <1>2, <2>1, <2>3 DEF LoginsCurrent, Lockers
    <2>6. RedeemersSure'
      BY <1>1, <1>2, <2>3 DEF RedeemersSure, Lockers
    <2> QED BY <1>3, <2>2, <2>4, <2>5, <2>6
  <1>5. CASE LoginCommit(s)
    <2>1. /\ holder' = Nobody
          /\ request[s] = "hashing" /\ request' = [request EXCEPT ![s] = "over"]
          /\ session' = [session EXCEPT ![s] = IF verified THEN "live" ELSE "none"]
          /\ tried' = tried
      BY <1>5 DEF LoginCommit, Reach
    <2>2. AccountsTypeOK'
      BY <1>1, <1>2, <2>1 DEF AccountsTypeOK, Lockers, Passwords
    <2>3. /\ \A q \in Lockers \ {s} : request'[q] = request[q] /\ request[q] # "hashing"
          /\ \A q \in Logins \ {s} : session'[q] = session[q]
          /\ request'[s] = "over" /\ (session'[s] = "live" => verified)
      BY <1>1, <2>1 DEF AccountsTypeOK, Lockers, Passwords, HashingHolds
    <2>4. HashingHolds'
      BY <1>1, <2>1, <2>3, Distinct DEF HashingHolds
    <2>5. LoginsCurrent'
      BY <1>1, <1>2, <2>1, <2>3 DEF LoginsCurrent, Lockers
    <2>6. RedeemersSure'
      BY <1>1, <1>2, <2>1, <2>3 DEF RedeemersSure, Lockers
    <2> QED BY <1>3, <2>2, <2>4, <2>5, <2>6
  <1>6. CASE Logout(s)
    <2>1. /\ session[s] = "live" /\ session' = [session EXCEPT ![s] = "revoked"]
          /\ UNCHANGED <<holder, request, tried>>
      BY <1>6 DEF Logout
    <2>2. AccountsTypeOK'
      BY <1>2, <2>1 DEF AccountsTypeOK
    <2>3. HashingHolds' /\ RedeemersSure'
      BY <1>2, <2>1 DEF HashingHolds, RedeemersSure
    <2>4. LoginsCurrent'
      BY <1>2, <2>1 DEF LoginsCurrent, AccountsTypeOK
    <2> QED BY <1>3, <2>2, <2>3, <2>4
  <1> QED BY <1>4, <1>5, <1>6

(* A transaction that dies gives the lock back and leaves nothing. *)
LEMMA RollBackStep ==
    ASSUME AccountsInv, NEW r \in Lockers, RollBack(r)
    PROVE  AccountsInv'
  <1> USE DEF AccountsInv
  <1>1. /\ request[r] = "hashing" /\ request' = [request EXCEPT ![r] = "over"]
        /\ holder' = Nobody
        /\ UNCHANGED <<password, verified, challenge, link, cooling, tried, session,
                       newest, spent>>
    BY DEF RollBack, Reach
  <1>2. AccountsTypeOK'
    BY <1>1 DEF AccountsTypeOK, Lockers, Passwords
  <1>3. /\ \A q \in Lockers \ {r} : request'[q] = request[q] /\ request[q] # "hashing"
        /\ request'[r] = "over"
    BY <1>1 DEF AccountsTypeOK, Lockers, Passwords, HashingHolds
  <1>4. HashingHolds'
    BY <1>1, <1>3, Distinct DEF HashingHolds
  <1>5. LoginsCurrent' /\ RedeemersSure'
    BY <1>1, <1>3 DEF LoginsCurrent, RedeemersSure, Lockers
  <1>6. VerifiedSet' /\ BoundNewest' /\ OpenNewest'
    BY <1>1 DEF VerifiedSet, BoundNewest, OpenNewest
  <1> QED BY <1>2, <1>4, <1>5, <1>6

(* Every step keeps the invariant. *)
LEMMA AccountsInvNext == AccountsInv /\ [AccountsNext]_accountVars => AccountsInv'
  <1> SUFFICES ASSUME AccountsInv, [AccountsNext]_accountVars PROVE AccountsInv'
    OBVIOUS
  <1>1. CASE \E h \in Handles :
               \/ Register(h) \/ RegisterNew(h) \/ Insert(h) \/ Resend(h)
               \/ VerifyWrong(h) \/ Age(h) \/ ExpireCode(h)
    BY <1>1, RegistrationStep
  <1>2. CASE \E h \in Handles : Verify(h)
    BY <1>2, VerifyStep
  <1>3. CASE \E l \in Links : RequestReset(l) \/ ExpireLink(l)
    BY <1>3, LinkStep
  <1>4. CASE \E r \in Redeemers : Redeem(r) \/ RedeemLock(r) \/ RedeemCommit(r)
    BY <1>4, RedeemerStep
  <1>5. CASE \E s \in Logins : LoginLock(s) \/ LoginCommit(s) \/ Logout(s)
    BY <1>5, LoginStep
  <1>6. CASE \E r \in Lockers : RollBack(r)
    BY <1>6, RollBackStep
  <1>7. CASE Cool \/ UNCHANGED accountVars
    <2>1. cooling' \in BOOLEAN
      BY <1>7 DEF Cool, accountVars, AccountsInv, AccountsTypeOK
    <2>2. UNCHANGED <<password, verified, holder, challenge, link, request, tried,
                      session, newest, spent>>
      BY <1>7 DEF Cool, accountVars
    <2> QED BY <2>1, <2>2
            DEF AccountsInv, AccountsTypeOK, HashingHolds, VerifiedSet, LoginsCurrent,
                BoundNewest, OpenNewest, RedeemersSure
  <1> QED BY <1>1, <1>2, <1>3, <1>4, <1>5, <1>6, <1>7 DEF AccountsNext, Lockers

(* So it always holds. *)
LEMMA AccountsInvariant == AccountsSpec => []AccountsInv
  BY AccountsInvInit, AccountsInvNext, PTL DEF AccountsSpec

-----------------------------------------------------------------------------
(* A session that counts was opened with the password that is in force.     *)
THEOREM SessionsCurrentCorrect == AccountsSpec => []SessionsCurrent
  <1>1. AccountsInv => SessionsCurrent
    BY DEF AccountsInv, LoginsCurrent, SessionsCurrent, Signed
  <1> QED BY <1>1, AccountsInvariant, PTL

(* A password comes into force only with the newest registration or link.   *)
THEOREM PasswordProvenCorrect == AccountsSpec => PasswordProven
  <1> DEFINE Changes == verified' /\ <<verified, password>>' # <<verified, password>>
             Proven == \/ ~verified /\ password' = newest.handle
                       \/ /\ verified
                          /\ password' \in Redeemers
                          /\ tried[password'] = newest.link
                          /\ tried[password'] \notin spent
  <1>1. AccountsInv /\ [AccountsNext]_accountVars => [Changes => Proven]_accountVars
    <2> SUFFICES ASSUME AccountsInv, AccountsNext, Changes PROVE Proven
      BY DEF accountVars
    <2> USE DEF AccountsInv
    <2>1. CASE \E h \in Handles : Insert(h)
      BY <2>1 DEF Insert, VerifiedSet
    <2>2. CASE \E h \in Handles : Verify(h)
      BY <2>2 DEF Verify, Verifiable, BoundNewest
    <2>3. CASE \E r \in Redeemers : RedeemCommit(r)
      BY <2>3 DEF RedeemCommit, Reach, RedeemersSure
    <2>4. CASE UNCHANGED <<verified, password>>
      BY <2>4
    <2> QED BY <2>1, <2>2, <2>3, <2>4
            DEF AccountsNext, Register, RegisterNew, Resend, VerifyWrong, Age,
                ExpireCode, RequestReset, ExpireLink, Redeem, RedeemLock, RollBack,
                LoginLock, LoginCommit, Logout, Cool
  <1> QED BY <1>1, AccountsInvariant, PTL DEF AccountsSpec, PasswordProven

-----------------------------------------------------------------------------
(* The parts side by side *)

(* A step of the whole is a step of each part, or leaves it as it is. *)
LEMMA EachPartSteps ==
    ASSUME [ServicesNext]_serviceVars
    PROVE  /\ [AccountsNext]_accountVars /\ [KnowledgeNext]_knowledgeVars
           /\ [SlicingNext]_slicingVars /\ [MediaNext]_mediaVars
           /\ [AnsweringNext]_answeringVars /\ [ConversationNext]_conversationVars
           /\ [StoreNext]_storeVars
  <1>1. CASE UNCHANGED serviceVars
    BY <1>1 DEF serviceVars
  <1>2. CASE ServicesNext
    BY <1>2 DEF ServicesNext
  <1> QED BY <1>1, <1>2

(* So what is proved of each part by itself is true where they stand beside  *)
(* one another, as the run takes them.                                       *)
THEOREM PartsAlone ==
    ServicesSpec =>
      /\ AccountsSpec /\ KnowledgeSpec /\ SlicingSpec /\ MediaSpec
      /\ AnsweringSpec /\ ConversationSpec /\ StoreSpec
  <1>1. ServicesInit =>
          /\ AccountsInit /\ KnowledgeInit /\ SlicingInit /\ MediaInit
          /\ AnsweringInit /\ ConversationInit /\ StoreInit
    BY DEF ServicesInit
  <1>2. [ServicesNext]_serviceVars =>
          /\ [AccountsNext]_accountVars /\ [KnowledgeNext]_knowledgeVars
          /\ [SlicingNext]_slicingVars /\ [MediaNext]_mediaVars
          /\ [AnsweringNext]_answeringVars /\ [ConversationNext]_conversationVars
          /\ [StoreNext]_storeVars
    BY EachPartSteps
  <1> QED
    BY <1>1, <1>2, PTL DEF ServicesSpec, AccountsSpec, KnowledgeSpec, SlicingSpec, MediaSpec,
       AnsweringSpec, ConversationSpec, StoreSpec

(* Every variable of every part keeps its type: whatever is registered,     *)
(* filed, parsed, embedded, answered, told or shown, in any number.         *)
THEOREM ServicesTypesCorrect == ServicesSpec => []ServicesTypeOK
  <1>1. AccountsSpec => []AccountsTypeOK
    <2>1. AccountsInv => AccountsTypeOK
      BY DEF AccountsInv
    <2> QED BY <2>1, AccountsInvariant, PTL
  <1>2. KnowledgeSpec => []KnowledgeTypeOK
    <2>1. KnowledgeInv => KnowledgeTypeOK
      BY DEF KnowledgeInv
    <2> QED BY <2>1, KnowledgeInvInit, KnowledgeInvNext, PTL DEF KnowledgeSpec
  <1>3. /\ AccountsTypeOK /\ KnowledgeTypeOK /\ SlicingTypeOK /\ MediaTypeOK
        /\ AnsweringTypeOK /\ ConversationTypeOK /\ StoreTypeOK
        => ServicesTypeOK
    BY DEF ServicesTypeOK
  <1> QED
    BY <1>1, <1>2, <1>3, PartsAlone, SlicingTypesCorrect, MediaTypesCorrect, AnsweringTypesCorrect,
       ConversationTypesCorrect, StoreTypeCorrect, PTL

===============================================================================
