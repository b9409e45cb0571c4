----------------------------- MODULE Knowledge -----------------------------
(***************************************************************************)
(* The knowledge bases of one owner, the documents in them and the chat    *)
(* sessions bound to them. A request authenticates first, which fixes what *)
(* its plain reads see from then on (MySQL's REPEATABLE READ); locking     *)
(* reads and writes see what is committed.                                 *)
(*                                                                         *)
(* Every change of the memberships locks the owner's row before anything   *)
(* else and until it commits, so what follows the lock is one action.      *)
(***************************************************************************)
EXTENDS Naturals, FiniteSets

CONSTANTS
    Bases,      \* knowledge bases
    Documents,  \* the owner's documents
    Sessions,   \* chat sessions
    Editors     \* concurrent requests, each changing the memberships once

(* Scopes of a session that has no base: nothing asked yet, base deleted. *)
NoBase == {"unasked", "lost"}

ASSUME KnowledgeAssumption == Bases \cap NoBase = {}

VARIABLES
    bases,    \* knowledge_bases rows
    links,    \* kb_documents rows, as pairs <<base, document>>
    enabled,  \* the links whose enabled flag is set
    removed,  \* documents whose deleted_at is set
    scope,    \* session_scopes rows: the base of each session
    editor,   \* what each request is about to do
    seen      \* the links in the snapshot of each request

knowledgeVars == <<bases, links, enabled, removed, scope, editor, seen>>

Link == Bases \X Documents

(* A request: fresh, over, or an operation with its base and document. *)
Operation == [op : {"add", "remove", "update"}, at : Link] \cup
             [op : {"delete"}, base : Bases]
Fresh == [op |-> "fresh"]
Over == [op |-> "over"]

KnowledgeTypeOK ==
    /\ bases \subseteq Bases
    /\ links \subseteq bases \X Documents
    /\ enabled \subseteq links
    /\ removed \subseteq Documents
    /\ scope \in [Sessions -> bases \cup NoBase]
    /\ editor \in [Editors -> Operation \cup {Fresh, Over}]
    /\ seen \in [Editors -> SUBSET Link]

(* What earlier requests have made: some bases, with documents in them. *)
KnowledgeInit ==
    /\ bases \in SUBSET Bases
    /\ links \in SUBSET (bases \X Documents)
    /\ enabled = links
    /\ removed = {}
    /\ scope = [s \in Sessions |-> "unasked"]
    /\ editor = [e \in Editors |-> Fresh]
    /\ seen = [e \in Editors |-> {}]

-----------------------------------------------------------------------------
LinksOf(d) == {l \in links : l[2] = d}

(* create *)
CreateBase(b) ==
    /\ b \notin bases
    /\ \A e \in Editors : editor[e] = Fresh
    /\ bases' = bases \cup {b}
    /\ UNCHANGED <<links, enabled, removed, scope, editor, seen>>

(* A request is authenticated, and its snapshot is taken. *)
Arrive(e) ==
    /\ editor[e] = Fresh
    /\ \E o \in Operation : editor' = [editor EXCEPT ![e] = o]
    /\ seen' = [seen EXCEPT ![e] = links]
    /\ UNCHANGED <<bases, links, enabled, removed, scope>>

Leaves(e) ==
    /\ editor' = [editor EXCEPT ![e] = Over]
    /\ seen' = [seen EXCEPT ![e] = {}]

Doing(e, op) == editor[e] # Over /\ editor[e].op = op

(* Slip: the base is not read again under the lock. *)
AddableUnread(l) == l[2] \notin removed /\ l \notin links

(* What the locking reads of add_file ask for: base and document exist, and  *)
(* they are not linked yet.                                                  *)
Addable(l) == l[1] \in bases /\ l[2] \notin removed /\ l \notin links

(* add_file *)
AddFile(e) ==
    /\ Doing(e, "add")
    /\ Leaves(e)
    /\ LET l == editor[e].at IN
       IF Addable(l)
       THEN /\ links' = links \cup {l}
            /\ \E on \in {{}, {l}} : enabled' = enabled \cup on
       ELSE UNCHANGED <<links, enabled>>
    /\ UNCHANGED <<bases, removed, scope>>

(* update_file without a lock: the link may be gone when it is written, and  *)
(* then the request fails.                                                   *)
UpdateFile(e) ==
    /\ Doing(e, "update")
    /\ Leaves(e)
    /\ LET l == editor[e].at IN
       IF l \in seen[e] \cap links
       THEN \E on \in {{}, {l}} : enabled' = (enabled \ {l}) \cup on
       ELSE UNCHANGED enabled
    /\ UNCHANGED <<bases, links, removed, scope>>

(* Slip: has_memberships is a plain read of the request's snapshot. *)
UnlinkedInSnapshot(e, gone) ==
    {d \in {l[2] : l \in gone} : \A l \in seen[e] \ gone : l[2] # d}

(* The documents without a membership, once those in gone are deleted:       *)
(* has_memberships reads what is committed and the request's own changes.    *)
Unlinked(e, gone) == {d \in {l[2] : l \in gone} : LinksOf(d) \subseteq gone}

(* prepare_deletion of these documents: deleted_at, and every link goes. *)
PrepareRemoval(docs, gone) ==
    /\ removed' = removed \cup docs
    /\ links' = {l \in links \ gone : l[2] \notin docs}
    /\ enabled' = enabled \cap links'

RemoveFile(e) ==
    /\ Doing(e, "remove")
    /\ Leaves(e)
    /\ LET l == editor[e].at
           gone == {l}
       IN IF l[1] \in bases /\ l \in links
          THEN PrepareRemoval(Unlinked(e, gone), gone)
          ELSE UNCHANGED <<removed, links, enabled>>
    /\ UNCHANGED <<bases, scope>>

(* delete: the links and scopes of the base go with it. *)
DeleteBase(e) ==
    /\ Doing(e, "delete")
    /\ Leaves(e)
    /\ LET b == editor[e].base
           gone == {l \in links : l[1] = b}
       IN IF b \in bases
          THEN /\ bases' = bases \ {b}
               /\ PrepareRemoval(Unlinked(e, gone), gone)
               /\ scope' = [s \in Sessions |-> IF scope[s] = b THEN "lost" ELSE scope[s]]
          ELSE UNCHANGED <<bases, removed, links, enabled, scope>>

(* The first turn of a session binds it to a base that still exists (the    *)
(* foreign key sees to that) and has something to retrieve from.            *)
Bind(s) ==
    /\ scope[s] = "unasked"
    /\ \E b \in bases :
         /\ \E l \in enabled : l[1] = b
         /\ scope' = [scope EXCEPT ![s] = b]
    /\ UNCHANGED <<bases, links, enabled, removed, editor, seen>>

KnowledgeNext ==
    \/ \E b \in Bases : CreateBase(b)
    \/ \E e \in Editors :
         \/ Arrive(e) \/ AddFile(e) \/ UpdateFile(e)
         \/ RemoveFile(e) \/ DeleteBase(e)
    \/ \E s \in Sessions : Bind(s)

KnowledgeSpec == KnowledgeInit /\ [][KnowledgeNext]_knowledgeVars

-----------------------------------------------------------------------------
(* Properties *)

(* A document lives as long as it is in some base: it is deleted by whoever *)
(* takes it out of its last base, be it one of two requests at once or the  *)
(* deletion of the base, in that very step, and never while another base    *)
(* still has it. A document nobody ever filed is left alone.                *)
LastLinkDeletes ==
    [][\A d \in Documents :
         LET before == {l[1] : l \in LinksOf(d)}
             after == {l[1] : l \in LinksOf(d)'}
         IN IF d \in removed' \ removed
            THEN Cardinality(before) = 1 /\ after = {}
            ELSE removed \subseteq removed' /\ (before # {} => after # {})
      ]_knowledgeVars

=============================================================================
