--------------------------- MODULE WordPressSite ---------------------------
(***************************************************************************)
(* The adapter of a WordPress site without the connector plugin:           *)
(* src/app/site_adapters/wordpress.py.                                     *)
(*                                                                         *)
(* An operation is three requests: find the post by the last part of its   *)
(* address, write one field, ask for the newest revision, which becomes    *)
(* the change's name.  Editors work on the posts between the requests, and *)
(* any request may fail, with its effect or without.  WordPress does not   *)
(* know the idempotency key, so a repeated operation is a new one.         *)
(*                                                                         *)
(* Left out: credentials, the JSON of requests and answers, and reads,     *)
(* which change nothing; excerpts, which are restored as content is.       *)
(***************************************************************************)
EXTENDS Naturals, Sequences, FiniteSets

CONSTANTS
    Posts,
    Addresses,  \* where a post can be
    Slug,       \* address -> the last part of its path
    Home,       \* the address whose path is empty
    Texts,      \* what a title or a text can be
    Old,        \* what it is at first
    Removed,    \* the address of a post that is in the trash
    MaxCalls,   \* bound: operations begun
    MaxEdits,   \* bound: what editors do
    MaxFaults   \* bound: requests that fail

VARIABLES
    posts,      \* post -> its address and its fields
    revisions,  \* post -> its revisions, oldest first: title and content
    call,       \* the operation under way
    changes,    \* the answers given, oldest first
    begun, edits, faults

vars == <<posts, revisions, call, changes, begun, edits, faults>>

Post == [address : Addresses \cup {Removed}, title : Texts, content : Texts, meta : Texts,
         status : {"draft", "publish"}]
Idle == [at |-> "idle"]

Init ==
    /\ \E where \in [Posts -> Addresses] :
         /\ \A p, q \in Posts : p # q => where[p] # where[q]
         /\ posts = [p \in Posts |-> [address |-> where[p], title |-> Old, content |-> Old,
                                      meta |-> Old, status |-> "draft"]]
    /\ revisions = [p \in Posts |-> <<>>]
    /\ call = Idle
    /\ changes = <<>>
    /\ begun = 0 /\ edits = 0 /\ faults = 0
-----------------------------------------------------------------------------
PostsAt(address) == {p \in Posts : posts[p].address = address}
PostsOfSlug(address) ==
    {p \in Posts : posts[p].address # Removed /\ Slug[posts[p].address] = Slug[address]}

\* Faulty variant: any post of the slug will do.
ResolvedByName(address) == IF address = Home THEN {} ELSE PostsOfSlug(address)

\* _resolve_post: the post of this very link, else the only one of the slug.
Resolved(address) ==
    IF address = Home THEN {}
    ELSE IF Cardinality(PostsAt(address)) = 1 THEN PostsAt(address)
    ELSE IF Cardinality(PostsOfSlug(address)) = 1 THEN PostsOfSlug(address)
    ELSE {}

\* WordPress keeps a revision of every save that changes the title or the text.
Save(p, saved) ==
    /\ posts' = [posts EXCEPT ![p] = saved]
    /\ revisions' =
         IF saved.title = posts[p].title /\ saved.content = posts[p].content
         THEN revisions
         ELSE [revisions EXCEPT ![p] =
                 Append(@, [title |-> saved.title, content |-> saved.content])]

Fault ==
    /\ faults < MaxFaults
    /\ faults' = faults + 1
-----------------------------------------------------------------------------
\* An operation finds the post and notes what the field holds.
Look(field, address, value) ==
    /\ call = Idle /\ begun < MaxCalls
    /\ \E p \in Resolved(address) :
         call' = [at |-> "write", post |-> p, there |-> PostsAt(address),
                  previous |-> posts[p][field], new |-> [f \in {field} |-> value]]
    /\ begun' = begun + 1
    /\ UNCHANGED <<posts, revisions, changes, edits, faults>>

update_title(address, text) == Look("title", address, text)
update_meta_description(address, text) == Look("meta", address, text)
update_content(address, text) == Look("content", address, text)
update_internal_links(address, text) == Look("content", address, text)
publish_content(address) == Look("status", address, "publish")

\* The revision the change is named by: its title and its text are written.
rollback_change(n) ==
    LET change == changes[n] IN
    /\ call = Idle /\ begun < MaxCalls
    /\ call' = [at |-> "write", post |-> change.post, there |-> change.there,
                previous |-> Old, new |-> revisions[change.post][change.revision]]
    /\ begun' = begun + 1
    /\ UNCHANGED <<posts, revisions, changes, edits, faults>>

\* _update_post: the fields of the payload, the others as they are.
Written == [f \in DOMAIN posts[call.post] |->
              IF f \in DOMAIN call.new THEN call.new[f] ELSE posts[call.post][f]]

Write ==
    /\ call.at = "write"
    /\ Save(call.post, Written)
    /\ call' = [at |-> "name", post |-> call.post, there |-> call.there,
                previous |-> call.previous, made |-> Len(revisions'[call.post])]
    /\ UNCHANGED <<changes, begun, edits, faults>>

\* The write fails, or only its answer does.
WriteFails ==
    /\ call.at = "write"
    /\ Fault
    /\ \/ Save(call.post, Written)
       \/ UNCHANGED <<posts, revisions>>
    /\ call' = Idle
    /\ UNCHANGED <<changes, begun, edits>>

Answer(revision) ==
    changes' = Append(changes,
        [post |-> call.post, there |-> call.there, previous |-> call.previous,
         made |-> call.made, revision |-> revision])

\* _build_change_id: the newest revision, of whoever saved last.
Name ==
    /\ call.at = "name" /\ revisions[call.post] # <<>>
    /\ Answer(Len(revisions[call.post]))
    /\ call' = Idle
    /\ UNCHANGED <<posts, revisions, begun, edits, faults>>

\* No revision: the operation raises, though the site is changed.
Nameless ==
    /\ call.at = "name"
    /\ \/ revisions[call.post] = <<>> /\ UNCHANGED faults
       \/ Fault
    /\ call' = Idle
    /\ UNCHANGED <<posts, revisions, changes, begun, edits>>
-----------------------------------------------------------------------------
\* An editor saves a post, moves it to a free address or removes it.
Edit(p, text) ==
    /\ edits < MaxEdits /\ posts[p].address # Removed
    /\ Save(p, [posts[p] EXCEPT !.title = text])
    /\ edits' = edits + 1
    /\ UNCHANGED <<call, changes, begun, faults>>

Move(p, address) ==
    /\ edits < MaxEdits /\ posts[p].address # Removed
    /\ address = Removed \/ PostsAt(address) = {}
    /\ posts' = [posts EXCEPT ![p].address = address]
    /\ edits' = edits + 1
    /\ UNCHANGED <<revisions, call, changes, begun, faults>>

Next ==
    \/ \E address \in Addresses, text \in Texts :
         \/ update_title(address, text)
         \/ update_meta_description(address, text)
         \/ update_content(address, text)
         \/ update_internal_links(address, text)
    \/ \E address \in Addresses : publish_content(address)
    \/ \E n \in DOMAIN changes : rollback_change(n)
    \/ Write \/ WriteFails \/ Name \/ Nameless
    \/ \E p \in Posts, text \in Texts : Edit(p, text)
    \/ \E p \in Posts, address \in Addresses \cup {Removed} : Move(p, address)

Spec == Init /\ [][Next]_vars
-----------------------------------------------------------------------------
(* Posts and revisions are what WordPress keeps. *)
TypeOK ==
    /\ posts \in [Posts -> Post]
    /\ \A p \in Posts : \A n \in DOMAIN revisions[p] :
         revisions[p][n] \in [title : Texts, content : Texts]
    /\ call.at \in {"idle", "write", "name"}
    /\ begun \in 0..MaxCalls /\ edits \in 0..MaxEdits /\ faults \in 0..MaxFaults

(* When a post was at the address asked for, the change was made to it and   *)
(* to no other post of its slug, though it may have been moved by the time   *)
(* of the write (_resolve_post, _update_post).                               *)
PageAskedFor ==
    \A n \in DOMAIN changes : changes[n].there # {} => changes[n].post \in changes[n].there

(* A change is named by a revision at least as new as its own write:         *)
(* restoring it takes nobody back to a time before the change, not even to   *)
(* the value the change replaced (_build_change_id, rollback_change).        *)
NamedAfterWrite ==
    \A n \in DOMAIN changes : changes[n].revision >= changes[n].made
=============================================================================
