------------------------------- MODULE Posts --------------------------------
(***************************************************************************)
(* Posting texts and images to a group (client/src/groups.rs, tui.rs,      *)
(* attach.rs, messaging.rs) and the relay's attachments (backend/src/      *)
(* http.rs, store/pg.rs): an image is uploaded with a grant per member,    *)
(* then one envelope per member is sealed and put into the outbox, and the *)
(* author's history gets one row, under the id of the first envelope.      *)
(*                                                                         *)
(* One post is under way at a time.  Statements of its process are steps;  *)
(* other processes of the author may refresh the group's members or flush  *)
(* the outbox between any two.  An envelope the relay has accepted reaches *)
(* the member, as Delivery promises; group keys are in GroupKeys.          *)
(***************************************************************************)
EXTENDS RateLimit

CONSTANTS
  Member,      \* those who are or may be in the group, but for the author
  Post,        \* posts
  MaxNow,      \* bound: the clock
  MaxChanges   \* bound: changes of the group, removals of contacts

ASSUME PostAssumption == Post = Req
ASSUME NothingAssumption ==
  None \notin Post \cup Member \cup {"text", "image", "queued", "sent", "asked", "ok", "error"}

VARIABLES
  group,      \* the group's members at the relay
  cached,     \* in the author's store
  contacts,   \* the author's contacts
  at,         \* where the author's process is
  post,       \* the post under way, or None
  kind,       \* "text" or "image", or None for one never begun
  todo,       \* members it has still to seal an envelope for
  first,      \* the member whose envelope gave the history row its id
  history,    \* posts with a history row
  tick,       \* its state
  meta,       \* posts whose attachment row the author has
  outbox,     \* envelopes <<post, member>> in the author's outbox
  sent,       \* those the relay has accepted
  grants,     \* the members granted an image, from the request on
  blob,       \* images the relay has stored
  answer,     \* to the upload: None, "asked", "ok" or "error"
  changes,
  to,         \* history: the members a post was fanned out to
  crossed,    \* history: <<post, member>> cached by others during its upload
  early       \* history: posts with an envelope that left before the row

group_vars == <<group, cached, contacts, changes>>
author == <<at, post, kind, todo, first, history, tick, meta>>
envelopes == <<outbox, sent>>
attachments == <<grants, blob, answer>>
vars == <<limiter, group_vars, author, envelopes, attachments, to, crossed, early>>

TypeOK ==
  /\ LimiterTypeOK
  /\ group \subseteq Member /\ cached \subseteq Member /\ contacts \subseteq Member
  /\ at \in {"idle", "upload", "seal", "row", "meta"}
  /\ post \in Post \cup {None}
  /\ kind \in [Post -> {"text", "image", None}]
  /\ todo \subseteq Member
  /\ first \in [Post -> Member \cup {None}]
  /\ history \subseteq Post /\ meta \subseteq Post
  /\ tick \in [Post -> {None, "queued", "sent"}]
  /\ outbox \subseteq Post \X Member /\ sent \subseteq Post \X Member
  /\ grants \in [Post -> SUBSET Member] /\ blob \subseteq Post
  /\ answer \in [Post -> {None, "asked", "ok", "error"}]
  /\ to \in [Post -> SUBSET Member] /\ changes \in Nat
  /\ crossed \subseteq Post \X Member /\ early \subseteq Post

Init ==
  /\ LimiterInit
  /\ group \in SUBSET Member \ {{}} /\ cached = group /\ contacts = group /\ changes = 0
  /\ at = "idle" /\ post = None /\ todo = {}
  /\ kind = [p \in Post |-> None] /\ first = [p \in Post |-> None]
  /\ history = {} /\ meta = {} /\ tick = [p \in Post |-> None]
  /\ outbox = {} /\ sent = {}
  /\ grants = [p \in Post |-> {}] /\ blob = {} /\ answer = [p \in Post |-> None]
  /\ to = [p \in Post |-> {}] /\ crossed = {} /\ early = {}

-----------------------------------------------------------------------------
(* The group and the contacts change.                                      *)

Change == changes < MaxChanges /\ changes' = changes + 1

Regroup ==
  /\ Change
  /\ \E m \in Member : group' = IF m \in group THEN group \ {m} ELSE group \cup {m}
  /\ UNCHANGED <<limiter, cached, contacts, author, envelopes, attachments, to, crossed, early>>

(* /remove in the chat with m, in any window on the same store.            *)
DropContact ==
  /\ Change
  /\ \E m \in contacts : contacts' = contacts \ {m}
  /\ UNCHANGED <<limiter, group, cached, author, envelopes, attachments, to, crossed, early>>

(* cache_group: members are cached, then pinned; S are those it reaches    *)
(* before one whose keys it refuses.                                       *)
CacheGroup(S) == cached' = group /\ contacts' = contacts \cup S

Sync ==
  /\ \E S \in SUBSET group : CacheGroup(S)
  /\ crossed' = IF at = "upload" THEN crossed \cup {post} \X (group \ cached) ELSE crossed
  /\ UNCHANGED <<limiter, group, changes, author, envelopes, attachments, to, early>>

-----------------------------------------------------------------------------
(* The author's process.                                                   *)

Idle ==
  /\ at' = "idle" /\ post' = None /\ todo' = {}

(* compose_group: the members cached now get an envelope each.             *)
FanOut(p) ==
  /\ cached # {}
  /\ at' = "seal" /\ todo' = cached
  /\ to' = [to EXCEPT ![p] = cached]

PostText(p) ==
  /\ at = "idle" /\ kind[p] = None
  /\ kind' = [kind EXCEPT ![p] = "text"] /\ post' = p
  /\ FanOut(p)
  /\ UNCHANGED <<limiter, group_vars, first, history, tick, meta, envelopes, attachments, crossed, early>>

(* Mutant: the members to grant are read before the group is refreshed.    *)
GrantThenRefresh(p) ==
  /\ at = "idle" /\ kind[p] = None
  /\ CacheGroup(group) \/ UNCHANGED <<cached, contacts>>
  /\ cached' # {}
  /\ kind' = [kind EXCEPT ![p] = "image"] /\ post' = p
  /\ at' = "upload"
  /\ grants' = [grants EXCEPT ![p] = cached]
  /\ answer' = [answer EXCEPT ![p] = "asked"]
  /\ UNCHANGED <<limiter, group, changes, todo, first, history, tick, meta, envelopes, blob, to, crossed, early>>

(* send_image_in_chat: the group is refreshed, unless the relay does not   *)
(* answer, its members are granted the image and the upload is sent.       *)
PostImage(p) ==
  /\ at = "idle" /\ kind[p] = None
  /\ CacheGroup(group) \/ UNCHANGED <<cached, contacts>>
  /\ cached' # {}
  /\ kind' = [kind EXCEPT ![p] = "image"] /\ post' = p
  /\ at' = "upload"
  /\ grants' = [grants EXCEPT ![p] = cached']
  /\ answer' = [answer EXCEPT ![p] = "asked"]
  /\ UNCHANGED <<limiter, group, changes, todo, first, history, tick, meta, envelopes, blob, to, crossed, early>>

Reach(p) ==
  /\ answer[p] = "asked"
  /\ Arrive(p)
  /\ UNCHANGED <<group_vars, author, envelopes, attachments, to, crossed, early>>

(* insert_attachment: one transaction for the blob and its grants.         *)
InsertAttachment(p) == blob' = blob \cup {p} /\ answer' = [answer EXCEPT ![p] = "ok"]

Fail(p) == UNCHANGED blob /\ answer' = [answer EXCEPT ![p] = "error"]

(* The relay's handler: the limiter, then the store, which may fail.       *)
Upload(p) ==
  /\ \/ Admit(p) /\ (InsertAttachment(p) \/ Fail(p))
     \/ Refuse(p) /\ Fail(p)
  /\ UNCHANGED <<group_vars, author, envelopes, grants, to, crossed, early>>

(* The members who get the post are read once the image is uploaded.       *)
Uploaded ==
  /\ at = "upload" /\ answer[post] = "ok"
  /\ FanOut(post)
  /\ UNCHANGED <<limiter, group_vars, post, kind, first, history, tick, meta, envelopes, attachments, crossed, early>>

NotUploaded ==
  /\ at = "upload"
  /\ answer[post] = "error" \/ (answer[post] = "ok" /\ cached = {})
  /\ Idle
  /\ UNCHANGED <<limiter, group_vars, kind, first, history, tick, meta, envelopes, attachments, to, crossed, early>>

(* Mutant: the row has an id of its own.                                   *)
SealUnnamed ==
  /\ at = "seal"
  /\ \E m \in todo \cap contacts :
       /\ outbox' = outbox \cup {<<post, m>>}
       /\ todo' = todo \ {m}
       /\ at' = IF todo' = {} THEN "row" ELSE "seal"
  /\ UNCHANGED <<limiter, group_vars, post, kind, first, history, tick, meta, sent, attachments, to, crossed, early>>

(* seal_wire for one member; the first envelope gives the row its id.      *)
Seal ==
  /\ at = "seal"
  /\ \E m \in todo \cap contacts :
       /\ outbox' = outbox \cup {<<post, m>>}
       /\ first' = [first EXCEPT ![post] = IF @ = None THEN m ELSE @]
       /\ todo' = todo \ {m}
       /\ at' = IF todo' = {} THEN "row" ELSE "seal"
  /\ UNCHANGED <<limiter, group_vars, post, kind, history, tick, meta, sent, attachments, to, crossed, early>>

(* Mutant: such a member is left out.                                      *)
SkipMember ==
  /\ at = "seal" /\ todo \ contacts # {}
  /\ todo' = todo \cap contacts
  /\ at' = IF todo' = {} THEN "row" ELSE "seal"
  /\ UNCHANGED <<limiter, group_vars, post, kind, first, history, tick, meta, envelopes, attachments, to, crossed, early>>

(* A member that is not a contact ends the post where it is.               *)
NotAContact ==
  /\ at = "seal" /\ todo \ contacts # {}
  /\ Idle
  /\ UNCHANGED <<limiter, group_vars, kind, first, history, tick, meta, envelopes, attachments, to, crossed, early>>

InsertRow ==
  /\ at = "row"
  /\ history' = history \cup {post}
  /\ tick' = [tick EXCEPT ![post] = "queued"]
  /\ IF kind[post] = "image" THEN at' = "meta" /\ UNCHANGED <<post, todo>> ELSE Idle
  /\ UNCHANGED <<limiter, group_vars, kind, first, meta, envelopes, attachments, to, crossed, early>>

StoreAttachment == meta' = meta \cup {post}

StoreMeta ==
  /\ at = "meta"
  /\ StoreAttachment
  /\ Idle
  /\ UNCHANGED <<limiter, group_vars, kind, first, history, tick, envelopes, attachments, to, crossed, early>>

(* The process ends, or the answer to its upload is lost.                  *)
Quit ==
  /\ at # "idle"
  /\ Idle
  /\ UNCHANGED <<limiter, group_vars, kind, first, history, tick, meta, envelopes, attachments, to, crossed, early>>

-----------------------------------------------------------------------------
(* Envelopes on their way.  The row's state follows the first one; without *)
(* a row set_state does nothing.                                           *)

Raise(p, m) ==
  tick' = IF first[p] = m /\ p \in history THEN [tick EXCEPT ![p] = "sent"] ELSE tick

(* flush_outbox, in this process or another, and the relay's Accepted.     *)
Accepted ==
  /\ \E e \in outbox :
       /\ outbox' = outbox \ {e} /\ sent' = sent \cup {e}
       /\ Raise(e[1], e[2])
       /\ early' = IF e[1] \in history THEN early ELSE early \cup {e[1]}
  /\ UNCHANGED <<limiter, group_vars, at, post, kind, todo, first, history, meta, attachments, to, crossed>>

Next ==
  \/ now < MaxNow /\ Tick /\ UNCHANGED <<group_vars, author, envelopes, attachments, to, crossed, early>>
  \/ Regroup \/ DropContact \/ Sync
  \/ \E p \in Post : PostText(p) \/ PostImage(p) \/ Reach(p) \/ Upload(p)
  \/ Uploaded \/ NotUploaded \/ Seal \/ NotAContact \/ InsertRow \/ StoreMeta \/ Quit
  \/ Accepted

Spec == Init /\ [][Next]_vars

-----------------------------------------------------------------------------
(* attachment_blob: whether the relay gives the image of p to m.           *)
MayDownload(p, m) == p \in blob /\ m \in grants[p]

(* An envelope of an image leads to an image the relay has, and its member *)
(* may download it, although grants and recipients are read from the store *)
(* before and after the upload; but for a member that another process      *)
(* cached during the upload, whom the request did not name.                *)
ImagesOpen ==
  \A e \in outbox \cup sent :
    kind[e[1]] = "image" => e[1] \in blob /\ (MayDownload(e[1], e[2]) \/ e \in crossed)

(* What the author's history shows was queued for every member it was      *)
(* meant for, whichever contacts are removed while it is sealed.           *)
HistoryMeansAll ==
  \A p \in history, m \in Member :
    m \in to[p] => <<p, m>> \in outbox \cup sent

(* A post is shown as waiting only while an envelope of it waits, unless   *)
(* another process flushed one before the row existed.                     *)
WaitingIsWaiting ==
  \A p \in history \ early :
    tick[p] = "queued" => \E m \in Member : <<p, m>> \in outbox
=============================================================================
