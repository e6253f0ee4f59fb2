------------------------------ MODULE ShareLinks ------------------------------
(***************************************************************************)
(* Share links, and the anonymous requests that resolve them.              *)
(*                                                                         *)
(* A link gives access to a vault entry or to a file, or lets a guest      *)
(* upload one file.  A request reads the link and checks it, then takes    *)
(* one of its uses with a conditional update, and only then reaches for    *)
(* what the link points to: three operations, and between them the link    *)
(* may be used by others, revoked, expired or purged, and the thing it     *)
(* points to may be gone.                                                  *)
(***************************************************************************)
EXTENDS Integers, FiniteSets

CONSTANTS
    Links,    \* one document each
    Asks,     \* requests, one life each
    NoLink,
    Limits    \* bound: the max_views links are created with; 0 is no limit

ASSUME ShareLinksAssumption ==
    /\ NoLink \notin Links
    /\ Limits \subseteq Nat
    /\ IsFiniteSet(Asks)

VARIABLES
    links,    \* link -> document
    target,   \* link -> state of the thing it points to
    asks,     \* request -> where it is
    landed    \* the upload requests whose file has been created

linkVars == <<links, target, asks, landed>>

-----------------------------------------------------------------------------
(* Documents and requests *)

Kinds == {"secret", "file", "upload"}

UnbornLink == [state |-> "unborn", kind |-> "file", limit |-> 0, used |-> 0,
               revoked |-> FALSE, expired |-> FALSE]
IdleAsk == [pc |-> "idle", what |-> "look", link |-> NoLink, seen |-> 0]

LinksInit ==
    /\ links = [l \in Links |-> UnbornLink]
    /\ target = [l \in Links |-> "none"]
    /\ asks = [a \in Asks |-> IdleAsk]
    /\ landed = {}

\* A limit of 0 means no limit.
WithinLimits(limit, used) == limit = 0 \/ used < limit

\* _peek_usable.
Usable(d) == ~d.revoked /\ ~d.expired /\ WithinLimits(d.limit, d.used)

\* What a request asks for decides which kind of link it resolves; anything
\* else is a 404.  A look at a file link only reads its metadata.
Resolves(what, kind) ==
    \/ what = "look" /\ kind = "file"
    \/ what = "reveal" /\ kind = "secret"
    \/ what = "download" /\ kind = "file"
    \/ what = "upload" /\ kind = "upload"

-----------------------------------------------------------------------------
(* Owners, time and housekeeping *)

NewLink(l, kind, limit) ==
    /\ links[l].state = "unborn"
    /\ links' = [links EXCEPT ![l] =
                   [state |-> "live", kind |-> kind, limit |-> limit, used |-> 0,
                    revoked |-> FALSE, expired |-> FALSE]]
    /\ UNCHANGED <<asks, landed>>

\* The thing exists when the link is created; a file need not be scanned yet.
CreateDownloadLink(l, kind, limit, t) ==
    /\ kind = "secret" => t = "ready"
    /\ NewLink(l, kind, limit)
    /\ target' = [target EXCEPT ![l] = t]

\* Broken variant: the limit of an upload link is the one that was asked for.
CreateUploadLinkUnlimited(l) == NewLink(l, "upload", 0) /\ UNCHANGED target

CreateUploadLink(l) == NewLink(l, "upload", 1) /\ UNCHANGED target

\* A blind $set: a link that is gone is left alone.
Revoke(l) ==
    /\ links[l].state = "live"
    /\ links' = [links EXCEPT ![l].revoked = TRUE]
    /\ UNCHANGED <<target, asks, landed>>

ExpireLink(l) ==
    /\ links[l].state = "live"
    /\ links' = [links EXCEPT ![l].expired = TRUE]
    /\ UNCHANGED <<target, asks, landed>>

\* The TTL index removes a document 90 days after it was created, whatever its
\* expiry.
Purge(l) ==
    /\ links[l].state = "live"
    /\ links' = [links EXCEPT ![l].state = "purged"]
    /\ UNCHANGED <<target, asks, landed>>

\* The scan of a file ends well, or a file or vault entry is deleted.
TargetChanges(l) ==
    /\ \/ target[l] = "unready" /\ target' = [target EXCEPT ![l] = "ready"]
       \/ target[l] \in {"unready", "ready"} /\ target' = [target EXCEPT ![l] = "gone"]
    /\ UNCHANGED <<links, asks, landed>>

-----------------------------------------------------------------------------
(* Requests *)

AskGoesTo(a, pc) == asks' = [asks EXCEPT ![a].pc = pc]

\* find_by_token, _peek_usable and _check_password, one read of the link; a
\* look at a file goes no further than its metadata.
Peek(a, what, l, passphraseOk) ==
    /\ asks[a].pc = "idle"
    /\ links[l].state = "live"
    /\ LET d  == links[l]
           ok == Resolves(what, d.kind) /\ Usable(d) /\ passphraseOk
       IN asks' = [asks EXCEPT ![a] =
            [pc |-> IF ~ok THEN "refused" ELSE IF what = "look" THEN "looked" ELSE "checked",
             what |-> what, link |-> l, seen |-> d.used]]
    /\ UNCHANGED <<links, target, landed>>

\* Broken variant: the counter is written back from what the check had read.
TryConsumeViewStale(a, answer) ==
    /\ asks[a].pc = "checked"
    /\ LET l == asks[a].link IN
         /\ links[l].state = "live" /\ ~links[l].revoked
         /\ WithinLimits(links[l].limit, asks[a].seen)
         /\ links' = [links EXCEPT ![l].used = asks[a].seen + 1]
    /\ AskGoesTo(a, answer)
    /\ UNCHANGED <<target, landed>>

\* Broken variant: the update does not look at is_revoked again.
TryConsumeViewRevoked(a, answer) ==
    /\ asks[a].pc = "checked"
    /\ LET l == asks[a].link IN
         /\ links[l].state = "live"
         /\ WithinLimits(links[l].limit, links[l].used)
         /\ links' = [links EXCEPT ![l].used = links[l].used + 1]
    /\ AskGoesTo(a, answer)
    /\ UNCHANGED <<target, landed>>

\* Broken variant: the update does not look at the limit again.
TryConsumeViewUncapped(a, answer) ==
    /\ asks[a].pc = "checked"
    /\ LET l == asks[a].link IN
         /\ links[l].state = "live" /\ ~links[l].revoked
         /\ links' = [links EXCEPT ![l].used = links[l].used + 1]
    /\ AskGoesTo(a, answer)
    /\ UNCHANGED <<target, landed>>

\* try_consume_view: one conditional update.  Its answer may be lost after it
\* was applied; the use is spent then.
TryConsumeView(a, answer) ==
    /\ asks[a].pc = "checked"
    /\ LET l == asks[a].link IN
         /\ links[l].state = "live" /\ ~links[l].revoked
         /\ WithinLimits(links[l].limit, links[l].used)
         /\ links' = [links EXCEPT ![l].used = links[l].used + 1]
    /\ AskGoesTo(a, answer)
    /\ UNCHANGED <<target, landed>>

\* The condition does not hold: 410.
ConsumeFails(a) ==
    /\ asks[a].pc = "checked"
    /\ LET d == links[asks[a].link] IN
         \/ d.state # "live"
         \/ d.revoked
         \/ ~WithinLimits(d.limit, d.used)
    /\ AskGoesTo(a, "refused")
    /\ UNCHANGED <<links, target, landed>>

\* The thing is read after the use was taken: 404 if it is gone and 409 if it
\* is a file that is not clean; the use stays spent.
Serve(a) ==
    /\ asks[a].pc = "granted"
    /\ asks[a].what \in {"reveal", "download"}
    /\ AskGoesTo(a, IF target[asks[a].link] = "ready" THEN "served" ELSE "spent")
    /\ UNCHANGED <<links, target, landed>>

\* The guest's file is staged and its document created ...
AcceptUpload(a) ==
    /\ asks[a].pc = "granted"
    /\ asks[a].what = "upload"
    /\ landed' = landed \union {a}
    /\ AskGoesTo(a, "stored")
    /\ UNCHANGED <<links, target>>

\* ... and the link gets its resource_id, if the link is still there.
Attach(a) ==
    /\ asks[a].pc = "stored"
    /\ LET l == asks[a].link IN
         target' = IF links[l].state = "live" THEN [target EXCEPT ![l] = "unready"]
                   ELSE target
    /\ AskGoesTo(a, "served")
    /\ UNCHANGED <<links, landed>>

\* The request ends where it stands: the upload is too large, the database does
\* not answer, the process stops.
AskFails(a) ==
    /\ \/ asks[a].pc = "checked" /\ AskGoesTo(a, "refused")
       \/ asks[a].pc \in {"granted", "stored"} /\ AskGoesTo(a, "spent")
    /\ UNCHANGED <<links, target, landed>>

-----------------------------------------------------------------------------

OwnerStep(l) ==
    \/ \E kind \in {"secret", "file"}, n \in Limits, t \in {"unready", "ready"} :
         CreateDownloadLink(l, kind, n, t)
    \/ CreateUploadLink(l)
    \/ Revoke(l)
    \/ ExpireLink(l)
    \/ Purge(l)
    \/ TargetChanges(l)

AskStep(a) ==
    \/ \E answer \in {"granted", "spent"} : TryConsumeView(a, answer)
    \/ ConsumeFails(a)
    \/ Serve(a)
    \/ AcceptUpload(a)
    \/ Attach(a)
    \/ AskFails(a)

StartAsk(a) ==
    \E what \in {"look", "reveal", "download", "upload"}, l \in Links, ok \in BOOLEAN :
        Peek(a, what, l, ok)

LinksNext ==
    \/ \E l \in Links : OwnerStep(l)
    \/ \E a \in Asks : StartAsk(a) \/ AskStep(a)

LinksSpec == LinksInit /\ [][LinksNext]_linkVars

-----------------------------------------------------------------------------
(* Properties *)

LinkDocument ==
    [state: {"unborn", "live", "purged"}, kind: Kinds, limit: Nat, used: Nat,
     revoked: BOOLEAN, expired: BOOLEAN]

AskState ==
    [pc: {"idle", "looked", "checked", "refused", "granted", "stored", "served", "spent"},
     what: {"look", "reveal", "download", "upload"}, link: Links \union {NoLink}, seen: Nat]

LinksTypeOK ==
    /\ links \in [Links -> LinkDocument]
    /\ target \in [Links -> {"none", "unready", "ready", "gone"}]
    /\ asks \in [Asks -> AskState]
    /\ landed \in SUBSET Asks

\* The requests that have taken a use of a link.
Took(l) == {a \in Asks : asks[a].link = l /\ asks[a].pc \in {"granted", "stored", "served", "spent"}}

\* The use counter of a link is the number of requests that took a use, however
\* many take one at the same time.
UsesCounted == \A l \in Links : links[l].used = Cardinality(Took(l))

\* A link with a limit is never used more often, although the limit is first
\* looked at long before the use is taken.
WithinLimit == \A l \in Links : links[l].limit > 0 => links[l].used <= links[l].limit

\* A guest link lets in one file, whatever fails and whoever else tries.
OneFilePerUploadLink ==
    \A l \in Links :
        links[l].kind = "upload" => Cardinality({a \in landed : asks[a].link = l}) <= 1

\* A revoked link is not used any more, not even by a request that had checked
\* it before it was revoked.
RevokedStaysUnused ==
    [][\A l \in Links : links[l].revoked =>
         /\ links'[l].used = links[l].used
         /\ links'[l].revoked]_linkVars

\* What a link promises, with the requests themselves counted as its uses: the
\* counter in the document is how it is kept.
Promise == INSTANCE UseBudget WITH
    Limits <- Limits \union {1},
    phase <- [l \in Links |->
                IF links[l].state = "unborn" THEN "unborn"
                ELSE IF links[l].state = "purged" \/ links[l].revoked THEN "closed"
                ELSE "open"],
    limit <- [l \in Links |-> links[l].limit],
    uses  <- [l \in Links |-> Cardinality(Took(l))]

KeepsPromise == Promise!Spec

==============================================================================
