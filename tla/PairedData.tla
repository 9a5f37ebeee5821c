------------------------------ MODULE PairedData ------------------------------
(***************************************************************************)
(* A project that is linked to the data of another one, the source.  The   *)
(* submissions of the source are exported to an XML file, cut down to the  *)
(* fields that the link asks for and the source shares, and cached.  The   *)
(* requests that change the link and those that fetch the file overlap.    *)
(***************************************************************************)
EXTENDS Naturals

CONSTANTS
    Questions,       \* the questions of the source
    FieldLists,      \* the sets of fields that links and sources choose; {} means all
    Visitors,        \* the requests that may be in progress at a time
    MaxLinks,        \* bound: the links, one after the other
    MaxVisits,       \* bound: the requests in all
    MaxShared        \* bound: how often the source changes what it shares

ASSUME PairedAssumption ==
    /\ FieldLists \subseteq SUBSET Questions /\ {} \in FieldLists
    /\ MaxLinks \in Nat /\ MaxVisits \in Nat /\ MaxShared \in Nat

VARIABLES
    sharing,      \* the source's data_sharing
    link,         \* the project's paired_data: the uid of the link, 0 for none, and fields
    linked, shared, visits,   \* how many there have been
    cache,        \* the AssetFile of each uid: none, without content, or its content
    expired,      \* the uids whose content is older than PAIRED_DATA_EXPIRATION
    visit,        \* what each request does
    overlapped    \* history: the uids that were changed while another request was about

pairedVars == <<sharing, link, linked, shared, visits, cache, expired, visit, overlapped>>

Uid == 1 .. MaxLinks
Sharing == [enabled: BOOLEAN, fields: FieldLists]
Link == [uid: Uid \cup {0}, fields: FieldLists]
Content == [asked: FieldLists, shared: FieldLists]   \* what it was made from
NoRow == [at |-> "none"]
Void == [at |-> "void"]
Full(content) == [at |-> "full", content |-> content]
FileRows == {NoRow, Void} \cup [at: {"full"}, content: Content]
Away == [at |-> "idle"]

PairedTypeOK ==
    /\ sharing \in Sharing
    /\ link \in Link
    /\ linked \in 0 .. MaxLinks /\ shared \in 0 .. MaxShared /\ visits \in 0 .. MaxVisits
    /\ cache \in [Uid -> FileRows]
    /\ expired \subseteq Uid
    /\ visit \in [Visitors -> {Away} \cup
          [at: {"void", "erase", "store", "remove"}, copy: [uid: Uid, fields: FieldLists]] \cup
          [at: {"drop"}, uid: Uid] \cup
          [at: {"look", "keep"}, uid: Uid, content: Content, known: BOOLEAN]]
    /\ overlapped \subseteq Uid

PairedInit ==
    /\ sharing = [enabled |-> TRUE, fields |-> {}]
    /\ link = [uid |-> 0, fields |-> {}]
    /\ linked = 0 /\ shared = 0 /\ visits = 0
    /\ cache = [u \in Uid |-> NoRow]
    /\ expired = {}
    /\ visit = [v \in Visitors |-> Away]
    /\ overlapped = {}

----------------------------------------------------------------------------
(* allowed_fields and strip_nodes *)

\* Mutant: a field is exported if either side names it.
EitherAllows(content) ==
    IF content.shared = {} THEN content.asked
    ELSE IF content.asked = {} THEN content.shared
    ELSE content.asked \cup content.shared

Allowed(content) ==
    IF content.shared = {} THEN content.asked
    ELSE IF content.asked = {} THEN content.shared
    ELSE content.asked \cap content.shared

\* An empty list of nodes to keep keeps them all.
Exported(content) == IF Allowed(content) = {} THEN Questions ELSE Allowed(content)

----------------------------------------------------------------------------
(* The requests *)

Changing == {"void", "erase", "store", "remove"}
UidOf(r) == IF r.at \in Changing THEN r.copy.uid ELSE r.uid
Admit(v, r) ==
    LET others == {visit[w] : w \in Visitors \ {v}} \ {Away}
        mixed == \E x \in others : x.at \in Changing \/ r.at \in Changing
    IN  /\ visit[v] = Away
        /\ visits < MaxVisits
        /\ visits' = visits + 1
        /\ visit' = [visit EXCEPT ![v] = r]
        /\ overlapped' = IF mixed THEN overlapped \cup {UidOf(x) : x \in others \cup {r}}
                         ELSE overlapped
Finish(v) == visit' = [visit EXCEPT ![v] = Away]

\* The serializer accepts fields that the source shares; a request that does not
\* name any keeps those there are.
Offered(fields) == sharing.fields = {} \/ fields \subseteq sharing.fields

CreateLink(v, fields) ==
    /\ link.uid = 0 /\ sharing.enabled /\ Offered(fields)
    /\ linked < MaxLinks
    /\ linked' = linked + 1
    /\ Admit(v, [at |-> "store", copy |-> [uid |-> linked + 1, fields |-> fields]])
    /\ UNCHANGED <<sharing, link, shared, cache, expired>>

\* Mutant: the file is left as it is.
UpdateLinkOnly(v, fields) ==
    /\ link.uid # 0
    /\ fields = link.fields \/ Offered(fields)
    /\ Admit(v, [at |-> "store", copy |-> [uid |-> link.uid, fields |-> fields]])
    /\ UNCHANGED <<sharing, link, linked, shared, cache, expired>>

UpdateLink(v, fields) ==
    /\ link.uid # 0
    /\ fields = link.fields \/ Offered(fields)
    /\ Admit(v, [at |-> "void", copy |-> [uid |-> link.uid, fields |-> fields]])
    /\ UNCHANGED <<sharing, link, linked, shared, cache, expired>>

DeleteLink(v) ==
    /\ link.uid # 0
    /\ Admit(v, [at |-> "erase", copy |-> link])
    /\ UNCHANGED <<sharing, link, linked, shared, cache, expired>>

\* `external`: without the source, its file is dropped.
Fetch(v) ==
    /\ link.uid # 0
    /\ Admit(v, IF sharing.enabled
                THEN [at |-> "look", uid |-> link.uid, known |-> FALSE,
                      content |-> [asked |-> link.fields, shared |-> sharing.fields]]
                ELSE [at |-> "drop", uid |-> link.uid])
    /\ UNCHANGED <<sharing, link, linked, shared, cache, expired>>

OnlyVisits == UNCHANGED <<sharing, linked, shared, visits, overlapped>>

\* The content goes before the new fields are saved.
VoidCache(v) ==
    LET uid == visit[v].copy.uid
    IN  /\ visit[v].at = "void"
        /\ cache' = [cache EXCEPT ![uid] = IF @ = NoRow THEN NoRow ELSE Void]
        /\ visit' = [visit EXCEPT ![v].at = "store"]
        /\ OnlyVisits /\ UNCHANGED <<link, expired>>

StoreLink(v) ==
    /\ visit[v].at = "store"
    /\ link' = visit[v].copy
    /\ Finish(v)
    /\ OnlyVisits /\ UNCHANGED <<cache, expired>>

EraseFile(v) ==
    /\ visit[v].at = "erase"
    /\ cache' = [cache EXCEPT ![visit[v].copy.uid] = NoRow]
    /\ visit' = [visit EXCEPT ![v].at = "remove"]
    /\ OnlyVisits /\ UNCHANGED <<link, expired>>

RemoveLink(v) ==
    /\ visit[v].at = "remove"
    /\ link' = [uid |-> 0, fields |-> {}]
    /\ Finish(v)
    /\ OnlyVisits /\ UNCHANGED <<cache, expired>>

DropFile(v) ==
    /\ visit[v].at = "drop"
    /\ cache' = [cache EXCEPT ![visit[v].uid] = NoRow]
    /\ Finish(v)
    /\ OnlyVisits /\ UNCHANGED <<link, expired>>

\* What is cached and fresh is served; otherwise the submissions are exported.
LookUp(v) ==
    LET uid == visit[v].uid
    IN  /\ visit[v].at = "look"
        /\ IF cache[uid].at = "full" /\ uid \notin expired THEN Finish(v)
           ELSE visit' = [visit EXCEPT ![v].at = "keep", ![v].known = cache[uid] # NoRow]
        /\ OnlyVisits /\ UNCHANGED <<link, cache, expired>>

\* A new row collides with one that was made meanwhile; a row that was there is
\* saved, and made again if it has been deleted meanwhile.
KeepFile(v) ==
    LET uid == visit[v].uid
    IN  /\ visit[v].at = "keep"
        /\ IF visit[v].known \/ cache[uid] = NoRow
           THEN /\ cache' = [cache EXCEPT ![uid] = Full(visit[v].content)]
                /\ expired' = expired \ {uid}
           ELSE UNCHANGED <<cache, expired>>
        /\ Finish(v)
        /\ OnlyVisits /\ UNCHANGED link

\* The process is killed, or there are no submissions, which are not cached.
GiveUp(v) ==
    /\ visit[v] # Away
    /\ Finish(v)
    /\ OnlyVisits /\ UNCHANGED <<link, cache, expired>>

----------------------------------------------------------------------------
Share(enabled, fields) ==
    /\ shared < MaxShared
    /\ shared' = shared + 1
    /\ sharing' = [enabled |-> enabled, fields |-> fields]
    /\ UNCHANGED <<link, linked, visits, cache, expired, visit, overlapped>>

Expire(u) ==
    /\ cache[u].at = "full"
    /\ expired' = expired \cup {u}
    /\ UNCHANGED <<sharing, link, linked, shared, visits, cache, visit, overlapped>>

PairedNext ==
    \/ \E v \in Visitors :
         \/ \E fields \in FieldLists : CreateLink(v, fields) \/ UpdateLink(v, fields)
         \/ DeleteLink(v) \/ Fetch(v)
         \/ VoidCache(v) \/ StoreLink(v) \/ EraseFile(v) \/ RemoveLink(v)
         \/ DropFile(v) \/ LookUp(v) \/ KeepFile(v) \/ GiveUp(v)
    \/ \E enabled \in BOOLEAN, fields \in FieldLists : Share(enabled, fields)
    \/ \E u \in Uid : Expire(u)

PairedSpec == PairedInit /\ [][PairedNext]_pairedVars

----------------------------------------------------------------------------
(* Properties *)

Within(fields, list) == list = {} \/ fields \subseteq list
Disjoint(content) ==
    /\ content.asked # {} /\ content.shared # {}
    /\ content.asked \cap content.shared = {}

\* A cached file belongs to the link there is, was made for the fields it asks for,
\* and shows nothing that the source did not share then, however requests break off
\* and the source changes.  The exceptions: links changed while another request was
\* in progress; a link whose fields are none of those shared, for which the empty
\* list stands for all of them.
CacheFollowsLink ==
    \A u \in Uid : cache[u].at = "full" =>
        LET content == cache[u].content
        IN  /\ u \notin overlapped => u = link.uid /\ content.asked = link.fields
            /\ \/ Disjoint(content)
               \/ Within(Exported(content), content.asked) /\ Within(Exported(content), content.shared)
=============================================================================
