--------------------------------- MODULE Reading --------------------------------
(***************************************************************************)
(* How the tools read Telegram: a chat or a search page by page             *)
(* (telegram/history.py, tools/telegram_tools.py), and the download of what *)
(* a message carries (telegram/media.py, gateway.download_media).           *)
(*                                                                         *)
(* Messages are numbered by their date over all chats; their ids count in   *)
(* each chat.  A page is continued by an id, which is enough in a chat.  A  *)
(* search over all chats needs the message itself, and the one reader of    *)
(* the process remembers it by the search and the id.                       *)
(***************************************************************************)
EXTENDS Naturals, Sequences, FiniteSets, FiniteSetsExt

CONSTANTS
    Readers,       \* the tool calls of the runs, one after the other
    Walks,         \* what they read or search, back, forth or since a date
    Asked,         \* which of these a reader asks for
    Loading,       \* the readers that download
    Attached,      \* bound: the messages that they download from
    Chats, Searches,
    MaxMessages,   \* bound: messages ever
    Chat,          \* the chat of a message
    Floor,         \* min_date of a search in a chat
    PageSize,      \* the limit of a page
    CursorMemory   \* _CURSOR_MEMORY

Messages == 1..MaxMessages

ASSUME ReadingAssumption ==
    /\ {PageSize, CursorMemory, MaxMessages} \subseteq Nat \ {0}
    /\ Floor \in Nat
    /\ Walks \subseteq [kind : {"back", "forth", "since"}, of : Chats]
                  \cup [kind : {"global"}, of : Searches]
    /\ Asked \in [Readers -> SUBSET Walks] /\ Loading \subseteq Readers /\ Attached \subseteq Messages
    /\ Chat \in [Messages -> Chats]

VARIABLES
    latest,   \* messages so far
    there,    \* those that are not deleted
    cursors,  \* _global_cursors, in the order of insertion
    reader,
    crowded   \* history: the memory was shared in a way that it does not bear

readingVars == <<latest, there, cursors, reader, crowded>>

\* The id of a message in its chat.
Id(m) == Cardinality({n \in 1..m : Chat[n] = Chat[m]})
Ids == 0..MaxMessages

Contents == {"good", "large", "banned"}
NoWalk == [kind |-> "none", of |-> "none"]

Reader == [pc : {"idle", "asking", "between", "done", "looking", "fetching", "checking"},
           walk : Walks \cup {NoWalk},
           offset : Ids,                  \* offset_id
           at : {0} \cup Messages,        \* where the request of a search continues
           last : {0} \cup Messages,      \* the last message of the page before
           due : SUBSET Messages,         \* not yet read: there since the walk began
           seen : SUBSET Messages,        \* read
           twice : BOOLEAN, lost : BOOLEAN,
           message : {0} \cup Messages,   \* the download
           carried : Contents \cup {"none"}, \* what the message carries
           file : Contents \cup {"none"},    \* what was written of it
           edited : BOOLEAN]
NoReader == [pc |-> "idle", walk |-> NoWalk, offset |-> 0, at |-> 0, last |-> 0,
             due |-> {}, seen |-> {}, twice |-> FALSE, lost |-> FALSE,
             message |-> 0, carried |-> "none", file |-> "none", edited |-> FALSE]

Cursor == [search : Searches, id : Ids, at : Messages]

ReadingTypeOK ==
    /\ latest \in 0..MaxMessages /\ there \subseteq 1..latest
    /\ cursors \in Seq(Cursor) /\ Len(cursors) <= CursorMemory
    /\ reader \in [Readers -> Reader]
    /\ crowded \in BOOLEAN

ReadingInit ==
    /\ latest \in 0..MaxMessages /\ there = 1..latest
    /\ cursors = <<>>
    /\ reader = [r \in Readers |-> NoReader]
    /\ crowded = FALSE

--------------------------------------------------------------------------------
(* Telegram.                                                                 *)

Arrives ==
    /\ latest < MaxMessages
    /\ latest' = latest + 1 /\ there' = there \cup {latest + 1}
    /\ UNCHANGED <<cursors, reader, crowded>>

Deleted(m) ==
    /\ m \in there
    /\ there' = there \ {m}
    /\ reader' = [r \in Readers |-> [reader[r] EXCEPT !.due = @ \ {m}]]
    /\ UNCHANGED <<latest, cursors, crowded>>

\* A message that is being downloaded is edited.
Edited(r, what) ==
    /\ reader[r].pc \in {"looking", "fetching"} /\ reader[r].message \in there
    /\ reader' = [reader EXCEPT ![r] = [@ EXCEPT !.carried = what, !.edited = TRUE]]
    /\ UNCHANGED <<latest, there, cursors, crowded>>

\* The page of the newest or of the oldest of some messages.
NewestOf(s) == {m \in s : Cardinality({n \in s : n > m}) < PageSize}
OldestOf(s) == {m \in s : Cardinality({n \in s : n < m}) < PageSize}

InChat(c) == {m \in there : Chat[m] = c}
\* What get_messages and messages.SearchGlobal answer.
Served(q) ==
    CASE q.walk.kind \in {"back", "since"} ->
            NewestOf({m \in InChat(q.walk.of) : q.offset = 0 \/ Id(m) < q.offset})
      [] q.walk.kind = "forth" -> OldestOf({m \in InChat(q.walk.of) : Id(m) > q.offset})
      [] q.walk.kind = "global" -> NewestOf({m \in there : q.at = 0 \/ m < q.at})

--------------------------------------------------------------------------------
(* The pages of HistoryReader.                                               *)

Walking(r, s) == reader[r].pc \in {"asking", "between"} /\ reader[r].walk = [kind |-> "global", of |-> s]
Goes(r, q) == reader' = [reader EXCEPT ![r] = q]
telegram == <<latest, there>>

\* Mutant: a page that is exactly full is taken for the last.
HasMoreBeyond(rows) == Cardinality(rows) > PageSize
HasMore(rows) == Cardinality(rows) >= PageSize

\* The last row of a search, which shows the newest first.
LastOf(rows) == Min(rows)

\* Mutant: reading forth is keyed off the oldest message of the page as well.
Next_offsetOldest(rows, walk) ==
    IF walk.kind = "global" THEN Id(LastOf(rows)) ELSE Min({Id(m) : m \in rows})
Next_offset(rows, walk) ==
    LET ids == {Id(m) : m \in rows}
    IN CASE walk.kind = "forth" -> Max(ids)
         [] walk.kind \in {"back", "since"} -> Min(ids)
         [] walk.kind = "global" -> Id(LastOf(rows))

\* search_in_chat applies min_date to the page that it has got.
Shown(rows, walk) ==
    {m \in rows : walk.kind # "since" \/ m >= Floor}

\* Mutant: the cursors of all searches are kept together.
KeyOfId(c, s, id) == c.id = id
Key(c, s, id) == c.search = s /\ c.id = id

Find(s, id) == {i \in DOMAIN cursors : Key(cursors[i], s, id)}

\* _remember_cursor: a known key keeps its place, and the first one goes when there
\* are too many.
Remember(s, m) ==
    LET new == [search |-> s, id |-> Id(m), at |-> m]
        known == Find(s, Id(m))
        grown == IF known = {} THEN Append(cursors, new)
                 ELSE [i \in DOMAIN cursors |-> IF i \in known THEN new ELSE cursors[i]]
    IN IF Len(grown) > CursorMemory THEN Tail(grown) ELSE grown

Begin(r, walk) ==
    /\ reader[r].pc = "idle"
    /\ Goes(r, [NoReader EXCEPT
                 !.pc = "between", !.walk = walk,
                 !.due = IF walk.kind = "global" THEN there
                         ELSE Shown(InChat(walk.of), walk)])
    /\ crowded' = (crowded \/ (walk.kind = "global" /\ \E q \in Readers : Walking(q, walk.of)))
    /\ UNCHANGED <<telegram, cursors>>

\* The request of a page.  A search whose cursor is not remembered starts again.
Asks(r) ==
    /\ reader[r].pc = "between"
    /\ LET q == reader[r]
           found == IF q.walk.kind = "global" THEN Find(q.walk.of, q.offset) ELSE {}
           at == IF q.offset = 0 \/ found = {} THEN 0
                 ELSE cursors[CHOOSE i \in found : TRUE].at
           lost == q.lost \/ (q.walk.kind = "global" /\ at # q.last)
       IN Goes(r, [q EXCEPT !.pc = "asking", !.at = at, !.last = 0, !.lost = lost,
                            !.due = IF lost THEN {} ELSE @, !.seen = IF lost THEN {} ELSE @])
    /\ UNCHANGED <<telegram, cursors, crowded>>

Answered(r) ==
    /\ reader[r].pc = "asking"
    /\ LET q == reader[r]
           rows == Served(q)
           more == HasMore(rows)
           searching == q.walk.kind = "global"
       IN /\ Goes(r, [q EXCEPT
                       !.pc = IF more THEN "between" ELSE "done", !.at = 0,
                       !.offset = IF more THEN Next_offset(rows, q.walk) ELSE 0,
                       !.last = IF more /\ searching /\ ~q.lost THEN LastOf(rows) ELSE 0,
                       !.twice = @ \/ Shown(rows, q.walk) \cap q.seen # {},
                       !.due = @ \ Shown(rows, q.walk),
                       !.seen = IF more /\ ~q.lost THEN @ \cup Shown(rows, q.walk) ELSE {}])
          /\ cursors' = IF more /\ searching THEN Remember(q.walk.of, LastOf(rows)) ELSE cursors
          /\ crowded' = (crowded \/ /\ more /\ searching
                                    /\ Len(cursors) = CursorMemory
                                    /\ Find(q.walk.of, Id(LastOf(rows))) = {}
                                    /\ \E p \in Readers \ {r}, s \in Searches : Walking(p, s))
    /\ UNCHANGED telegram

--------------------------------------------------------------------------------
(* MediaManager.download_message_media.                                      *)

Download(r, m, what) ==
    /\ reader[r].pc = "idle" /\ r \in Loading
    /\ Goes(r, [NoReader EXCEPT !.pc = "looking", !.message = m, !.carried = what])
    /\ UNCHANGED <<telegram, cursors, crowded>>

\* What the metadata may say: the size may be missing or too small.
Declared(what) == {what} \cup (IF what = "large" THEN {"good"} ELSE {})
Refuses(r) == Goes(r, [reader[r] EXCEPT !.pc = "done", !.file = "none"])

\* Mutant: the metadata is not looked at.
PassesAny(what) == TRUE
\* check_metadata.
Passes(what) == what = "good"

Looks(r) ==
    /\ reader[r].pc = "looking"
    /\ IF reader[r].message \notin there THEN Refuses(r)
       ELSE \E what \in Declared(reader[r].carried) :
              IF Passes(what) THEN Goes(r, [reader[r] EXCEPT !.pc = "fetching"])
              ELSE Refuses(r)
    /\ UNCHANGED <<telegram, cursors, crowded>>

\* gateway.download_media gets the message again.
Fetches(r) ==
    /\ reader[r].pc = "fetching"
    /\ IF reader[r].message \notin there \/ reader[r].carried = "none" THEN Refuses(r)
       ELSE Goes(r, [reader[r] EXCEPT !.pc = "checking", !.file = reader[r].carried])
    /\ UNCHANGED <<telegram, cursors, crowded>>

\* Mutant: the size of the file is not looked at.
KeepsAny(what) == TRUE
Keeps(what) == what # "large"

\* A file that turned out to be too large is deleted.
Checks(r) ==
    /\ reader[r].pc = "checking"
    /\ IF Keeps(reader[r].file) THEN Goes(r, [reader[r] EXCEPT !.pc = "done"]) ELSE Refuses(r)
    /\ UNCHANGED <<telegram, cursors, crowded>>

\* The caller has what it wants, the call fails, or it is cut off.
Leaves(r) ==
    /\ reader[r].pc # "idle"
    /\ Goes(r, NoReader)
    /\ UNCHANGED <<telegram, cursors, crowded>>

ReadingNext ==
    \/ Arrives
    \/ \E m \in Messages : Deleted(m)
    \/ \E r \in Readers :
          \/ \E walk \in Asked[r] : Begin(r, walk)
          \/ \E m \in Attached, what \in Contents \cup {"none"} : Download(r, m, what)
          \/ \E what \in Contents : Edited(r, what)
          \/ Asks(r) \/ Answered(r) \/ Looks(r) \/ Fetches(r) \/ Checks(r) \/ Leaves(r)

ReadingSpec == ReadingInit /\ [][ReadingNext]_readingVars

--------------------------------------------------------------------------------
(* Properties.                                                               *)

\* A caller that hands every offset back until there are no more has got every
\* message that was there all the time, and none of them twice, whatever arrived or
\* was deleted in between: in a chat always, in a search while its cursor is found.
WalkIsWhole ==
    /\ ReadingTypeOK
    /\ \A r \in Readers : ~reader[r].lost =>
        /\ ~reader[r].twice
        /\ reader[r].pc = "done" => reader[r].due = {}

\* The cursor is found (history.py, "keeps callers that thread a single offset
\* correct") unless two walks of one search are under way together, or the memory
\* was full for two.
QuietSearchHolds == ~crowded => \A r \in Readers : ~reader[r].lost

\* What a download hands to the model is of the size and the kind that is allowed,
\* whatever the metadata said; only the kind of a message that was edited between the
\* two looks is not known.
ReportedIsChecked ==
    \A r \in Readers : reader[r].pc = "done" =>
        /\ reader[r].file # "large"
        /\ reader[r].file = "banned" => reader[r].edited
================================================================================
