---------------------------- MODULE Ros2BagSource ----------------------------
(***************************************************************************)
(* The rosbag2 source (crates/roxt-ingest/src/ros2bag.rs): it opens a bag, *)
(* pages through the messages of one .db3 file by row id and hands them    *)
(* out one by one.  The caller may stop or poll on after an error; a read  *)
(* may fail at any row of any page.                                        *)
(*                                                                         *)
(* A message is kept to what refill decides on: whether its topic is in    *)
(* the topics table (the JOIN), whether its columns have the types asked   *)
(* for, and whether the event is valid.  Its row id is its position: a row *)
(* the JOIN does not return is a gap in the ids.                           *)
(***************************************************************************)
EXTENDS Naturals, Sequences, Functions

CONSTANTS
  FETCH_BATCH,  \* rows per page (256 in the code)
  Bags          \* the bags the source may be opened on

(* "orphan": no such topic; "mistyped": a column of another type;          *)
(* "invalid": an empty topic.                                              *)
Message == {"good", "orphan", "mistyped", "invalid"}
Metadata == {"ok", "missing", "malformed", "future", "other_storage"}

ASSUME FetchAssumption == FETCH_BATCH \in Nat \ {0}
ASSUME BagsAssumption ==
  \A b \in Bags :
    /\ b.metadata \in Metadata
    /\ b.files \in Seq(Seq(Message))
    /\ b.input \in 0..Len(b.files)

VARIABLES
  bag,         \* metadata.yaml, the .db3 files by name, and the input path:
               \* the directory (0) or one of the files
  state,       \* "new", "refused" by new(), "open", or in a "page" of refill
  last_rowid,  \* the row id the last page got to
  fetched,     \* how many rows the page has yielded
  buffer,      \* the row ids fetched and not yet handed out
  exhausted,   \* a page came back empty
  delivered,   \* history: the row ids next_event returned
  rejected,    \* history: the row ids reported in InvalidEvent
  result       \* what the last call returned

history == <<delivered, rejected>>
vars == <<bag, state, last_rowid, fetched, buffer, exhausted, history, result>>

(***************************************************************************)
(* new(): locate_bag_files, check_metadata, open.                          *)
(***************************************************************************)

(* Of a directory, the first .db3 file by name.                            *)
Chosen == IF bag.input = 0 THEN 1 ELSE bag.input
Messages == bag.files[Chosen]

(* The first check that fails, in the order of the code.                   *)
OpenOutcome(b) ==
  IF b.files = <<>> THEN "MalformedBag"
  ELSE CASE b.metadata = "ok" -> "opened"
         [] b.metadata = "missing" -> "SourceIo"
         [] b.metadata = "malformed" -> "MalformedBag"
         [] b.metadata = "future" -> "SchemaVersionMismatch"
         [] b.metadata = "other_storage" -> "UnsupportedFormat"

(* The checks decide, unless an id is empty, or the directory, the         *)
(* metadata or the database cannot be read at all.                         *)
OpenBag ==
  /\ state = "new"
  /\ result' \in {OpenOutcome(bag), "InvalidEvent", "SourceIo", "MalformedBag"}
  /\ state' = IF result' = "opened" THEN "open" ELSE "refused"
  /\ UNCHANGED <<bag, last_rowid, fetched, buffer, exhausted, history>>

(***************************************************************************)
(* next_event() without refill.                                            *)
(***************************************************************************)

(* A buffered event is handed out without looking at the database.         *)
PopEvent ==
  /\ state = "open"
  /\ buffer # <<>>
  /\ delivered' = Append(delivered, Head(buffer))
  /\ buffer' = Tail(buffer)
  /\ result' = "event"
  /\ UNCHANGED <<bag, state, last_rowid, fetched, exhausted, rejected>>

(* After the end: None for good.                                           *)
PopNone ==
  /\ state = "open"
  /\ buffer = <<>>
  /\ exhausted
  /\ result' = "none"
  /\ UNCHANGED <<bag, state, last_rowid, fetched, buffer, exhausted, history>>

(***************************************************************************)
(* refill(): one page, row by row.                                         *)
(* SELECT ... JOIN ... WHERE id > last_rowid ORDER BY id LIMIT FETCH_BATCH *)
(***************************************************************************)

Visible == {k \in 1..Len(Messages) : Messages[k] # "orphan"}

Unread == {k \in Visible : k > last_rowid}

(* Variant: LIMIT lets one row more through.                               *)
WithinLimitPlusOne == fetched <= FETCH_BATCH
WithinLimit == fetched < FETCH_BATCH

InPage == state = "page" /\ WithinLimit

(* The row the statement steps onto, if it is of this kind.                *)
NextRow(kind) == {k \in Unread : Messages[k] = kind /\ \A j \in Unread : k <= j}

StartPage ==
  /\ state = "open"
  /\ buffer = <<>>
  /\ ~exhausted
  /\ state' = "page"
  /\ fetched' = 0
  /\ UNCHANGED <<bag, last_rowid, buffer, exhausted, history, result>>

(* A row that makes an event.                                              *)
BufferRow ==
  /\ InPage
  /\ \E k \in NextRow("good") :
       /\ last_rowid' = k
       /\ buffer' = Append(buffer, k)
  /\ fetched' = fetched + 1
  /\ UNCHANGED <<bag, state, exhausted, history, result>>

(* What a page leaves behind when it ends in an error: the rows before the *)
(* error stay in the buffer, and the bag is not taken for read.  Variants. *)
BufferAfterErrorCleared == <<>>
BufferAfterError == buffer
ExhaustedAfterErrorIfEmpty == buffer = <<>>
ExhaustedAfterError == exhausted

FailPage(error) ==
  /\ state' = "open"
  /\ buffer' = BufferAfterError
  /\ exhausted' = ExhaustedAfterError
  /\ result' = error
  /\ UNCHANGED <<bag, fetched, delivered>>

(* last_rowid moves onto a row before its event is validated.              *)
RejectRow ==
  /\ InPage
  /\ \E k \in NextRow("invalid") :
       /\ last_rowid' = k
       /\ rejected' = Append(rejected, k)
  /\ FailPage("InvalidEvent")

(* A column of another type: last_rowid is still before the row.           *)
MistypedRow ==
  /\ InPage
  /\ NextRow("mistyped") # {}
  /\ FailPage("MalformedBag")
  /\ UNCHANGED <<last_rowid, rejected>>

(* Variant of ReadError: the page is given up, to be fetched again.        *)
ReadErrorRestarts ==
  /\ state = "page"
  /\ state' = "open"
  /\ buffer' = <<>>
  /\ last_rowid' \in 0..last_rowid
  /\ \A k \in Visible : k <= last_rowid' <=> k \in Range(delivered \o rejected)
  /\ result' = "MalformedBag"
  /\ UNCHANGED <<bag, fetched, exhausted, history>>

(* SQLite cannot prepare the statement or cannot step to the next row.     *)
ReadError ==
  /\ state = "page"
  /\ FailPage("MalformedBag")
  /\ UNCHANGED <<last_rowid, rejected>>

(* No more rows: next_event goes on with the first event of the page, or   *)
(* with None if the page was empty.                                        *)
EndPage ==
  /\ state = "page"
  /\ ~WithinLimit \/ Unread = {}
  /\ state' = "open"
  /\ \/ /\ buffer = <<>>
        /\ exhausted' = TRUE
        /\ result' = "none"
        /\ UNCHANGED <<buffer, delivered>>
     \/ /\ buffer # <<>>
        /\ delivered' = Append(delivered, Head(buffer))
        /\ buffer' = Tail(buffer)
        /\ result' = "event"
        /\ UNCHANGED exhausted
  /\ UNCHANGED <<bag, last_rowid, fetched, rejected>>

Init ==
  /\ bag \in Bags
  /\ state = "new"
  /\ last_rowid = 0
  /\ fetched = 0
  /\ buffer = <<>>
  /\ exhausted = FALSE
  /\ delivered = <<>>
  /\ rejected = <<>>
  /\ result = "none yet"

(* The database answers.                                                   *)
RowStep == BufferRow \/ RejectRow \/ EndPage

NextEvent ==
  \/ PopEvent
  \/ PopNone
  \/ StartPage
  \/ RowStep
  \/ MistypedRow
  \/ ReadError

(* Nothing more happens to a bag that was refused.                         *)
Refused == state = "refused" /\ UNCHANGED vars

Next == OpenBag \/ NextEvent \/ Refused

Spec == Init /\ [][Next]_vars

(* A caller that skips errors polls until it gets None, and a row that is  *)
(* read again and again is read in the end: the disk does not fail at the  *)
(* same place for ever.                                                    *)
PollingSpec == Spec /\ WF_vars(OpenBag) /\ WF_vars(NextEvent) /\ SF_vars(RowStep)

(***************************************************************************)
(* Properties.                                                             *)
(***************************************************************************)

TypeOK ==
  /\ bag \in Bags
  /\ state \in {"new", "refused", "open", "page"}
  /\ last_rowid \in Nat
  /\ fetched \in 0..FETCH_BATCH
  /\ buffer \in Seq(Nat)
  /\ Len(buffer) <= FETCH_BATCH
  /\ exhausted \in BOOLEAN
  /\ delivered \in Seq(Nat)
  /\ rejected \in Seq(Nat)
  /\ result \in {"none yet", "opened", "event", "none", "MalformedBag", "SourceIo",
                 "SchemaVersionMismatch", "UnsupportedFormat", "InvalidEvent"}

(* s holds exactly the ids in S, each one once, in increasing order.       *)
InOrder(s, S) ==
  /\ Range(s) = S
  /\ \A i, j \in 1..Len(s) : i < j => s[i] < s[j]

(* The visible rows of one kind that the pages have passed.                *)
Passed(kind) == {k \in Visible : k <= last_rowid /\ Messages[k] = kind}

(* Every good row that a page has passed was handed out once, in row order,*)
(* or waits in the buffer; every invalid row it has passed was reported    *)
(* once; and no page ever passes a row that could not be read.  This holds *)
(* although a failed page keeps what it had read and the next one starts   *)
(* behind it.                                                              *)
PagesLoseNothing ==
  state \in {"open", "page"} =>
    /\ InOrder(delivered \o buffer, Passed("good"))
    /\ InOrder(rejected, Passed("invalid"))
    /\ Passed("mistyped") = {}

(* None means that every row the query can see was handed out or reported, *)
(* also when the caller went on after errors.                              *)
NoneMeansAllRows ==
  exhausted => Range(delivered) \cup Range(rejected) = Visible

(* A caller that skips errors reaches the end of a bag whose columns all   *)
(* have their types: a page that failed is not fetched from its start, and *)
(* an invalid row is not fetched again.                                    *)
SkippingGetsThrough ==
  (state = "open" /\ \A k \in 1..Len(Messages) : Messages[k] # "mistyped")
    ~> exhausted

(* "Errors are not necessarily fatal to the stream - callers decide        *)
(* whether to skip or abort" (crates/roxt-core/src/source.rs:24): a caller *)
(* that polls on after errors reaches the end of every bag.  The code      *)
(* fetches a mistyped row again with every page.                           *)
SkippingAlwaysEnds == state = "open" ~> exhausted

(* "Events are never silently dropped" (README.md:44): if no call returned *)
(* an error, None means that every message of the bag was handed out.      *)
(* Only the first .db3 file of a directory is ever read, and the inner     *)
(* JOIN passes over a message whose topic is not in the topics table.      *)
NothingDroppedSilently ==
  exhausted /\ rejected = <<>> =>
    \A f \in 1..Len(bag.files) : \A k \in 1..Len(bag.files[f]) :
      f = Chosen /\ k \in Range(delivered)
=============================================================================
