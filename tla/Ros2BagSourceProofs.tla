------------------------- MODULE Ros2BagSourceProofs -------------------------
(***************************************************************************)
(* Theorems about the rosbag2 source for every bag, with any number of     *)
(* rows of any kind, every page size, and every pattern of read errors.    *)
(*                                                                         *)
(* last_rowid cuts the rows of the bag in two.  Behind it nothing has been *)
(* touched; before it every good row is delivered or in the buffer, every  *)
(* invalid one was reported, and nothing else is there.  A page moves the  *)
(* cut by one row, and whatever ends the page leaves the cut where it is.  *)
(***************************************************************************)
EXTENDS Ros2BagSource, SequenceTheorems, TLAPS

Opened == state \in {"open", "page"}

(* TypeOK without its Boolean.                                             *)
Types ==
  /\ bag \in Bags
  /\ state \in {"new", "refused", "open", "page"}
  /\ last_rowid \in Nat
  /\ fetched \in 0..FETCH_BATCH
  /\ buffer \in Seq(Nat)
  /\ Len(buffer) <= FETCH_BATCH
  /\ delivered \in Seq(Nat)
  /\ rejected \in Seq(Nat)
  /\ result \in {"none yet", "opened", "event", "none", "MalformedBag", "SourceIo",
                 "SchemaVersionMismatch", "UnsupportedFormat", "InvalidEvent"}

(* new() has chosen a file, and before it nothing was read.                *)
OpenInv ==
  /\ Opened => bag.files # <<>>
  /\ ~Opened => /\ last_rowid = 0
                /\ buffer = <<>> /\ delivered = <<>> /\ rejected = <<>>
                /\ ~exhausted

(* The buffer is what the page has yielded; the end is the end.            *)
PageInv ==
  /\ state = "page" => ~exhausted /\ Len(buffer) = fetched
  /\ exhausted => buffer = <<>> /\ Unread = {}

BoolInv == exhausted \in BOOLEAN

IInv == Types /\ OpenInv /\ PageInv /\ PagesLoseNothing

LEMMA PageSize == FETCH_BATCH \in Nat /\ FETCH_BATCH >= 1
  BY FetchAssumption

-----------------------------------------------------------------------------
(* Sequences in order.                                                     *)

(* A row behind all others goes to the end.                                *)
LEMMA InOrderAppend ==
  ASSUME NEW s \in Seq(Nat), NEW S, InOrder(s, S),
         NEW k \in Nat, \A j \in S : j < k
  PROVE  InOrder(Append(s, k), S \cup {k})
<1>1. Range(Append(s, k)) = S \cup {k}
  BY DEF InOrder, Range
<1>2. ASSUME NEW i \in 1..Len(Append(s, k)), NEW j \in 1..Len(Append(s, k)), i < j
      PROVE  Append(s, k)[i] < Append(s, k)[j]
  <2>1. i \in 1..Len(s) /\ Append(s, k)[i] = s[i] /\ s[i] \in S
    BY <1>2 DEF InOrder, Range
  <2>2. CASE j = Len(s) + 1
    BY <2>1, <2>2
  <2>3. CASE j \in 1..Len(s)
    BY <2>1, <2>3, <1>2 DEF InOrder
  <2> QED  BY <2>2, <2>3
<1> QED  BY <1>1, <1>2 DEF InOrder

LEMMA InOrderEmpty == InOrder(<<>>, {})
  BY DEF InOrder, Range

(* Handing out the head of a buffer changes nothing about the whole.       *)
LEMMA HandOver ==
  ASSUME NEW d \in Seq(Nat), NEW b \in Seq(Nat), b # <<>>
  PROVE  Append(d, Head(b)) \o Tail(b) = d \o b
  OBVIOUS

LEMMA AppendBehind ==
  ASSUME NEW d \in Seq(Nat), NEW b \in Seq(Nat), NEW k \in Nat
  PROVE  d \o Append(b, k) = Append(d \o b, k)
  OBVIOUS

-----------------------------------------------------------------------------
(* The rows of the chosen file.                                            *)
LEMMA MessagesType ==
  ASSUME Types, OpenInv, Opened
  PROVE  /\ Messages \in Seq(Message)
         /\ Visible \subseteq Nat /\ Unread \subseteq Visible
<1>1. bag.files \in Seq(Seq(Message)) /\ bag.files # <<>> /\ bag.input \in 0..Len(bag.files)
  BY BagsAssumption DEF Types, OpenInv
<1>2. Chosen \in 1..Len(bag.files)
  BY <1>1 DEF Chosen
<1> QED  BY <1>1, <1>2 DEF Messages, Visible, Unread

(* The cut moves over one row of kind `kind`.                              *)
LEMMA PassRow ==
  ASSUME Types, OpenInv, Opened, NEW kind \in Message \ {"orphan"},
         NEW k \in NextRow(kind), last_rowid' = k, bag' = bag
  PROVE  /\ k \in Nat
         /\ Passed(kind)' = Passed(kind) \cup {k}
         /\ \A j \in Passed(kind) : j < k
         /\ \A other \in Message \ {kind} : Passed(other)' = Passed(other)
<1>1. k \in Visible /\ k \in Nat /\ Visible \subseteq Nat /\ last_rowid \in Nat /\ k > last_rowid
      /\ Messages[k] = kind /\ \A j \in Unread : k <= j
  BY MessagesType DEF NextRow, Unread, Types
<1>2. Messages' = Messages /\ Visible' = Visible
  BY DEF Messages, Chosen, Visible
<1>3. \A j \in Visible : j <= k <=> j <= last_rowid \/ j = k
  BY <1>1 DEF Unread
<1>4. \A m \in Message : Passed(m)' = {j \in Visible : j <= k /\ Messages[j] = m}
  BY <1>2 DEF Passed
<1>5. Passed(kind)' = Passed(kind) \cup {k}
  <2>1. Passed(kind)' = {j \in Visible : j <= k /\ Messages[j] = kind}
    BY <1>4
  <2> QED  BY <2>1, <1>1, <1>3 DEF Passed
<1>6. ASSUME NEW other \in Message \ {kind}
      PROVE  Passed(other)' = Passed(other)
  <2>1. Passed(other)' = {j \in Visible : j <= k /\ Messages[j] = other}
    BY <1>4
  <2> QED  BY <2>1, <1>1, <1>3 DEF Passed
<1> QED  BY <1>1, <1>5, <1>6 DEF Passed

-----------------------------------------------------------------------------
LEMMA InitInv == Init => IInv
<1> SUFFICES ASSUME Init PROVE IInv
  OBVIOUS
<1>1. Types
  <2>1. last_rowid = 0 /\ fetched = 0 /\ buffer = <<>> /\ delivered = <<>> /\ rejected = <<>>
        /\ bag \in Bags /\ state = "new" /\ result = "none yet"
    BY DEF Init
  <2>2. 0 \in 0..FETCH_BATCH
    BY FetchAssumption
  <2>3. <<>> \in Seq(Nat) /\ Len(<<>>) <= FETCH_BATCH
    BY FetchAssumption, EmptySeq
  <2>4. 0 \in Nat
    OBVIOUS
  <2> QED  BY <2>1, <2>2, <2>3, <2>4 DEF Types
<1>2. OpenInv /\ PageInv /\ PagesLoseNothing
  BY DEF Init, OpenInv, PageInv, PagesLoseNothing, Opened
<1> QED  BY <1>1, <1>2 DEF IInv

(* new(): nothing is behind the cut yet.                                   *)
LEMMA OpenBagInv == IInv /\ OpenBag => IInv'
<1> SUFFICES ASSUME IInv, OpenBag PROVE IInv'
  OBVIOUS
<1> USE DEF IInv
<1>1. Types'
  <2>1. OpenOutcome(bag) \in {"opened", "SourceIo", "MalformedBag", "SchemaVersionMismatch",
                              "UnsupportedFormat"}
    <3>1. bag.metadata \in Metadata
      BY BagsAssumption DEF Types
    <3> QED  BY <3>1 DEF OpenOutcome, Metadata
  <2>2. /\ UNCHANGED <<bag, last_rowid, fetched, buffer, delivered, rejected>>
        /\ state' \in {"open", "refused"}
        /\ result' \in {OpenOutcome(bag), "InvalidEvent", "SourceIo", "MalformedBag"}
    BY DEF OpenBag, history
  <2> QED  BY <2>1, <2>2 DEF Types
<1>2. OpenInv'
  <2>1. state = "new" /\ bag' = bag /\ (bag.files = <<>> => OpenOutcome(bag) = "MalformedBag")
    BY DEF OpenBag, OpenOutcome
  <2>2. state' = "open" => bag.files # <<>>
    BY <2>1 DEF OpenBag
  <2>3. state' \in {"open", "refused"}
    BY DEF OpenBag
  <2>4. UNCHANGED <<last_rowid, buffer, delivered, rejected, exhausted>>
    BY DEF OpenBag, history
  <2> QED  BY <2>1, <2>2, <2>3, <2>4 DEF OpenInv, Opened
<1>3. last_rowid = 0 /\ buffer = <<>> /\ delivered = <<>> /\ rejected = <<>> /\ ~exhausted
  BY DEF OpenBag, OpenInv, Opened
<1>4. PageInv'
  BY <1>3 DEF OpenBag, PageInv
<1>5. PagesLoseNothing'
  <2> SUFFICES ASSUME Opened' PROVE /\ InOrder(delivered \o buffer, Passed("good"))'
                                     /\ InOrder(rejected, Passed("invalid"))'
                                     /\ Passed("mistyped")' = {}
    BY DEF PagesLoseNothing, Opened
  <2>1. (Visible \subseteq 1..Len(Messages))' /\ last_rowid' = 0
    BY <1>3 DEF Visible, OpenBag
  <2>2. \A kind \in Message : Passed(kind)' = {}
    <3>1. \A k \in 1..Len(Messages') : ~(k <= 0)
      OBVIOUS
    <3> QED  BY <2>1, <3>1 DEF Passed
  <2>3. delivered' = <<>> /\ buffer' = <<>> /\ rejected' = <<>>
    BY <1>3 DEF OpenBag, history
  <2>4. (delivered \o buffer)' = <<>>
    BY <2>3
  <2> QED  BY <2>2, <2>3, <2>4, InOrderEmpty DEF Message
<1> QED  BY <1>1, <1>2, <1>4, <1>5

(* A call that does not look at the database.                              *)
LEMMA PopInv == IInv /\ (PopEvent \/ PopNone) => IInv'
<1> SUFFICES ASSUME IInv, PopEvent \/ PopNone PROVE IInv'
  OBVIOUS
<1> USE DEF IInv
<1>1. CASE PopEvent
  <2>1. Types'
    <3>1. Head(buffer) \in Nat /\ Tail(buffer) \in Seq(Nat) /\ Len(Tail(buffer)) = Len(buffer) - 1
          /\ Append(delivered, Head(buffer)) \in Seq(Nat)
      BY <1>1, HeadTailProperties, AppendProperties DEF PopEvent, Types
    <3>2. /\ UNCHANGED <<bag, state, last_rowid, fetched, rejected>>
          /\ buffer' = Tail(buffer) /\ delivered' = Append(delivered, Head(buffer))
          /\ result' = "event"
      BY <1>1 DEF PopEvent
    <3>3. Len(buffer') <= FETCH_BATCH
      <4>1. buffer \in Seq(Nat) /\ Len(buffer) <= FETCH_BATCH
        BY DEF Types
      <4> QED  BY <3>1, <3>2, <4>1, PageSize, LenProperties
    <3> QED  BY <3>1, <3>2, <3>3 DEF Types
  <2>2. OpenInv' /\ PageInv'
    BY <1>1 DEF PopEvent, OpenInv, PageInv, Opened
  <2>3. (delivered \o buffer)' = delivered \o buffer
    BY <1>1, HandOver DEF PopEvent, Types
  <2>4. PagesLoseNothing'
    BY <1>1, <2>3 DEF PopEvent, PagesLoseNothing, Passed, Visible, Messages, Chosen
  <2> QED  BY <2>1, <2>2, <2>4
<1>2. CASE PopNone
  BY <1>2 DEF PopNone, Types, OpenInv, PageInv, Opened, PagesLoseNothing, Passed, Visible,
              Unread, Messages, Chosen, history
<1> QED  BY <1>1, <1>2

LEMMA StartPageInv == IInv /\ StartPage => IInv'
<1> SUFFICES ASSUME IInv, StartPage PROVE IInv'
  OBVIOUS
<1> USE DEF IInv, StartPage, history
<1>1. Types'
  <2>1. UNCHANGED <<bag, last_rowid, buffer, delivered, rejected, result>> /\ state' = "page"
        /\ fetched' = 0
    OBVIOUS
  <2>2. 0 \in 0..FETCH_BATCH
    BY PageSize
  <2> QED  BY <2>1, <2>2 DEF Types
<1>2. OpenInv' /\ PageInv'
  BY DEF OpenInv, PageInv, Opened
<1>3. PagesLoseNothing'
  BY DEF PagesLoseNothing, Passed, Visible, Messages, Chosen
<1> QED  BY <1>1, <1>2, <1>3

(* A good row moves the cut and goes to the end of the buffer.             *)
LEMMA BufferRowInv == IInv /\ BufferRow => IInv'
<1> SUFFICES ASSUME IInv, BufferRow PROVE IInv'
  OBVIOUS
<1> USE DEF IInv
<1>1. state = "page" /\ Opened /\ ~exhausted /\ Len(buffer) = fetched /\ fetched < FETCH_BATCH
  BY DEF BufferRow, InPage, WithinLimit, PageInv, Opened
<1>2. PICK k \in NextRow("good") : last_rowid' = k /\ buffer' = Append(buffer, k)
  BY DEF BufferRow
<1>3. bag' = bag /\ state' = state /\ exhausted' = exhausted /\ fetched' = fetched + 1
      /\ delivered' = delivered /\ rejected' = rejected /\ result' = result
  BY DEF BufferRow, history
<1>4. /\ k \in Nat
      /\ Passed("good")' = Passed("good") \cup {k} /\ \A j \in Passed("good") : j < k
      /\ Passed("invalid")' = Passed("invalid") /\ Passed("mistyped")' = Passed("mistyped")
  BY <1>1, <1>2, <1>3, PassRow DEF Message
<1>5. buffer' \in Seq(Nat) /\ Len(buffer') = Len(buffer) + 1 /\ buffer' # <<>>
  <2>1. buffer \in Seq(Nat)
    BY DEF Types
  <2> QED  BY <1>2, <1>4, <2>1, AppendProperties
<1>6. Types'
  <2>1. UNCHANGED <<bag, state, delivered, rejected, result>> /\ fetched' = fetched + 1
        /\ last_rowid' = k
    BY <1>2, <1>3
  <2>2. fetched \in Nat /\ fetched' = fetched + 1 /\ fetched < FETCH_BATCH
    <3>1. fetched \in 0..FETCH_BATCH
      BY DEF Types
    <3> QED  BY <1>1, <2>1, <3>1, PageSize
  <2>3. fetched' \in 0..FETCH_BATCH /\ Len(buffer') <= FETCH_BATCH
    BY <1>1, <1>5, <2>2, PageSize
  <2> QED  BY <1>4, <1>5, <2>1, <2>3 DEF Types
<1>7. OpenInv' /\ PageInv'
  BY <1>1, <1>3, <1>5 DEF OpenInv, PageInv, Opened
<1>8. PagesLoseNothing'
  <2>1. (delivered \o buffer)' = Append(delivered \o buffer, k) /\ delivered \o buffer \in Seq(Nat)
    BY <1>2, <1>3, <1>4, AppendBehind, ConcatProperties DEF Types
  <2>2. InOrder(Append(delivered \o buffer, k), Passed("good") \cup {k})
    BY <1>1, <1>4, <2>1, InOrderAppend DEF PagesLoseNothing, Opened
  <2> QED  BY <1>1, <1>3, <1>4, <2>1, <2>2 DEF PagesLoseNothing, Opened, InOrder
<1> QED  BY <1>6, <1>7, <1>8

(* An invalid row moves the cut and is reported.                           *)
LEMMA RejectRowInv == IInv /\ RejectRow => IInv'
<1> SUFFICES ASSUME IInv, RejectRow PROVE IInv'
  OBVIOUS
<1> USE DEF IInv
<1>1. state = "page" /\ Opened /\ ~exhausted
  BY DEF RejectRow, InPage, PageInv, Opened
<1>2. PICK k \in NextRow("invalid") : last_rowid' = k /\ rejected' = Append(rejected, k)
  BY DEF RejectRow
<1>3. bag' = bag /\ state' = "open" /\ buffer' = buffer /\ exhausted' = exhausted
      /\ fetched' = fetched /\ delivered' = delivered /\ result' = "InvalidEvent"
  BY DEF RejectRow, FailPage, BufferAfterError, ExhaustedAfterError
<1>4. /\ k \in Nat
      /\ Passed("invalid")' = Passed("invalid") \cup {k} /\ \A j \in Passed("invalid") : j < k
      /\ Passed("good")' = Passed("good") /\ Passed("mistyped")' = Passed("mistyped")
  BY <1>1, <1>2, <1>3, PassRow DEF Message
<1>5. Types'
  <2>1. UNCHANGED <<bag, buffer, fetched, delivered>> /\ state' = "open"
        /\ result' = "InvalidEvent" /\ last_rowid' = k /\ rejected' = Append(rejected, k)
    BY <1>2, <1>3
  <2> QED  BY <1>4, <2>1, AppendProperties DEF Types
<1>6. OpenInv' /\ PageInv'
  BY <1>1, <1>3 DEF OpenInv, PageInv, Opened
<1>7. PagesLoseNothing'
  <2>1. InOrder(Append(rejected, k), Passed("invalid") \cup {k})
    BY <1>1, <1>4, InOrderAppend DEF PagesLoseNothing, Opened, Types
  <2> QED  BY <1>1, <1>2, <1>3, <1>4, <2>1 DEF PagesLoseNothing, Opened, InOrder
<1> QED  BY <1>5, <1>6, <1>7

(* A page that ends in an error moves nothing.                             *)
LEMMA ErrorInv == IInv /\ (MistypedRow \/ ReadError) => IInv'
<1> SUFFICES ASSUME IInv, MistypedRow \/ ReadError PROVE IInv'
  OBVIOUS
<1> USE DEF IInv
<1>1. state = "page" /\ ~exhausted /\ state' = "open" /\ buffer' = buffer /\ exhausted' = exhausted
      /\ bag' = bag /\ fetched' = fetched /\ delivered' = delivered /\ rejected' = rejected
      /\ last_rowid' = last_rowid /\ result' = "MalformedBag"
  BY DEF MistypedRow, ReadError, InPage, FailPage, BufferAfterError, ExhaustedAfterError, PageInv
<1>2. Types'
  BY <1>1 DEF Types
<1>3. OpenInv' /\ PageInv'
  BY <1>1 DEF OpenInv, PageInv, Opened
<1>4. PagesLoseNothing'
  BY <1>1 DEF PagesLoseNothing, Passed, Visible, Messages, Chosen
<1> QED  BY <1>2, <1>3, <1>4

(* A page that ends well is empty only if there is nothing to read.        *)
LEMMA EndPageInv == IInv /\ EndPage => IInv'
<1> SUFFICES ASSUME IInv, EndPage PROVE IInv'
  OBVIOUS
<1> USE DEF IInv
<1>1. state = "page" /\ Opened /\ ~exhausted /\ Len(buffer) = fetched /\ state' = "open"
      /\ bag' = bag /\ last_rowid' = last_rowid /\ fetched' = fetched /\ rejected' = rejected
  BY DEF EndPage, PageInv, Opened
<1>2. Unread' = Unread /\ \A kind \in Message : Passed(kind)' = Passed(kind)
  BY <1>1 DEF Unread, Passed, Visible, Messages, Chosen
<1>3. CASE buffer = <<>>
  <2>1. exhausted' = TRUE /\ result' = "none" /\ buffer' = buffer /\ delivered' = delivered
    BY <1>3 DEF EndPage
  <2>2. Unread = {}
    BY <1>1, <1>3, FetchAssumption DEF EndPage, WithinLimit
  <2>3. Types'
    BY <1>1, <2>1 DEF Types
  <2>4. OpenInv' /\ PageInv'
    BY <1>1, <1>2, <1>3, <2>1, <2>2 DEF OpenInv, PageInv, Opened
  <2>5. PagesLoseNothing'
    BY <1>1, <1>2, <2>1 DEF PagesLoseNothing, Message, InOrder
  <2> QED  BY <2>3, <2>4, <2>5
<1>4. CASE buffer # <<>>
  <2>1. exhausted' = exhausted /\ result' = "event" /\ buffer' = Tail(buffer)
        /\ delivered' = Append(delivered, Head(buffer))
    BY <1>4 DEF EndPage
  <2>2. Types'
    <3>1. Head(buffer) \in Nat /\ Tail(buffer) \in Seq(Nat) /\ Len(Tail(buffer)) = Len(buffer) - 1
          /\ Append(delivered, Head(buffer)) \in Seq(Nat)
      BY <1>4, HeadTailProperties, AppendProperties DEF Types
    <3>2. /\ UNCHANGED <<bag, last_rowid, fetched, rejected>> /\ state' = "open"
          /\ buffer' = Tail(buffer) /\ delivered' = Append(delivered, Head(buffer))
          /\ result' = "event"
      BY <1>1, <2>1
    <3>3. Len(buffer') <= FETCH_BATCH
      <4>1. buffer \in Seq(Nat) /\ Len(buffer) <= FETCH_BATCH
        BY DEF Types
      <4> QED  BY <3>1, <3>2, <4>1, PageSize, LenProperties
    <3> QED  BY <3>1, <3>2, <3>3 DEF Types
  <2>3. OpenInv' /\ PageInv'
    BY <1>1, <2>1 DEF OpenInv, PageInv, Opened
  <2>4. (delivered \o buffer)' = delivered \o buffer
    BY <1>4, <2>1, HandOver DEF Types
  <2>5. PagesLoseNothing'
    BY <1>1, <1>2, <2>4 DEF PagesLoseNothing, Message, InOrder
  <2> QED  BY <2>2, <2>3, <2>5
<1> QED  BY <1>3, <1>4

LEMMA StepInv == IInv /\ [Next]_vars => IInv'
<1> SUFFICES ASSUME IInv, [Next]_vars PROVE IInv'
  OBVIOUS
<1>1. CASE UNCHANGED vars
  BY <1>1 DEF vars, history, IInv, Types, OpenInv, PageInv, Opened, PagesLoseNothing, Passed,
              Visible, Unread, Messages, Chosen
<1>2. CASE Next
  BY <1>1, <1>2, OpenBagInv, PopInv, StartPageInv, BufferRowInv, RejectRowInv, ErrorInv, EndPageInv
     DEF Next, NextEvent, RowStep, Refused
<1> QED  BY <1>1, <1>2

THEOREM Invariance == Spec => []IInv
  BY InitInv, StepInv, PTL DEF Spec

(* Every variable keeps its type, and the buffer is never longer than a    *)
(* page.                                                                   *)
THEOREM TypeCorrect == Spec => []TypeOK
<1>1. Init => BoolInv
  BY DEF Init, BoolInv
<1>2. BoolInv /\ [Next]_vars => BoolInv'
  BY DEF BoolInv, Next, NextEvent, RowStep, Refused, OpenBag, PopEvent, PopNone, StartPage, BufferRow,
         RejectRow, MistypedRow, ReadError, FailPage, ExhaustedAfterError, EndPage, vars
<1>3. IInv /\ BoolInv => TypeOK
  BY DEF BoolInv, IInv, Types, TypeOK
<1> QED  BY <1>1, <1>2, <1>3, Invariance, PTL DEF Spec

(* Whatever fails and however the caller goes on, no page loses, repeats   *)
(* or reorders a row.                                                      *)
THEOREM NothingLost == Spec => []PagesLoseNothing
<1>1. IInv => PagesLoseNothing
  BY DEF IInv
<1> QED  BY <1>1, Invariance, PTL

(* None is only returned for good once every row the query can see was     *)
(* handed out or reported.                                                 *)
THEOREM NoneIsComplete == Spec => []NoneMeansAllRows
<1>1. IInv => NoneMeansAllRows
  <2> SUFFICES ASSUME IInv, exhausted PROVE Range(delivered) \cup Range(rejected) = Visible
    BY DEF NoneMeansAllRows
  <2> USE DEF IInv
  <2>1. Opened /\ buffer = <<>> /\ Unread = {}
    BY DEF OpenInv, PageInv
  <2>2. delivered \o buffer = delivered
    BY <2>1, ConcatEmptySeq DEF Types
  <2>3. Range(delivered) = Passed("good") /\ Range(rejected) = Passed("invalid")
        /\ Passed("mistyped") = {}
    BY <2>1, <2>2 DEF PagesLoseNothing, Opened, InOrder
  <2>4. \A k \in Visible : k <= last_rowid
    <3>1. Visible \subseteq Nat /\ last_rowid \in Nat
      BY <2>1, MessagesType DEF Types
    <3> QED  BY <2>1, <3>1 DEF Unread
  <2>5. \A k \in Visible : Messages[k] \in {"good", "invalid", "mistyped"}
    BY <2>1, MessagesType DEF Visible, Message
  <2> QED  BY <2>3, <2>4, <2>5 DEF Passed
<1> QED  BY <1>1, Invariance, PTL
=============================================================================
