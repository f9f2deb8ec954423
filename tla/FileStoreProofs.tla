--------------------------- MODULE FileStoreProofs ---------------------------
(***************************************************************************)
(* What holds of FileStore for any number of requests, objects and bytes:  *)
(* its types, that a row always names a whole object, and that a download  *)
(* sends exactly the range it was asked for.                               *)
(***************************************************************************)
EXTENDS FileStore, FiniteSetTheorems, TLAPS

-----------------------------------------------------------------------------
(* The values that pass through a handler, by the statement it is about to *)
(* send, ...                                                               *)
LEMMA HandlerStates ==
  /\ Idle \in HandlerState
  /\ \A k \in Kind, o \in Object : [next |-> "row", kind |-> k, object |-> o] \in HandlerState
  /\ \A r \in Row : [next |-> "pipe", row |-> r] \in HandlerState
  /\ \A f \in Nat : [next |-> "attach", file |-> f] \in HandlerState
  /\ \A t \in SUBSET Row : [next |-> "convert", todo |-> t] \in HandlerState
  /\ \A t \in SUBSET Row, o \in Object :
       [next |-> "update", todo |-> t, object |-> o] \in HandlerState
BY DEF HandlerState, Idle

(* ... and what such a value holds.                                        *)
LEMMA HandlerFields ==
  ASSUME NEW q \in HandlerState
  PROVE  /\ q.next = "row" => q.kind \in Kind /\ q.object \in Object
         /\ q.next = "pipe" => q.row \in Row
         /\ q.next = "attach" => q.file \in Nat
         /\ q.next \in {"convert", "update"} => q.todo \subseteq Row
         /\ q.next = "update" => q.object \in Object
BY DEF HandlerState, Idle

(* An object written under a new key stands beside those already there.    *)
ObjectsNumbered ==
  /\ \A o \in objects : o.key <= keySeq
  /\ \A o, p \in objects : o.key = p.key => o = p

(* A write adds one object under a key no object has, and keeps the        *)
(* numbering.                                                              *)
LEMMA WriteAdds ==
  ASSUME objects \subseteq Object, keySeq \in Nat, ObjectsNumbered,
         NEW object \in Object, object.key = NewKey, Write(object)
  PROVE  /\ keySeq' \in Nat /\ objects' = objects \cup {object} /\ objects' \subseteq Object
         /\ ObjectsNumbered'
<1>1. keySeq' = keySeq + 1 /\ object.key = keySeq + 1
  BY DEF Write, NewKey
<1>2. \A o \in objects : o.key \in Nat /\ o.key <= keySeq /\ o.key # object.key
  BY <1>1 DEF ObjectsNumbered, Object
<1>3. objects' = objects \cup {object}
  BY <1>2 DEF Write
<1> QED BY <1>1, <1>2, <1>3 DEF ObjectsNumbered

(* The row of a conversion: same row, other object.                        *)
LEMMA UpdatedRow ==
  ASSUME NEW r \in Row, NEW o \in Object
  PROVE  /\ Updated(r, o) \in Row
         /\ Updated(r, o).id = r.id /\ Updated(r, o).kind = r.kind
         /\ Updated(r, o).key = o.key /\ Updated(r, o).mime = o.mime
         /\ Updated(r, o).size = o.size
BY DEF Updated, Row, Object

-----------------------------------------------------------------------------
(* Whatever a request holds is backed: the object it has written is still  *)
(* there, the row it has read names an object of that type and size, and   *)
(* the file it attaches is a row of the chat.                              *)
Backed(r) == \E o \in objects : o.key = r.key /\ o.mime = r.mime /\ o.size = r.size
ChatFile(f) == \E r \in rows : r.id = f /\ r.kind = "chat"

InFlightBacked ==
  \A h \in Handler :
    /\ req[h].next \in {"row", "update"} => req[h].object \in objects
    /\ req[h].next = "pipe" => Backed(req[h].row)
    /\ req[h].next = "attach" => ChatFile(req[h].file)

StoredBacked ==
  /\ \A r \in rows : Backed(r)
  /\ \A f \in messages : ChatFile(f)

FilesInv == TypeOK /\ ObjectsNumbered /\ InFlightBacked /\ StoredBacked

(* Objects and rows only add to each other, so that what a request holds   *)
(* stays backed while others work.                                         *)
Grows ==
  /\ objects \subseteq objects'
  /\ \A r \in rows : \E s \in rows' : s.id = r.id /\ s.kind = r.kind

(* A row that is backed stays so as long as the store only grows, and so   *)
(* does the attachment of a message.                                       *)
LEMMA BackingLasts ==
  ASSUME Grows
  PROVE  /\ \A r : Backed(r) => Backed(r)'
         /\ \A f : ChatFile(f) => ChatFile(f)'
BY DEF Grows, Backed, ChatFile

(* A step that starts or ends a request and leaves the store alone.        *)
LEMMA RequestStep ==
  ASSUME FilesInv, UNCHANGED <<objects, rows, keySeq>>, NEW h \in Handler, NEW s \in HandlerState,
         Become(h, s), messages' \subseteq Nat, \A f \in messages' : ChatFile(f),
         s.next \in {"row", "update"} => s.object \in objects,
         s.next = "pipe" => Backed(s.row),
         s.next = "attach" => ChatFile(s.file)
  PROVE  FilesInv'
<1>1. Grows
  BY DEF Grows
<1>2. TypeOK'
  BY DEF FilesInv, TypeOK, Become
<1>3. ObjectsNumbered'
  BY DEF FilesInv, ObjectsNumbered
<1>4. StoredBacked'
  BY DEF FilesInv, StoredBacked, Backed, ChatFile
<1>5. req'[h] = s /\ \A x \in Handler \ {h} : req'[x] = req[x]
  BY DEF FilesInv, TypeOK, Become
<1>6. InFlightBacked'
  BY <1>5 DEF FilesInv, InFlightBacked, Backed, ChatFile
<1> QED BY <1>2, <1>3, <1>4, <1>6 DEF FilesInv

(* A step that writes an object, and whose request goes on to use it.      *)
LEMMA ObjectStep ==
  ASSUME FilesInv, NEW object \in Object, object.key = NewKey, Write(object),
         UNCHANGED <<rows, messages>>, req' \in [Handler -> HandlerState],
         \A h \in Handler : req'[h] = req[h]
           \/ (req'[h].next \in {"row", "update"} /\ req'[h].object = object)
  PROVE  FilesInv'
<1>1. /\ keySeq' \in Nat /\ objects' = objects \cup {object} /\ objects' \subseteq Object
      /\ ObjectsNumbered'
  BY WriteAdds DEF FilesInv, TypeOK
<1>2. Grows
  BY <1>1 DEF Grows
<1>3. TypeOK'
  BY <1>1 DEF FilesInv, TypeOK
<1>4. StoredBacked'
  BY <1>2, BackingLasts DEF FilesInv, StoredBacked
<1>5. InFlightBacked'
  BY <1>1, <1>2, BackingLasts DEF FilesInv, InFlightBacked
<1> QED BY <1>1, <1>3, <1>4, <1>5 DEF FilesInv

-----------------------------------------------------------------------------
(* The store is empty to begin with.                                       *)
LEMMA InitBacked == Init => FilesInv
BY HandlerStates
DEF Init, FilesInv, TypeOK, ObjectsNumbered, InFlightBacked, StoredBacked, Idle

(* The first step of a request.                                            *)
LEMMA StartKept ==
  ASSUME FilesInv, NEW h \in Handler, Starts(h)
  PROVE  FilesInv'
<1>t. /\ objects \subseteq Object /\ rows \subseteq Row /\ messages \subseteq Nat
      /\ keySeq \in Nat /\ req \in [Handler -> HandlerState]
      /\ \A f \in messages : ChatFile(f)
  BY DEF FilesInv, TypeOK, StoredBacked
<1>1. ASSUME NEW kind \in Kind, NEW mime \in Mime, NEW size \in Size,
             Upload(h, kind, mime, size)
      PROVE  FilesInv'
  <2>1. PICK p \in Payloads(mime, size) :
          LET object == [key |-> NewKey, mime |-> p.mime, size |-> p.size]
          IN  /\ Write(object)
              /\ Begin(h, [next |-> "row", kind |-> kind, object |-> object])
              /\ UNCHANGED <<rows, messages>>
    BY <1>1 DEF Upload
  <2> DEFINE object == [key |-> NewKey, mime |-> p.mime, size |-> p.size]
             s == [next |-> "row", kind |-> kind, object |-> object]
  <2>2. p.mime \in Mime /\ p.size \in Size
    BY DEF Payloads, Conversions, Mime, AacMime
  <2>3. object \in Object /\ object.key = NewKey
    BY <1>t, <2>2 DEF Object, NewKey
  <2>4. Write(object) /\ UNCHANGED <<rows, messages>> /\ req' = [req EXCEPT ![h] = s]
    BY <2>1 DEF Begin, Become
  <2>5. s \in HandlerState /\ s.next = "row" /\ s.object = object
    BY <2>3, HandlerStates
  <2> HIDE DEF object, s
  <2>6. /\ req' \in [Handler -> HandlerState]
        /\ \A x \in Handler : req'[x] = req[x]
             \/ (req'[x].next \in {"row", "update"} /\ req'[x].object = object)
    BY <1>t, <2>4, <2>5
  <2> QED BY <2>3, <2>4, <2>6, ObjectStep
<1>2. ASSUME NEW row \in rows, LookForAttachment(h, row)
      PROVE  FilesInv'
  <2> DEFINE s == [next |-> "attach", file |-> row.id]
  <2>1. s \in HandlerState /\ s.next = "attach" /\ s.file = row.id
    BY <1>t, HandlerStates DEF Row
  <2>2. ChatFile(row.id)
    BY <1>2 DEF LookForAttachment, ChatFile
  <2>3. UNCHANGED <<objects, rows, messages, keySeq>> /\ Become(h, s)
    BY <1>2 DEF LookForAttachment, Begin
  <2> HIDE DEF s
  <2> QED BY <1>t, <2>1, <2>2, <2>3, RequestStep
<1>3. ASSUME NEW row \in rows, Download(h, row)
      PROVE  FilesInv'
  <2> DEFINE s == [next |-> "pipe", row |-> row]
  <2>1. s \in HandlerState /\ s.next = "pipe" /\ s.row = row
    BY <1>t, HandlerStates
  <2>2. Backed(row)
    BY DEF FilesInv, StoredBacked
  <2>3. UNCHANGED <<objects, rows, messages, keySeq>> /\ Become(h, s)
    BY <1>3 DEF Download, Begin
  <2> HIDE DEF s
  <2> QED BY <1>t, <2>1, <2>2, <2>3, RequestStep
<1>4. ASSUME StartBackfill(h)
      PROVE  FilesInv'
  <2> DEFINE s == [next |-> "convert", todo |-> {r \in rows : NeedsAudioTranscode(r.mime)}]
  <2>1. s \in HandlerState /\ s.next = "convert"
    BY <1>t, HandlerStates
  <2>2. UNCHANGED <<objects, rows, messages, keySeq>> /\ Become(h, s)
    BY <1>4 DEF StartBackfill, Begin
  <2> HIDE DEF s
  <2> QED BY <1>t, <2>1, <2>2, RequestStep
<1> QED BY <1>1, <1>2, <1>3, <1>4 DEF Starts

(* The steps after it.                                                     *)
LEMMA ContinueKept ==
  ASSUME FilesInv, NEW h \in Handler, Continues(h)
  PROVE  FilesInv'
<1> DEFINE q == req[h]
<1>t. /\ objects \subseteq Object /\ rows \subseteq Row /\ messages \subseteq Nat
      /\ keySeq \in Nat /\ req \in [Handler -> HandlerState] /\ q \in HandlerState
      /\ \A f \in messages : ChatFile(f)
  BY DEF FilesInv, TypeOK, StoredBacked
<1>i. Idle \in HandlerState /\ Idle.next = "idle"
  BY HandlerStates DEF Idle
<1>1. CASE CreateRow(h)
  <2> DEFINE o == q.object
             new == [id |-> o.key, kind |-> q.kind, key |-> o.key, mime |-> o.mime,
                     size |-> o.size]
  <2>1. q.next = "row" /\ q.kind \in Kind /\ o \in Object /\ o \in objects
    BY <1>1, <1>t, HandlerFields DEF CreateRow, FilesInv, InFlightBacked
  <2>2. /\ new \in Row
        /\ new.key = o.key /\ new.mime = o.mime /\ new.size = o.size
    BY <2>1 DEF Row, Object
  <2>3. rows' = rows \cup {new} /\ UNCHANGED <<objects, messages, keySeq>>
        /\ req' = [req EXCEPT ![h] = Idle]
    BY <1>1 DEF CreateRow, Become
  <2> HIDE DEF new
  <2>4. Grows
    BY <2>3 DEF Grows
  <2>5. TypeOK' /\ ObjectsNumbered'
    BY <1>t, <1>i, <2>2, <2>3 DEF FilesInv, TypeOK, ObjectsNumbered
  <2>6. StoredBacked'
    <3>1. \A r : r = new => Backed(r)'
      BY <2>1, <2>2, <2>3 DEF Backed
    <3> QED BY <2>3, <2>4, <3>1, BackingLasts DEF FilesInv, StoredBacked
  <2>7. InFlightBacked'
    BY <1>t, <1>i, <2>3, <2>4, BackingLasts DEF FilesInv, InFlightBacked
  <2> QED BY <2>5, <2>6, <2>7 DEF FilesInv
<1>2. CASE Pipe(h) \/ Leave(h)
  <2>1. UNCHANGED <<objects, rows, messages, keySeq>> /\ Become(h, Idle)
    BY <1>2 DEF Pipe, Leave
  <2> QED BY <1>t, <1>i, <2>1, RequestStep
<1>3. CASE CreateMessage(h)
  <2>1. q.next = "attach" /\ q.file \in Nat /\ ChatFile(q.file)
    BY <1>3, <1>t, HandlerFields DEF CreateMessage, FilesInv, InFlightBacked
  <2>2. /\ UNCHANGED <<objects, rows, keySeq>> /\ Become(h, Idle)
        /\ messages' = messages \cup {q.file}
    BY <1>3 DEF CreateMessage
  <2>3. messages' \subseteq Nat /\ \A f \in messages' : ChatFile(f)
    BY <1>t, <2>1, <2>2
  <2> QED BY <1>i, <2>2, <2>3, RequestStep
<1>4. CASE NotConverted(h)
  <2> DEFINE s == [next |-> "convert", todo |-> q.todo \ {Asset(h)}]
  <2>1. s \in HandlerState /\ s.next = "convert"
    BY <1>4, <1>t, HandlerFields, HandlerStates DEF NotConverted
  <2>2. UNCHANGED <<objects, rows, messages, keySeq>> /\ Become(h, s)
    BY <1>4 DEF NotConverted
  <2> HIDE DEF s
  <2> QED BY <1>t, <2>1, <2>2, RequestStep
<1>5. CASE WriteConverted(h)
  <2>1. PICK c \in Conversions :
          LET object == [key |-> ConvertedKey(Asset(h)), mime |-> c.mime, size |-> c.size]
          IN  /\ Write(object)
              /\ Become(h, [next |-> "update", todo |-> q.todo, object |-> object])
    BY <1>5 DEF WriteConverted
  <2> DEFINE object == [key |-> ConvertedKey(Asset(h)), mime |-> c.mime, size |-> c.size]
             s == [next |-> "update", todo |-> q.todo, object |-> object]
  <2>2. object \in Object /\ object.key = NewKey
    BY <1>t DEF Conversions, Object, Mime, AacMime, ConvertedKey, NewKey
  <2>3. Write(object) /\ UNCHANGED <<rows, messages>> /\ req' = [req EXCEPT ![h] = s]
    BY <1>5, <2>1 DEF WriteConverted, Become
  <2>4. s \in HandlerState /\ s.next = "update" /\ s.object = object
    BY <1>5, <1>t, <2>2, HandlerFields, HandlerStates DEF WriteConverted
  <2> HIDE DEF object, s
  <2>5. /\ req' \in [Handler -> HandlerState]
        /\ \A x \in Handler : req'[x] = req[x]
             \/ (req'[x].next \in {"row", "update"} /\ req'[x].object = object)
    BY <1>t, <2>3, <2>4
  <2> QED BY <2>2, <2>3, <2>5, ObjectStep
<1>6. CASE UpdateRow(h)
  <2> DEFINE o == q.object
             s == [next |-> "convert", todo |-> q.todo \ {Asset(h)}]
             f(r) == IF r.id = Asset(h).id THEN Updated(r, o) ELSE r
  <2>1. q.next = "update" /\ q.todo \subseteq Row /\ o \in Object /\ o \in objects
    BY <1>6, <1>t, HandlerFields DEF UpdateRow, FilesInv, InFlightBacked
  <2>2. s \in HandlerState /\ s.next = "convert"
    BY <2>1, HandlerStates
  <2>3. rows' = {f(r) : r \in rows}
    BY <1>6 DEF UpdateRow
  <2>4. UNCHANGED <<objects, messages, keySeq>> /\ req' = [req EXCEPT ![h] = s]
    BY <1>6 DEF UpdateRow, Become
  <2>5. \A r \in rows :
          /\ f(r) \in Row /\ f(r).id = r.id /\ f(r).kind = r.kind
          /\ f(r) = r \/ (f(r).key = o.key /\ f(r).mime = o.mime /\ f(r).size = o.size)
    BY <1>t, <2>1, UpdatedRow
  <2> HIDE DEF f, s, o
  <2>6. Grows
    BY <2>3, <2>4, <2>5 DEF Grows
  <2>7. TypeOK' /\ ObjectsNumbered'
    BY <1>t, <2>2, <2>3, <2>4, <2>5 DEF FilesInv, TypeOK, ObjectsNumbered
  <2>8. StoredBacked'
    <3>1. \A r \in rows : Backed(f(r))
      BY <2>1, <2>5 DEF FilesInv, StoredBacked, Backed
    <3>2. \A r \in rows' : Backed(r)'
      BY <2>3, <2>4, <3>1 DEF Backed
    <3> QED BY <2>4, <2>6, <3>2, BackingLasts DEF FilesInv, StoredBacked
  <2>9. InFlightBacked'
    BY <1>t, <2>2, <2>4, <2>6, BackingLasts DEF FilesInv, InFlightBacked
  <2> QED BY <2>7, <2>8, <2>9 DEF FilesInv
<1> QED BY <1>1, <1>2, <1>3, <1>4, <1>5, <1>6 DEF Continues

(* Every step keeps the invariant: first statements and later ones have a  *)
(* lemma each.                                                             *)
LEMMA StepKept == FilesInv /\ [Next]_vars => FilesInv'
<1> SUFFICES ASSUME FilesInv, [Next]_vars PROVE FilesInv'
  OBVIOUS
<1>1. CASE UNCHANGED vars
  BY <1>1
  DEF vars, FilesInv, TypeOK, ObjectsNumbered, InFlightBacked, StoredBacked, Backed, ChatFile
<1>2. ASSUME NEW size \in Size, TornWrite(size)
      PROVE  FilesInv'
  <2> DEFINE object == [key |-> NewKey, mime |-> AacMime, size |-> size]
  <2>1. object \in Object /\ object.key = NewKey
    BY DEF FilesInv, TypeOK, Object, Mime, AacMime, NewKey
  <2>2. Write(object) /\ UNCHANGED <<rows, messages, req>>
    BY <1>2 DEF TornWrite
  <2> HIDE DEF object
  <2>3. req' \in [Handler -> HandlerState] /\ \A x \in Handler : req'[x] = req[x]
    BY <2>2 DEF FilesInv, TypeOK
  <2> QED BY <2>1, <2>2, <2>3, ObjectStep
<1>3. ASSUME NEW h \in Handler, Starts(h) \/ Continues(h)
      PROVE  FilesInv'
  BY <1>3, StartKept, ContinueKept
<1> QED BY <1>1, <1>2, <1>3 DEF Next

(* The store and the requests in flight are consistent in every state.     *)
THEOREM FilesInvariant == Spec => []FilesInv
<1>1. FilesInv /\ [Next]_vars => FilesInv'
  BY StepKept
<1> QED BY InitBacked, <1>1, PTL DEF Spec

(* Every variable keeps its type.                                          *)
THEOREM FilesTyped == Spec => []TypeOK
<1>1. FilesInv => TypeOK
  BY DEF FilesInv
<1> QED BY FilesInvariant, <1>1, PTL

(* upload and backfill-audio-aac: whatever breaks off, a row names a whole *)
(* object of its type and size, and a message has its attachment.          *)
THEOREM FilesRowsBacked == Spec => []RowsBacked
<1>1. FilesInv => RowsBacked
  BY DEF FilesInv, StoredBacked, Backed, ChatFile, RowsBacked, Attachments
<1> QED BY FilesInvariant, <1>1, PTL

-----------------------------------------------------------------------------
(* parseRange at every boundary: the range is empty or within the file, it *)
(* holds the bytes requested and no other, and it is refused when there    *)
(* are none.                                                               *)
LEMMA RangeExact ==
  ASSUME NEW header \in Header, NEW total \in Nat
  PROVE  LET range == ParseRange(header, total)
         IN  /\ range.start \in Int /\ range.end \in Int
             /\ range.start <= range.end + 1
             /\ Requested(header, total) = range.start .. range.end
             /\ range.start .. range.end \subseteq 0 .. total - 1
             /\ range.status = 416 <=>
                  header.form # "none" /\ Requested(header, total) = {}
<1> DEFINE range == ParseRange(header, total)
<1> USE DEF Least, Clipped, Number
<1>n. MaxSize \in Nat
  BY FilesAssumption
<1>1. CASE header.form = "none"
  <2>1. range = [status |-> 200, start |-> 0, end |-> total - 1]
    BY <1>1 DEF ParseRange
  <2> QED BY <1>1, <2>1 DEF Requested
<1>2. CASE header.form = "other"
  <2>1. range = [status |-> 416, start |-> 0, end |-> -1]
    BY <1>2 DEF ParseRange
  <2> QED BY <1>2, <2>1 DEF Requested
<1>3. CASE header.form = "span"
  <2>1. header.first \in Nat /\ header.last \in Nat
    BY <1>3, <1>n DEF Header
  <2>2. CASE header.first > header.last \/ header.first >= total
    <3>1. range = [status |-> 416, start |-> 0, end |-> -1]
      BY <1>3, <2>2 DEF ParseRange
    <3> QED BY <1>3, <2>1, <2>2, <3>1 DEF Requested
  <2>3. CASE header.first <= header.last /\ header.first < total
    <3>1. range = [status |-> 206, start |-> header.first, end |-> Clipped(header.last, total)]
      BY <1>3, <2>1, <2>3 DEF ParseRange
    <3>2. header.first \in Requested(header, total)
      BY <1>3, <2>1, <2>3 DEF Requested
    <3> QED BY <1>3, <2>1, <2>3, <3>1, <3>2 DEF Requested
  <2> QED BY <2>1, <2>2, <2>3
<1>4. CASE header.form = "from"
  <2>1. header.first \in Nat
    BY <1>4, <1>n DEF Header
  <2>2. CASE header.first >= total
    <3>1. range = [status |-> 416, start |-> 0, end |-> -1]
      BY <1>4, <2>2 DEF ParseRange
    <3> QED BY <1>4, <2>1, <2>2, <3>1 DEF Requested
  <2>3. CASE header.first < total
    <3>1. range = [status |-> 206, start |-> header.first, end |-> total - 1]
      BY <1>4, <2>1, <2>3 DEF ParseRange
    <3>2. header.first \in Requested(header, total)
      BY <1>4, <2>1, <2>3 DEF Requested
    <3> QED BY <1>4, <2>1, <2>3, <3>1, <3>2 DEF Requested
  <2> QED BY <2>1, <2>2, <2>3
<1>5. CASE header.form = "suffix"
  <2> DEFINE start == IF header.last > total THEN 0 ELSE total - header.last
  <2>1. header.last \in Nat
    BY <1>5, <1>n DEF Header
  <2>2. CASE header.last = 0 \/ total = 0
    <3>1. range = [status |-> 416, start |-> 0, end |-> -1]
      BY <1>5, <2>1, <2>2 DEF ParseRange
    <3> QED BY <1>5, <2>1, <2>2, <3>1 DEF Requested
  <2>3. CASE header.last > 0 /\ total > 0
    <3>1. range = [status |-> 206, start |-> start, end |-> total - 1]
      BY <1>5, <2>1, <2>3 DEF ParseRange
    <3>2. total - 1 \in Requested(header, total)
      BY <1>5, <2>1, <2>3 DEF Requested
    <3> QED BY <1>5, <2>1, <2>3, <3>1, <3>2 DEF Requested
  <2> QED BY <2>1, <2>2, <2>3
<1> QED BY <1>1, <1>2, <1>3, <1>4, <1>5 DEF Header

(* streamTo: whatever the backfill has done to the file since the row was  *)
(* read, the answer is the range asked for, as the headers describe it.    *)
THEOREM FilesAnswersExact == Spec => []AnswersExact
<1>1. FilesInv => AnswersExact
  <2> SUFFICES ASSUME FilesInv, NEW h \in Handler, req[h].next = "pipe", NEW header \in Header
               PROVE  LET row    == req[h].row
                          answer == Answer(row, header)
                          asked  == Requested(header, row.size)
                      IN  /\ answer.sent = asked
                          /\ answer.length = Cardinality(answer.sent)
                          /\ answer.sentType = answer.type
                          /\ answer.status = 416 <=> header.form # "none" /\ asked = {}
    BY DEF AnswersExact
  <2> DEFINE row    == req[h].row
             range  == ParseRange(header, row.size)
             object == CHOOSE o \in objects : o.key = row.key
  <2>1. row \in Row /\ row.size \in Nat
    BY HandlerFields, FilesAssumption DEF FilesInv, TypeOK, Row, Size
  <2>2. PICK o \in objects : o.key = row.key /\ o.mime = row.mime /\ o.size = row.size
    BY DEF FilesInv, InFlightBacked, Backed
  <2>3. object = o
    BY <2>2 DEF FilesInv, ObjectsNumbered
  <2>4. /\ range.start \in Int /\ range.end \in Int /\ range.start <= range.end + 1
        /\ Requested(header, row.size) = range.start .. range.end
        /\ range.start .. range.end \subseteq 0 .. row.size - 1
        /\ range.status = 416 <=> header.form # "none" /\ Requested(header, row.size) = {}
    BY <2>1, RangeExact
  <2>5. Cardinality(range.start .. range.end) = range.end - range.start + 1
    <3>1. ASSUME NEW a \in Int, NEW b \in Int, a <= b + 1
          PROVE  Cardinality(a .. b) = b - a + 1
      BY <3>1, FS_Interval
    <3>2. range.start \in Int /\ range.end \in Int /\ range.start <= range.end + 1
      BY <2>4
    <3> HIDE DEF range
    <3> QED BY <3>1, <3>2
  <2>6. Answer(row, header) =
          [status |-> range.status, type |-> row.mime, length |-> range.end - range.start + 1,
           sentType |-> row.mime, sent |-> range.start .. range.end]
    <3>1. (0 .. row.size - 1) \cap (range.start .. range.end) = range.start .. range.end
      BY <2>4
    <3>2. object.mime = row.mime /\ object.size = row.size
      BY <2>2, <2>3
    <3> QED BY <3>1, <3>2 DEF Answer
  <2> QED BY <2>4, <2>5, <2>6
<1> QED BY FilesInvariant, <1>1, PTL

=============================================================================
