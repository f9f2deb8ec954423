------------------------------ MODULE FileStore ------------------------------
(***************************************************************************)
(* Files: an object in the storage and a row of FileAsset that names it    *)
(* (FilesService, LocalDiskStorage), the conversion of recordings to AAC on*)
(* upload, the script that converts those stored before while the API is   *)
(* serving them, and the chat that attaches files.                         *)
(*                                                                         *)
(* The bytes of an object are its type and its size.  A request is split   *)
(* where what it has done becomes visible: an upload and a conversion after*)
(* the object is written, a download after the reading of the row.         *)
(* Signatures of URLs are left out: a request whose URL is not valid is    *)
(* refused before anything is read.                                        *)
(***************************************************************************)
EXTENDS Integers, FiniteSets

CONSTANTS
  Handler,     \* requests and runs of the script in flight at once
  MaxSize,     \* bound: bytes of an object
  MaxObjects   \* bound: objects written in a behaviour

ASSUME FilesAssumption == MaxSize \in Nat \ {0} /\ MaxObjects \in Nat

VARIABLES
  objects,   \* objects in the storage
  rows,      \* rows of FileAsset
  messages,  \* rows of ChatMessage, as their attachment
  keySeq,    \* keys handed out, all different (randomUUID)
  req        \* Handler -> local state of the request it serves

vars == <<objects, rows, messages, keySeq, req>>

(* A recording that WebKit does not play, and one that it does, which goes *)
(* through the code like any other file.                                   *)
Mime == {"audio/webm", "audio/mp4"}
Size == 0 .. MaxSize
Kind == {"chat", "document"}    \* kinds that begin with chat_, and the others

Object == [key : Nat, mime : Mime, size : Size]
Row    == [id : Nat, kind : Kind, key : Nat, mime : Mime, size : Size]

(* A header Range: absent, first-last, first-, -last, or something else.   *)
Number == 0 .. MaxSize + 1
Header ==
       [form : {"none", "other"}]
  \cup [form : {"span"}, first : Number, last : Number]
  \cup [form : {"from"}, first : Number]
  \cup [form : {"suffix"}, last : Number]

Idle == [next |-> "idle"]
HandlerState ==
       {Idle}
  \cup [next : {"row"}, kind : Kind, object : Object]
  \cup [next : {"pipe"}, row : Row]
  \cup [next : {"attach"}, file : Nat]
  \cup [next : {"convert"}, todo : SUBSET Row]
  \cup [next : {"update"}, todo : SUBSET Row, object : Object]

-----------------------------------------------------------------------------
Become(h, s)  == req' = [req EXCEPT ![h] = s]
Begin(h, s)   == req[h] = Idle /\ Become(h, s)
NewKey        == keySeq + 1
Write(object) ==
  /\ keySeq < MaxObjects
  /\ keySeq' = NewKey
  /\ objects' = {o \in objects : o.key # object.key} \cup {object}

Init ==
  /\ objects  = {}
  /\ rows     = {}
  /\ messages = {}
  /\ keySeq   = 0
  /\ req      = [h \in Handler |-> Idle]

NeedsAudioTranscode(mime) == mime = "audio/webm"

(* Mutant: a name of the type that nobody else uses.                       *)
AliasMime == "audio/m4a"

(* transcodeAudioToAac: the converted bytes, never empty, or null.         *)
AacMime == "audio/mp4"
Conversions == [mime : {AacMime}, size : Size \ {0}]

(* upload: what is kept of a file sent is the conversion, or the file when *)
(* it needs none or none could be made.                                    *)
Payloads(mime, size) ==
  {[mime |-> mime, size |-> size]} \cup (IF NeedsAudioTranscode(mime) THEN Conversions ELSE {})

Upload(h, kind, mime, size) ==
  \E p \in Payloads(mime, size) :
    LET object == [key |-> NewKey, mime |-> p.mime, size |-> p.size]
    IN  /\ Write(object)
        /\ Begin(h, [next |-> "row", kind |-> kind, object |-> object])
        /\ UNCHANGED <<rows, messages>>

CreateRow(h) ==
  LET o == req[h].object
  IN  /\ req[h].next = "row"
      /\ rows' = rows \cup {[id |-> o.key, kind |-> req[h].kind, key |-> o.key, mime |-> o.mime,
                             size |-> o.size]}
      /\ Become(h, Idle)
      /\ UNCHANGED <<objects, messages, keySeq>>

(* A write that breaks off leaves a piece of some object, and its request  *)
(* or its conversion fails.                                                *)
TornWrite(size) ==
  /\ Write([key |-> NewKey, mime |-> AacMime, size |-> size])
  /\ UNCHANGED <<rows, messages, req>>

-----------------------------------------------------------------------------
(* parseRange *)
Least(a, b) == IF a < b THEN a ELSE b

(* Mutant: the end is the number of bytes.                                 *)
LastOrTotal(last, total) == Least(last, total)

Clipped(last, total) == Least(last, total - 1)

ParseRange(header, total) ==
  LET start == IF header.form = "suffix"
               THEN (IF header.last > total THEN 0 ELSE total - header.last)
               ELSE header.first
      end   == IF header.form = "span" THEN header.last ELSE total - 1
  IN  CASE header.form = "none"  -> [status |-> 200, start |-> 0, end |-> total - 1]
        [] \/ header.form = "other"
           \/ header.form = "suffix" /\ header.last = 0
           \/ header.form \notin {"none", "other"} /\ (start > end \/ start >= total)
           -> [status |-> 416, start |-> 0, end |-> -1]
        [] OTHER -> [status |-> 206, start |-> start, end |-> Clipped(end, total)]

(* streamTo: the row, ...                                                  *)
Download(h, row) ==
  /\ Begin(h, [next |-> "pipe", row |-> row])
  /\ UNCHANGED <<objects, rows, messages, keySeq>>

(* ... the headers from the row, and the bytes of the object as it is when *)
(* the stream opens it.                                                    *)
Answer(row, header) ==
  LET range  == ParseRange(header, row.size)
      object == CHOOSE o \in objects : o.key = row.key
  IN  [status |-> range.status, type |-> row.mime, length |-> range.end - range.start + 1,
       sentType |-> object.mime, sent |-> (0 .. object.size - 1) \cap (range.start .. range.end)]

Pipe(h) ==
  /\ req[h].next = "pipe"
  /\ \E o \in objects : o.key = req[h].row.key
  /\ Become(h, Idle)
  /\ UNCHANGED <<objects, rows, messages, keySeq>>

-----------------------------------------------------------------------------
(* addChatMessage: the file is looked up, and the message created later.   *)
LookForAttachment(h, row) ==
  /\ row.kind = "chat"
  /\ Begin(h, [next |-> "attach", file |-> row.id])
  /\ UNCHANGED <<objects, rows, messages, keySeq>>

CreateMessage(h) ==
  /\ req[h].next = "attach"
  /\ messages' = messages \cup {req[h].file}
  /\ Become(h, Idle)
  /\ UNCHANGED <<objects, rows, keySeq>>

(* getChatMessages: the rows of the attachments, looked up all at once.    *)
Attachments(files) == {r \in rows : r.id \in files}

-----------------------------------------------------------------------------
(* backfill-audio-aac: the rows to convert are read once; each is then     *)
(* converted under a new key, oldest first, and its row updated.  The old  *)
(* object stays.                                                           *)
StartBackfill(h) ==
  /\ Begin(h, [next |-> "convert", todo |-> {r \in rows : NeedsAudioTranscode(r.mime)}])
  /\ UNCHANGED <<objects, rows, messages, keySeq>>

Asset(h) == CHOOSE r \in req[h].todo : \A x \in req[h].todo : r.id <= x.id

NotConverted(h) ==
  /\ req[h].next = "convert" /\ req[h].todo # {}
  /\ Become(h, [next |-> "convert", todo |-> req[h].todo \ {Asset(h)}])
  /\ UNCHANGED <<objects, rows, messages, keySeq>>

(* Mutant: the object is converted in place.                               *)
SameKey(row) == row.key

ConvertedKey(row) == NewKey

WriteConverted(h) ==
  /\ req[h].next = "convert" /\ req[h].todo # {}
  /\ \E c \in Conversions :
       LET object == [key |-> ConvertedKey(Asset(h)), mime |-> c.mime, size |-> c.size]
       IN  /\ Write(object)
           /\ Become(h, [next |-> "update", todo |-> req[h].todo, object |-> object])
  /\ UNCHANGED <<rows, messages>>

(* Mutant: the size is left as it was.                                     *)
UpdatedWithoutSize(r, o) == [r EXCEPT !.key = o.key, !.mime = o.mime]

Updated(r, o) == [r EXCEPT !.key = o.key, !.mime = o.mime, !.size = o.size]

UpdateRow(h) ==
  LET q == req[h]
  IN  /\ q.next = "update"
      /\ rows' = {IF r.id = Asset(h).id THEN Updated(r, q.object) ELSE r : r \in rows}
      /\ Become(h, [next |-> "convert", todo |-> q.todo \ {Asset(h)}])
      /\ UNCHANGED <<objects, messages, keySeq>>

-----------------------------------------------------------------------------
(* A request answered, refused or cut off by a restart.                    *)
Leave(h) ==
  /\ req[h] # Idle
  /\ Become(h, Idle)
  /\ UNCHANGED <<objects, rows, messages, keySeq>>

Starts(h) ==
  \/ \E kind \in Kind, mime \in Mime, size \in Size : Upload(h, kind, mime, size)
  \/ \E row \in rows : LookForAttachment(h, row) \/ Download(h, row)
  \/ StartBackfill(h)

Continues(h) ==
  \/ CreateRow(h) \/ Pipe(h) \/ CreateMessage(h)
  \/ NotConverted(h) \/ WriteConverted(h) \/ UpdateRow(h) \/ Leave(h)

Next ==
  \/ \E size \in Size : TornWrite(size)
  \/ \E h \in Handler : Starts(h) \/ Continues(h)

Spec == Init /\ [][Next]_vars

-----------------------------------------------------------------------------
TypeOK ==
  /\ objects  \subseteq Object
  /\ rows     \subseteq Row
  /\ messages \subseteq Nat
  /\ keySeq   \in Nat
  /\ req      \in [Handler -> HandlerState]

(* Every row names an object that was written whole, of the row's type and *)
(* size, whatever breaks off an upload or a conversion, and every message  *)
(* has its attachment (files.module.ts:95; backfill-audio-aac.ts:17, "o    *)
(* registro só é atualizado depois que o novo arquivo é gravado").         *)
RowsBacked ==
  /\ \A r \in rows : \E o \in objects : o.key = r.key /\ o.mime = r.mime /\ o.size = r.size
  /\ \A f \in messages : \E r \in Attachments({f}) : r.kind = "chat"

(* The bytes of a file of total bytes that a header asks for.              *)
Requested(header, total) ==
  {i \in 0 .. total - 1 :
     CASE header.form = "none"   -> TRUE
       [] header.form = "other"  -> FALSE
       [] header.form = "span"   -> header.first <= i /\ i <= header.last
       [] header.form = "from"   -> header.first <= i
       [] header.form = "suffix" -> total - header.last <= i}

(* Whenever a download opens its object, it sends exactly the bytes asked  *)
(* for, as many as Content-Length says and of the type it says, though the *)
(* script may have converted the file since the row was read; a range that *)
(* holds no byte of the file is refused, and no other                      *)
(* (files.module.ts:41, :136, :160).                                       *)
AnswersExact ==
  \A h \in Handler : req[h].next = "pipe" => \A header \in Header :
    LET row    == req[h].row
        answer == Answer(row, header)
        asked  == Requested(header, row.size)
    IN  /\ answer.sent = asked
        /\ answer.length = Cardinality(answer.sent)
        /\ answer.sentType = answer.type
        /\ answer.status = 416 <=> header.form # "none" /\ asked = {}
=============================================================================
