------------------------------- MODULE Files -------------------------------
(***************************************************************************)
(* Uploaded files: rows of a soft-deleting table, the files of the disk    *)
(* and the thumbnails made of images, under requests that write them one   *)
(* by one (FileController, FileService).  A file on the disk has a name of *)
(* its own, so an upload is its number, which its row gets when it is      *)
(* inserted, and a path is the number and what the file is.                *)
(*                                                                         *)
(* Which types and sizes are let in, the measures of a picture and what    *)
(* the answers look like beyond their status are left out.                 *)
(***************************************************************************)
EXTENDS Naturals, SequencesExt, FiniteSets

CONSTANTS Requests,
          Sizes,       \* the sizes of thumbnails, in order; the first stands for the default
          MaxUploads,  \* bound: files that are uploaded
          MaxAsked,    \* bound: requests for files there are
          MaxTroubles  \* bound: steps that fail and processes that die

VARIABLES files,    \* upload |-> its row
          disk,     \* the paths there are
          uploads,  \* how many uploads have begun
          links,    \* the signed links that have not expired
          req,      \* each request
          asked, troubles,
          broken,   \* history: the uploads that met trouble
          crossed,  \* history: the uploads that were deleted while thumbnails were made
          rough     \* history: the requests that another deleted or remade the file under
fileVars == <<files, disk, uploads, links, req, asked, troubles, broken, crossed, rough>>

Uploads == 1 .. MaxUploads
Types == {"text", "jpeg", "webp"}
NoRow == [is |-> "none", type |-> "text", thumbs |-> {}]

\* An image has a webp of each size, and one in its own format unless that is it.
Formats(type) == IF type = "webp" THEN <<"webp">> ELSE <<"webp", "original">>
VariantsOf(type, size) == [i \in DOMAIN Formats(type) |-> <<size, Formats(type)[i]>>]

\* A loop over the sizes, with m steps for each: the size and the step it is at.
SizeAt(m, k) == Sizes[((k - 1) \div m) + 1]
StepAt(m, k) == ((k - 1) % m) + 1
Variants(type) ==
    LET m == Len(Formats(type))
    IN [k \in 1 .. m * Len(Sizes) |-> VariantsOf(type, SizeAt(m, k))[StepAt(m, k)]]
Path(n, what) == <<n, what>>
Default == <<Sizes[1], "webp">>  \* what thumbnail_path holds
Main == <<"main", "">>

\* A request: the step it waits at, what it does to which upload, the row it has
\* read, what it has still to do on the disk, and its last answer.
Idle == [pc |-> "idle", op |-> "", n |-> 1, row |-> NoRow, want |-> Main, todo |-> <<>>,
         again |-> FALSE, ans |-> 0]
At(r, pc) == req[r].pc = pc
Goes(r, pc) == [req EXCEPT ![r].pc = pc]
Answer(r, code) == req' = [req EXCEPT ![r] = [Idle EXCEPT !.n = req[r].n, !.op = req[r].op, !.ans = code]]

Making(r) == req[r].pc \in {"metadata", "make", "making", "record"}
Deleting(r) == req[r].pc \in {"unlink", "remove"}

Init == /\ files = [n \in Uploads |-> NoRow] /\ disk = {} /\ uploads = 0 /\ links = {}
        /\ req = [r \in Requests |-> Idle]
        /\ asked = 0 /\ troubles = 0 /\ broken = {} /\ crossed = {} /\ rough = {}

-----------------------------------------------------------------------------
(* Uploads: multer's or createFromBuffer's file, then the row, then the    *)
(* thumbnails.                                                             *)

Upload(r) ==
    /\ At(r, "idle") /\ uploads < MaxUploads /\ uploads' = uploads + 1
    /\ \E type \in Types : req' = [req EXCEPT ![r] = [Idle EXCEPT !.pc = "write", !.op = "store",
                                                       !.n = uploads + 1, !.row.type = type]]
    /\ UNCHANGED <<files, disk, links, asked, troubles, broken>>

WriteFile(r) == /\ At(r, "write") /\ disk' = disk \union {Path(req[r].n, Main)} /\ req' = Goes(r, "insert")
                /\ UNCHANGED <<files, uploads, links, asked, troubles, broken>>

Insert(r) == /\ At(r, "insert")
             /\ LET row == [req[r].row EXCEPT !.is = "live"]
                IN /\ files' = [files EXCEPT ![req[r].n] = row]
                   /\ IF row.type = "text" THEN Answer(r, 201)
                      ELSE req' = [req EXCEPT ![r].row = row, ![r].pc = "metadata"]
             /\ UNCHANGED <<disk, uploads, links, asked, troubles, broken>>

-----------------------------------------------------------------------------
(* Requests for a file: validate asks exists, which sees trashed rows too; *)
(* then the controller looks the file up, and its service once more.       *)

Wanted == ToSet(Sizes) \X {"webp", "original"}
Reads == {"show", "download", "view", "signedUrl", "signedThumbnailUrl"}
Ask(r) ==
    /\ At(r, "idle") /\ asked < MaxAsked /\ asked' = asked + 1
    /\ \E n \in 1 .. uploads, op \in Reads \union {"thumbnail", "regenerate", "destroy"} :
         \E want \in IF op = "thumbnail" THEN Wanted ELSE {Main} :
            req' = [req EXCEPT ![r] = IF files[n].is = "none" THEN [Idle EXCEPT !.ans = 422]
                                      ELSE [Idle EXCEPT !.pc = "find", !.op = op, !.n = n, !.want = want]]
    /\ UNCHANGED <<files, disk, uploads, links, troubles, broken>>

\* A signed link opens without validation, until its token expires.
Open(r) ==
    /\ At(r, "idle") /\ asked < MaxAsked /\ asked' = asked + 1
    /\ \E l \in links :
         \E want \in IF l[2] = "thumbnail" THEN Wanted ELSE {Main} :
            req' = [req EXCEPT ![r] = [Idle EXCEPT !.pc = "find", !.op = l[2], !.n = l[1], !.want = want]]
    /\ UNCHANGED <<files, disk, uploads, links, troubles, broken>>
Expire == /\ \E l \in links : links' = links \ {l}
          /\ UNCHANGED <<files, disk, uploads, req, asked, troubles, broken>>

\* The controller's find, and what needs no service.
Find(r) ==
    /\ At(r, "find")
    /\ LET q == req[r]  row == files[q.n] IN
         \/ row.is # "live" /\ Answer(r, 404) /\ UNCHANGED links
         \/ row.is = "live" /\ q.op = "show" /\ Answer(r, 200) /\ UNCHANGED links
         \/ /\ row.is = "live" /\ q.op \in {"download", "view"}
            /\ Answer(r, IF Path(q.n, Main) \in disk THEN 200 ELSE 404) /\ UNCHANGED links
         \/ row.is = "live" /\ q.op = "signedUrl" /\ Answer(r, 200) /\ links' = links \union {<<q.n, "download">>}
         \/ /\ row.is = "live" /\ q.op = "signedThumbnailUrl"
            /\ IF row.type = "text" THEN Answer(r, 404) /\ UNCHANGED links
               ELSE Answer(r, 200) /\ links' = links \union {<<q.n, "thumbnail">>}
         \/ /\ row.is = "live" /\ q.op \in {"thumbnail", "regenerate"} /\ UNCHANGED links
            /\ IF row.type = "text" THEN Answer(r, 404) ELSE req' = Goes(r, "findAgain")
         \/ row.is = "live" /\ q.op = "destroy" /\ req' = Goes(r, "findAgain") /\ UNCHANGED links
         \/ row.is = "live" /\ q.op = "destroy" /\ Answer(r, 403) /\ UNCHANGED links
    /\ UNCHANGED <<files, disk, uploads, asked, troubles, broken>>

\* What FileService.delete unlinks: the file, thumbnail_path, which is one of the
\* thumbnails, and the thumbnails of the row it has read, which were recorded
\* together.
\* Mutant: the file itself is forgotten.
UnlinkedThumbs(row) == IF row.thumbs = {} THEN <<>> ELSE Variants(row.type)
Unlinked(row) == <<Main>> \o (IF row.thumbs = {} THEN <<>> ELSE Variants(row.type))

\* The service's find.
FindAgain(r) ==
    /\ At(r, "findAgain")
    /\ LET q == req[r]
           row == files[q.n]
           read == [req EXCEPT ![r].row = row]
       IN \/ row.is # "live" /\ Answer(r, IF q.op = "regenerate" THEN 500 ELSE 404)
          \/ /\ row.is = "live" /\ q.op = "destroy"
             /\ req' = [read EXCEPT ![r].pc = "unlink", ![r].todo = Unlinked(row)]
          \/ row.is = "live" /\ q.op = "regenerate" /\ req' = [read EXCEPT ![r].pc = "metadata"]
          \/ /\ row.is = "live" /\ q.op = "thumbnail"
             /\ req' = [read EXCEPT ![r].pc = IF row.thumbs = {} THEN "metadata" ELSE "choose"]
    /\ UNCHANGED <<files, disk, uploads, links, asked, troubles, broken>>

-----------------------------------------------------------------------------
(* generateThumbnails: sharp reads the file; of each size the old files    *)
(* are unlinked if the caller forces it, and those that are missing are    *)
(* made; then the row is updated.  Whatever it throws, it returns null.    *)

Jobs(row, force) ==
    LET m == Len(Formats(row.type))
        MakeIt(size, i) == <<"make", VariantsOf(row.type, size)[i]>>
        UnlinkIt(size, i) == <<"unlink", VariantsOf(row.type, size)[i]>>
        Anew(size, i) == IF i <= m THEN UnlinkIt(size, i) ELSE MakeIt(size, i - m)
    IN IF force THEN [k \in 1 .. 2 * m * Len(Sizes) |-> Anew(SizeAt(2 * m, k), StepAt(2 * m, k))]
       ELSE [k \in 1 .. m * Len(Sizes) |-> MakeIt(SizeAt(m, k), StepAt(m, k))]

\* After the generator, whether it returned the thumbnails or null.
Generated(r, thumbs) ==
    LET q == req[r] IN
    CASE q.op = "store" -> Answer(r, 201)
      [] q.op = "regenerate" -> Answer(r, IF Default \in thumbs THEN 200 ELSE 500)
      [] OTHER -> req' = [req EXCEPT ![r].pc = "choose", ![r].row.thumbs = thumbs, ![r].todo = <<>>]

Metadata(r) ==
    /\ At(r, "metadata")
    /\ IF Path(req[r].n, Main) \in disk
       THEN req' = [req EXCEPT ![r].pc = "make", ![r].todo = Jobs(req[r].row, req[r].op = "regenerate")]
       ELSE Generated(r, req[r].row.thumbs)
    /\ UNCHANGED <<files, disk, uploads, links, asked, troubles, broken>>

Make(r) ==
    /\ At(r, "make")
    /\ LET q == req[r] IN
         \/ q.todo = <<>> /\ req' = Goes(r, "record") /\ UNCHANGED disk
         \/ /\ q.todo # <<>> /\ Head(q.todo)[1] = "unlink"
            /\ disk' = disk \ {Path(q.n, Head(q.todo)[2])} /\ req' = [req EXCEPT ![r].todo = Tail(@)]
         \/ /\ q.todo # <<>> /\ Head(q.todo)[1] = "make" /\ UNCHANGED disk
            /\ IF Path(q.n, Head(q.todo)[2]) \in disk THEN req' = [req EXCEPT ![r].todo = Tail(@)]
               ELSE IF Path(q.n, Main) \in disk THEN req' = Goes(r, "making")
               ELSE Generated(r, q.row.thumbs)
    /\ UNCHANGED <<files, uploads, links, asked, troubles, broken>>

Made(r) == /\ At(r, "making") /\ disk' = disk \union {Path(req[r].n, Head(req[r].todo)[2])}
           /\ req' = [req EXCEPT ![r].pc = "make", ![r].todo = Tail(@)]
           /\ UNCHANGED <<files, uploads, links, asked, troubles, broken>>

Record(r) == /\ At(r, "record")
             /\ LET thumbs == req[r].row.thumbs \union ToSet(Variants(req[r].row.type))
                IN /\ files' = [files EXCEPT ![req[r].n].thumbs = thumbs]
                   /\ Generated(r, thumbs)
             /\ UNCHANGED <<disk, uploads, links, asked, troubles, broken>>

\* getThumbnailVariant: the wanted one if the row names it; else the generator
\* runs once more and the webp is taken, of the default size if the row named
\* nothing at first.  The controller answers if the file is there.
Choose(r) ==
    /\ At(r, "choose")
    /\ LET q == req[r]
           size == IF q.row.thumbs = {} THEN Sizes[1] ELSE q.want[1]
           served(v) == Answer(r, IF v \in q.row.thumbs /\ Path(q.n, v) \in disk THEN 200 ELSE 404)
       IN \/ q.again /\ served(<<q.want[1], "webp">>)
          \/ ~q.again /\ q.want \in q.row.thumbs /\ served(q.want)
          \/ /\ ~q.again /\ q.want \notin q.row.thumbs
             /\ req' = [req EXCEPT ![r].pc = "metadata", ![r].again = TRUE, ![r].want[1] = size]
    /\ UNCHANGED <<files, disk, uploads, links, asked, troubles, broken>>

-----------------------------------------------------------------------------
(* FileService.delete *)

Unlink(r) ==
    /\ At(r, "unlink")
    /\ IF req[r].todo = <<>> THEN req' = Goes(r, "remove") /\ UNCHANGED disk
       ELSE /\ disk' = disk \ {Path(req[r].n, Head(req[r].todo))} /\ req' = [req EXCEPT ![r].todo = Tail(@)]
    /\ UNCHANGED <<files, uploads, links, asked, troubles, broken>>
RemoveRow(r) == /\ At(r, "remove") /\ files' = [files EXCEPT ![req[r].n].is = "trashed"] /\ Answer(r, 200)
             /\ UNCHANGED <<disk, uploads, links, asked, troubles, broken>>

-----------------------------------------------------------------------------
(* Trouble: a step that fails, and the death of the process.  An upload    *)
(* that fails answers 500 and leaves its file, the generator gives up and  *)
(* leaves what it has made, delete passes over what it cannot unlink.      *)

InTrouble(more) == troubles < MaxTroubles /\ troubles' = troubles + 1 /\ broken' = broken \union more

Fail(r) ==
    LET q == req[r] IN
    /\ InTrouble(IF q.pc = "write" THEN {} ELSE {q.n})
    /\ \/ q.pc \in {"write", "insert", "remove"} /\ Answer(r, 500)
       \/ q.pc \in {"metadata", "making", "record"} /\ Generated(r, q.row.thumbs)
       \/ q.pc = "unlink" /\ q.todo # <<>> /\ req' = [req EXCEPT ![r].todo = Tail(@)]
    /\ UNCHANGED <<files, disk, uploads, links, asked>>

Crash == /\ \E r \in Requests : ~At(r, "idle")
         /\ InTrouble({req[r].n : r \in {q \in Requests : ~At(q, "idle")}})
         /\ req' = [r \in Requests |-> Idle]
         /\ UNCHANGED <<files, disk, uploads, links, asked>>

-----------------------------------------------------------------------------
Disturbs(q) == q.pc # "idle" /\ q.op \in {"regenerate", "destroy"}
Noted ==
    /\ crossed' = crossed \union {n \in Uploads : \E r, s \in Requests :
                                     req[r].n = n /\ req[s].n = n /\ Making(r) /\ Deleting(s)}
    /\ rough' = {r \in Requests :
                   \/ r \in rough /\ ~(At(r, "idle") /\ req'[r].pc # "idle")
                   \/ /\ req'[r].pc # "idle"
                      /\ \E s \in Requests \ {r} : Disturbs(req'[s]) /\ req'[s].n = req'[r].n}

Next == /\ \/ Expire \/ Crash
           \/ \E r \in Requests :
                 \/ Upload(r) \/ WriteFile(r) \/ Insert(r) \/ Ask(r) \/ Open(r) \/ Find(r) \/ FindAgain(r)
                 \/ Metadata(r) \/ Make(r) \/ Made(r) \/ Record(r) \/ Choose(r) \/ Unlink(r) \/ RemoveRow(r) \/ Fail(r)
        /\ Noted
Spec == Init /\ [][Next]_fileVars

-----------------------------------------------------------------------------
Doing(n, ops) == \E r \in Requests : req[r].n = n /\ req[r].pc # "idle" /\ req[r].op \in ops

\* Whatever a file's row says is on the disk while nothing rewrites it: the file
\* itself, and the thumbnails the row names.
NamedThere ==
    \A n \in Uploads \ broken :
        files[n].is = "live" /\ ~Doing(n, {"destroy", "regenerate"}) =>
            Path(n, Main) \in disk /\ \A v \in files[n].thumbs : Path(n, v) \in disk

\* When all requests are over, the disk has no file that no live row names: what
\* was deleted is gone with all its thumbnails.
NothingLeft ==
    (\A r \in Requests : At(r, "idle")) =>
        \A path \in disk : \/ path[1] \in broken \union crossed
                            \/ (files[path[1]].is = "live" /\ path[2] \in {Main} \union files[path[1]].thumbs)

\* A live file, and every thumbnail of a live image, is served to a request under
\* which nothing is deleted or remade, with a size and format of its own or not.
Served ==
    \A r \in Requests \ rough :
        LET q == req[r] IN
        /\ q.pc = "idle" /\ q.n \notin broken /\ files[q.n].is = "live"
        /\ (q.op \in {"show", "download", "view"} \/ (q.op = "thumbnail" /\ files[q.n].type # "text"))
        => q.ans = 200

FilesKept == NamedThere /\ NothingLeft /\ Served
=============================================================================
