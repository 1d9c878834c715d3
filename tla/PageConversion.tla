--------------------------- MODULE PageConversion ---------------------------
(***************************************************************************)
(* The conversion of one book (app/converter.py), page by page, by          *)
(* app/runner.py on the data volume or by app/cloud_convert.py in a folder  *)
(* that dies with its execution.  There app/cloud_job.py copies finished     *)
(* pages to blobs while the conversion goes on, and the next attempt begins *)
(* from those.                                                              *)
(*                                                                         *)
(* An attempt may end at any step: killed, over a limit, a tool that fails. *)
(* What a page's files hold is the release (ENGINE) that wrote them: the    *)
(* PDF, the OCR switch and the languages of a job never change, so a        *)
(* checkpoint_key tells releases apart and nothing else.                    *)
(***************************************************************************)
EXTENDS Naturals, Sequences

CONSTANTS
    PageCount,     \* inspect_pdf()
    None, Torn,    \* no such file; a file opened for writing and not finished
    MaxRelease,    \* bounds: deployments of another ENGINE,
    MaxStops       \* attempts that end early

ASSUME PageCountAssumption == PageCount \in Nat \ {0}
ASSUME ReleaseAssumption == MaxRelease \in Nat \ {0} /\ MaxStops \in Nat
ASSUME ContentAssumption == None # Torn /\ {None, Torn} \cap Nat = {}

VARIABLES
    cloud,            \* the scale-to-zero variant?
    release,          \* ENGINE of the deployment
    at, page,         \* where convert() is
    png, html, mark,  \* page-<n>.png, page-<n>.html, checkpoint_key in page-<n>.json
    items,            \* its list `pages'
    manifest,         \* manifest.json
    book,             \* book.zip
    saved,            \* the blobs under checkpoints/
    sent, leg,        \* transfer_checkpoints(): pages done, and the next file of the next one
    stops

folder == <<png, html, mark>>
convVars == <<cloud, release, at, page, folder, items, manifest, book, saved, sent, leg, stops>>

Pages == 1..PageCount
Releases == 1..MaxRelease
NoFiles == [p \in Pages |-> None]
NoPages == [png |-> NoFiles, html |-> NoFiles, mark |-> NoFiles]
Here == [png |-> png, html |-> html, mark |-> mark]

Init ==
    /\ cloud \in BOOLEAN
    /\ release = 1
    /\ at = "off"
    /\ page = 1
    /\ png = NoFiles /\ html = NoFiles /\ mark = NoFiles
    /\ items = <<>>
    /\ manifest = None
    /\ book = None
    /\ saved = NoPages
    /\ sent = 0
    /\ leg = "png"
    /\ stops = 0

-----------------------------------------------------------------------------
(* convert()                                                               *)

\* An attempt; in the cloud, with the checkpoints of earlier ones in a new folder.
Begin ==
    /\ at = "off"
    /\ at' = "check"
    /\ page' = 1
    /\ items' = <<>>
    /\ sent' = 0
    /\ leg' = "png"
    /\ IF cloud
       THEN /\ png' = saved.png /\ html' = saved.html /\ mark' = saved.mark
            /\ manifest' = None
       ELSE UNCHANGED <<folder, manifest>>
    /\ UNCHANGED <<cloud, release, book, saved, stops>>

\* Mutated forms: a checkpoint of any ENGINE will do; only that of the last page is believed.
ResumableByAny == mark[page] # None /\ png[page] # None /\ html[page] # None
ResumableLast == mark[page] = release /\ page = PageCount

\* The checkpoint is of this ENGINE and both files are there.
Resumable == mark[page] = release /\ png[page] # None /\ html[page] # None

Working(step) ==
    /\ at' = step
    /\ UNCHANGED <<cloud, release, manifest, book, saved, sent, leg, stops>>

PageDone(item) ==
    /\ items' = Append(items, item)
    /\ page' = page + 1
    /\ Working("check")

Reuse ==
    /\ at = "check" /\ page \in Pages
    /\ Resumable
    /\ PageDone(mark[page])
    /\ UNCHANGED folder

\* pdftoppm writes the image in place, write_page() the page.
Draw ==
    /\ at = "check" /\ page \in Pages
    /\ ~Resumable
    /\ png' = [png EXCEPT ![page] = Torn]
    /\ Working("draw")
    /\ UNCHANGED <<page, html, mark, items>>

Drawn ==
    /\ at = "draw"
    /\ png' = [png EXCEPT ![page] = release]
    /\ Working("drawn")
    /\ UNCHANGED <<page, html, mark, items>>

OpenPage ==
    /\ at = "drawn"
    /\ html' = [html EXCEPT ![page] = Torn]
    /\ Working("write")
    /\ UNCHANGED <<page, png, mark, items>>

WritePage ==
    /\ at = "write"
    /\ html' = [html EXCEPT ![page] = release]
    /\ Working("mark")
    /\ UNCHANGED <<page, png, mark, items>>

\* atomic_json(): the checkpoint is there or it is not.
Checkpoint ==
    /\ at = "mark"
    /\ mark' = [mark EXCEPT ![page] = release]
    /\ PageDone(release)
    /\ UNCHANGED <<png, html>>

WriteManifest ==
    /\ at = "check" /\ page \notin Pages
    /\ manifest' = items
    /\ at' = "archive"
    /\ UNCHANGED <<cloud, release, page, folder, items, book, saved, sent, leg, stops>>

\* The archive holds every .html, .png and .json of output/, whoever wrote it: `others' are those
\* of builds.  The folder of a cloud execution has none.  It appears at once (book.partial is
\* renamed, or a blob uploaded).
Publish(others) ==
    /\ at = "archive"
    /\ cloud => others = {}
    /\ book' = [made |-> [files |-> Here, items |-> manifest], others |-> others]
    /\ at' = "publish"
    /\ UNCHANGED <<cloud, release, page, folder, items, manifest, saved, sent, leg, stops>>

\* status = 'completed'
Finish ==
    /\ at = "publish"
    /\ at' = "done"
    /\ UNCHANGED <<cloud, release, page, folder, items, manifest, book, saved, sent, leg, stops>>

-----------------------------------------------------------------------------
(* transfer_checkpoints()                                                  *)

Sendable == cloud /\ at \notin {"off", "done"} /\ sent < Len(items)

\* The files of a finished page, the checkpoint last.
Send ==
    /\ Sendable
    /\ LET p == sent + 1
       IN CASE leg = "png"  -> saved' = [saved EXCEPT !.png[p] = png[p]] /\ leg' = "html" /\ UNCHANGED sent
            [] leg = "html" -> saved' = [saved EXCEPT !.html[p] = html[p]] /\ leg' = "json" /\ UNCHANGED sent
            [] leg = "json" -> saved' = [saved EXCEPT !.mark[p] = mark[p]] /\ leg' = "png" /\ sent' = p
    /\ UNCHANGED <<cloud, release, at, page, folder, items, manifest, book, stops>>

-----------------------------------------------------------------------------
(* What happens to an attempt.                                             *)

\* Killed, timed out or failed: files stay as they are, a cloud execution's are gone.
Stop ==
    /\ at \notin {"off", "done"}
    /\ stops < MaxStops
    /\ stops' = stops + 1
    /\ at' = "off"
    /\ IF cloud
       THEN png' = NoFiles /\ html' = NoFiles /\ mark' = NoFiles /\ manifest' = None
       ELSE UNCHANGED <<folder, manifest>>
    /\ UNCHANGED <<cloud, release, page, items, book, saved, sent, leg>>

\* A deployment replaces the worker between two attempts; ENGINE only grows.
Upgrade ==
    /\ at = "off"
    /\ stops > 0
    /\ release < MaxRelease
    /\ release' = release + 1
    /\ UNCHANGED <<cloud, at, page, folder, items, manifest, book, saved, sent, leg, stops>>

Convert ==
    \/ Begin \/ Reuse \/ Draw \/ Drawn \/ OpenPage \/ WritePage \/ Checkpoint
    \/ WriteManifest \/ Finish

Step(others) == Convert \/ Publish(others) \/ Send \/ Stop \/ Upgrade

\* What a build may have left in output/: interactive-<p>.json, as p, and enrich-status.json, as 0
\* (the files of app/summary.py would be there in the same way).
BuildFiles == 0..PageCount

Next == \E others \in SUBSET BuildFiles : Step(others)

Spec == Init /\ [][Next]_convVars

-----------------------------------------------------------------------------
Contents == {None, Torn} \cup Releases
PageFiles == [Pages -> Contents]
Copies == [png : PageFiles, html : PageFiles, mark : [Pages -> {None} \cup Releases]]

TypeOK ==
    /\ cloud \in BOOLEAN
    /\ release \in Releases
    /\ at \in {"off", "check", "draw", "drawn", "write", "mark", "archive", "publish", "done"}
    /\ page \in 1..(PageCount + 1)
    /\ png \in PageFiles /\ html \in PageFiles /\ mark \in [Pages -> {None} \cup Releases]
    /\ items \in Seq(Releases)
    /\ saved \in Copies
    /\ sent \in 0..PageCount
    /\ leg \in {"png", "html", "json"}
    /\ stops \in 0..MaxStops

\* What a checkpoint says is true of the deployment that may believe it: older ones may
\* stand beside anything.
Truthful(files) ==
    \A p \in Pages :
        files.mark[p] = release => files.png[p] = release /\ files.html[p] = release

\* The files of the page at work, as far as it is.
InHand ==
    /\ at \in {"draw", "drawn", "write", "mark"} => page \in Pages /\ mark[page] # release
    /\ at \in {"drawn", "write", "mark"} => png[page] = release
    /\ at = "mark" => html[page] = release

\* The pages done in this attempt are those before the one at work.
Progress ==
    /\ at # "off" => Len(items) = page - 1 /\ (\A p \in 1..(page - 1) : items[p] = release /\ mark[p] = release)
    /\ at \in {"archive", "publish", "done"} => page = PageCount + 1
    /\ at = "archive" => manifest = items

\* The page on its way is a finished one, and its blobs are of this release up to `leg'.
Transfer ==
    cloud /\ at # "off" =>
        /\ sent <= Len(items)
        /\ leg # "png" => sent < Len(items) /\ saved.png[sent + 1] = release
        /\ leg = "json" => saved.html[sent + 1] = release

\* No checkpoint is of a release to come, and none of this release that was saved is missing
\* from the folder of a cloud execution, which is empty between two of them.
Checkpoints ==
    /\ \A p \in Pages : mark[p] # None => mark[p] <= release
    /\ \A p \in Pages : saved.mark[p] # None => saved.mark[p] <= release
    /\ cloud /\ at # "off" => \A p \in Pages : saved.mark[p] = release => mark[p] = release
    /\ cloud /\ at = "off" => png = NoFiles

-----------------------------------------------------------------------------
\* What the next attempt will find.
Kept == IF cloud THEN saved ELSE Here

\* The book of a conversion by release r that nothing interrupts.
FromNothing(r) ==
    LET all == [p \in Pages |-> r]
    IN [files |-> [png |-> all, html |-> all, mark |-> all], items |-> all]

\* All of the book that the conversion makes is as from nothing; the cloud's holds nothing else.
BookOf(r) == book.made = FromNothing(r) /\ (cloud => book.others = {})

\* However often a conversion was killed or failed and whatever release each attempt was of,
\* what it puts in the book is what the last attempt would have made from nothing: no torn
\* page, none of another release, none missing or out of place ("a partial page is safely
\* regenerated", cloud_job.py:19; the checkpoint test at converter.py:125).  Beside it the
\* archive may hold files of builds, and in the cloud it never does.
BookAsFromNothing ==
    /\ book # None => \E r \in Releases : BookOf(r)
    /\ at \in {"publish", "done"} => BookOf(release)

\* "Portable ZIP with an HTML index, individual HTML pages, PNG assets, extracted/OCR text and a
\* versioned manifest" (README.md:31): no other file is in the archive.
OnlyTheBook == book # None => book.others = {}

\* A finished page on the volume, or among the blobs, is never made again by the same release:
\* an attempt that is interrupted costs the page at work, in the cloud those not yet copied
\* ("Checkpoints allow page reuse on retry", deploy/azure/README.md:31).
FinishedPagesKept ==
    [][ \A p \in Pages : Kept.mark[p] = release /\ release' = release => png'[p] # Torn ]_convVars

IInv ==
    /\ TypeOK
    /\ Truthful(Here) /\ Truthful(saved)
    /\ InHand /\ Progress /\ Transfer /\ Checkpoints
    /\ BookAsFromNothing
=============================================================================
