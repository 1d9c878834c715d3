------------------------ MODULE PageConversionProofs ------------------------
(***************************************************************************)
(* Proofs about PageConversion: for any number of pages, of releases and of *)
(* interrupted attempts, on the volume and in the cloud, what a conversion  *)
(* puts in the book is what an uninterrupted one would have made, and no    *)
(* release makes a finished page twice.                                     *)
(*                                                                         *)
(* IInv is inductive.  What a checkpoint says holds of the release that may *)
(* believe it only; Checkpoints keeps an upgrade from believing one.        *)
(*                                                                         *)
(* The second part is about PageBuilds, the interactive pages made of the   *)
(* same book: no page is shown half written, lost before it is renamed, or  *)
(* paid for by a client, while the batch and a reader do not write it at    *)
(* once; and builds change nothing of what the conversion makes.            *)
(***************************************************************************)
EXTENDS PageBuilds, TLAPS

LEMMA Contained ==
    /\ None \in Contents /\ Torn \in Contents /\ Releases \subseteq Contents
    /\ None \notin Releases /\ Torn \notin Releases /\ None # Torn
    /\ 1 \in Releases /\ Releases \subseteq Nat
    /\ PageCount \in Nat /\ 1 \in Pages
BY ContentAssumption, ReleaseAssumption, PageCountAssumption DEF Contents, Releases, Pages

LEMMA NoFilesTyped ==
    /\ NoFiles \in PageFiles /\ NoFiles \in [Pages -> {None} \cup Releases]
    /\ \A p \in Pages : NoFiles[p] = None
    /\ NoPages \in Copies
    /\ NoPages.png = NoFiles /\ NoPages.html = NoFiles /\ NoPages.mark = NoFiles
BY Contained DEF NoFiles, NoPages, PageFiles, Copies

LEMMA InitOK == Init => IInv
<1> SUFFICES ASSUME Init PROVE IInv
  OBVIOUS
<1> USE Contained, NoFilesTyped
<1>1. TypeOK
  BY PageCountAssumption, ReleaseAssumption DEF Init, TypeOK
<1>2. Truthful(Here) /\ Truthful(saved)
  BY DEF Init, Truthful, Here
<1>3. InHand /\ Progress /\ Transfer /\ Checkpoints /\ BookAsFromNothing
  BY DEF Init, InHand, Progress, Transfer, Checkpoints, BookAsFromNothing
<1> QED BY <1>1, <1>2, <1>3 DEF IInv

-----------------------------------------------------------------------------
(* convert()                                                               *)

LEMMA BeginKeeps == ASSUME IInv, Begin PROVE IInv'
<1> USE Contained, NoFilesTyped
<1>0. UNCHANGED <<cloud, release, book, saved, stops>>
  BY DEF Begin
<1>1. TypeOK'
  BY PageCountAssumption DEF IInv, TypeOK, Begin, Copies, folder
<1>2. Truthful(saved)' /\ Truthful(Here)'
  BY <1>0 DEF IInv, Begin, Truthful, Here, folder
<1>3. InHand'
  BY DEF Begin, InHand
<1>4. Progress' /\ Transfer'
  BY DEF Begin, Progress, Transfer
<1>5. Checkpoints'
  BY <1>0 DEF IInv, Begin, Checkpoints, folder
<1>6. BookAsFromNothing'
  BY <1>0 DEF IInv, Begin, BookAsFromNothing, BookOf, FromNothing
<1> QED BY <1>1, <1>2, <1>3, <1>4, <1>5, <1>6 DEF IInv

\* A page is done: the one at work joins the list.
LEMMA PageDoneKeeps ==
    ASSUME IInv, PageDone(release), at # "off", page \in Pages, Len(items) = page - 1,
           \A p \in 1..(page - 1) : items[p] = release /\ mark'[p] = release,
           mark'[page] = release
    PROVE  Progress' /\ Transfer' /\ InHand' /\ BookAsFromNothing'
           /\ page' \in 1..(PageCount + 1) /\ items' \in Seq(Releases)
<1> USE Contained
<1>0. /\ items' = Append(items, release) /\ page' = page + 1 /\ at' = "check"
      /\ UNCHANGED <<cloud, release, manifest, book, saved, sent, leg, stops>>
  BY DEF PageDone, Working
<1>1. items \in Seq(Releases) /\ release \in Releases /\ page \in 1..PageCount /\ sent \in 0..PageCount
  BY DEF IInv, TypeOK, Pages
<1>2. /\ items' \in Seq(Releases) /\ Len(items') = Len(items) + 1 /\ items'[page] = release
      /\ \A p \in 1..(page - 1) : items'[p] = items[p]
  BY <1>0, <1>1
<1>3. Progress'
  BY <1>0, <1>1, <1>2 DEF Progress
<1>4. Transfer'
  BY <1>0, <1>1, <1>2 DEF IInv, Transfer
<1>5. InHand' /\ BookAsFromNothing'
  BY <1>0 DEF IInv, InHand, BookAsFromNothing, BookOf, FromNothing
<1> QED BY <1>0, <1>1, <1>2, <1>3, <1>4, <1>5

LEMMA ReuseKeeps == ASSUME IInv, Reuse PROVE IInv'
<1> USE Contained
<1>0. /\ at = "check" /\ page \in Pages /\ mark[page] = release
      /\ PageDone(release) /\ UNCHANGED <<png, html, mark>>
  BY DEF Reuse, Resumable, folder
<1>1. Len(items) = page - 1 /\ (\A p \in 1..(page - 1) : items[p] = release /\ mark'[p] = release)
  BY <1>0 DEF IInv, Progress
<1>2. /\ Progress' /\ Transfer' /\ InHand' /\ BookAsFromNothing'
      /\ page' \in 1..(PageCount + 1) /\ items' \in Seq(Releases)
  BY <1>0, <1>1, PageDoneKeeps
<1>3. at' = "check" /\ UNCHANGED <<cloud, release, saved, sent, leg, stops>>
  BY <1>0 DEF PageDone, Working
<1>4. TypeOK'
  BY <1>0, <1>2, <1>3 DEF IInv, TypeOK
<1>5. Truthful(Here)' /\ Truthful(saved)'
  BY <1>0, <1>3 DEF IInv, Truthful, Here
<1>6. Checkpoints'
  BY <1>0, <1>3 DEF IInv, Checkpoints
<1> QED BY <1>2, <1>4, <1>5, <1>6 DEF IInv

LEMMA CheckpointKeeps == ASSUME IInv, Checkpoint PROVE IInv'
<1> USE Contained
<1>0. /\ at = "mark" /\ page \in Pages /\ png[page] = release /\ html[page] = release
      /\ mark' = [mark EXCEPT ![page] = release]
      /\ PageDone(release) /\ UNCHANGED <<png, html>>
  BY DEF Checkpoint, IInv, InHand
<1>1. mark \in [Pages -> {None} \cup Releases] /\ release \in Releases /\ page \in 1..PageCount
  BY <1>0 DEF IInv, TypeOK, Pages
<1>2. /\ mark' \in [Pages -> {None} \cup Releases] /\ mark'[page] = release
      /\ \A p \in Pages \ {page} : mark'[p] = mark[p]
  BY <1>0, <1>1
<1>3. Len(items) = page - 1 /\ (\A p \in 1..(page - 1) : items[p] = release /\ mark'[p] = release)
  BY <1>0, <1>1, <1>2 DEF IInv, Progress, Pages
<1>4. /\ Progress' /\ Transfer' /\ InHand' /\ BookAsFromNothing'
      /\ page' \in 1..(PageCount + 1) /\ items' \in Seq(Releases)
  BY <1>0, <1>2, <1>3, PageDoneKeeps
<1>5. at' = "check" /\ UNCHANGED <<cloud, release, saved, sent, leg, stops>>
  BY <1>0 DEF PageDone, Working
<1>6. TypeOK'
  BY <1>0, <1>2, <1>4, <1>5 DEF IInv, TypeOK
<1>7. Truthful(Here)' /\ Truthful(saved)'
  <2>1. \A p \in Pages : mark'[p] = release => png[p] = release /\ html[p] = release
    BY <1>0, <1>2 DEF IInv, Truthful, Here
  <2> QED BY <1>0, <1>5, <2>1 DEF IInv, Truthful, Here
<1>8. Checkpoints'
  BY <1>0, <1>1, <1>2, <1>5 DEF IInv, Checkpoints
<1> QED BY <1>4, <1>6, <1>7, <1>8 DEF IInv

\* Draw, Drawn, OpenPage and WritePage touch the files of one page, which has no checkpoint.
LEMMA DrawKeeps == ASSUME IInv, Draw PROVE IInv'
<1> USE Contained
<1>0. /\ at = "check" /\ page \in Pages /\ at' = "draw"
      /\ png' = [png EXCEPT ![page] = Torn]
      /\ UNCHANGED <<cloud, release, manifest, book, saved, sent, leg, stops, page, html, mark, items>>
  BY DEF Draw, Working
<1>1. mark[page] # release
  <2>1. ~Resumable
    BY DEF Draw
  <2>2. mark[page] = release => png[page] = release /\ html[page] = release
    BY <1>0 DEF IInv, Truthful, Here
  <2> QED BY <2>1, <2>2 DEF Resumable, IInv, TypeOK
<1>2. TypeOK'
  BY <1>0 DEF IInv, TypeOK, PageFiles
<1>3. Truthful(Here)' /\ Truthful(saved)'
  BY <1>0, <1>1 DEF IInv, TypeOK, PageFiles, Truthful, Here
<1>4. InHand'
  BY <1>0, <1>1 DEF InHand
<1>5. Progress' /\ Transfer' /\ Checkpoints' /\ BookAsFromNothing'
  BY <1>0 DEF IInv, Progress, Transfer, Checkpoints, BookAsFromNothing, BookOf, FromNothing
<1> QED BY <1>2, <1>3, <1>4, <1>5 DEF IInv

LEMMA DrawnKeeps == ASSUME IInv, Drawn PROVE IInv'
<1> USE Contained
<1>0. /\ at = "draw" /\ page \in Pages /\ at' = "drawn" /\ mark[page] # release
      /\ png' = [png EXCEPT ![page] = release]
      /\ UNCHANGED <<cloud, release, manifest, book, saved, sent, leg, stops, page, html, mark, items>>
  BY DEF Drawn, Working, IInv, InHand
<1>1. TypeOK'
  BY <1>0 DEF IInv, TypeOK, PageFiles, Contents
<1>2. Truthful(Here)' /\ Truthful(saved)'
  BY <1>0 DEF IInv, TypeOK, PageFiles, Truthful, Here
<1>3. InHand'
  BY <1>0 DEF InHand, IInv, TypeOK, PageFiles
<1>4. Progress' /\ Transfer' /\ Checkpoints' /\ BookAsFromNothing'
  BY <1>0 DEF IInv, Progress, Transfer, Checkpoints, BookAsFromNothing, BookOf, FromNothing
<1> QED BY <1>1, <1>2, <1>3, <1>4 DEF IInv

LEMMA OpenPageKeeps == ASSUME IInv, OpenPage PROVE IInv'
<1> USE Contained
<1>0. /\ at = "drawn" /\ page \in Pages /\ at' = "write" /\ mark[page] # release /\ png[page] = release
      /\ html' = [html EXCEPT ![page] = Torn]
      /\ UNCHANGED <<cloud, release, manifest, book, saved, sent, leg, stops, page, png, mark, items>>
  BY DEF OpenPage, Working, IInv, InHand
<1>1. TypeOK'
  BY <1>0 DEF IInv, TypeOK, PageFiles
<1>2. Truthful(Here)' /\ Truthful(saved)'
  BY <1>0 DEF IInv, TypeOK, PageFiles, Truthful, Here
<1>3. InHand'
  BY <1>0 DEF InHand
<1>4. Progress' /\ Transfer' /\ Checkpoints' /\ BookAsFromNothing'
  BY <1>0 DEF IInv, Progress, Transfer, Checkpoints, BookAsFromNothing, BookOf, FromNothing
<1> QED BY <1>1, <1>2, <1>3, <1>4 DEF IInv

LEMMA WritePageKeeps == ASSUME IInv, WritePage PROVE IInv'
<1> USE Contained
<1>0. /\ at = "write" /\ page \in Pages /\ at' = "mark" /\ mark[page] # release /\ png[page] = release
      /\ html' = [html EXCEPT ![page] = release]
      /\ UNCHANGED <<cloud, release, manifest, book, saved, sent, leg, stops, page, png, mark, items>>
  BY DEF WritePage, Working, IInv, InHand
<1>1. TypeOK'
  BY <1>0 DEF IInv, TypeOK, PageFiles, Contents
<1>2. Truthful(Here)' /\ Truthful(saved)'
  BY <1>0 DEF IInv, TypeOK, PageFiles, Truthful, Here
<1>3. InHand'
  BY <1>0 DEF InHand, IInv, TypeOK, PageFiles
<1>4. Progress' /\ Transfer' /\ Checkpoints' /\ BookAsFromNothing'
  BY <1>0 DEF IInv, Progress, Transfer, Checkpoints, BookAsFromNothing, BookOf, FromNothing
<1> QED BY <1>1, <1>2, <1>3, <1>4 DEF IInv

LEMMA WriteManifestKeeps == ASSUME IInv, WriteManifest PROVE IInv'
<1> USE Contained
<1>0. /\ at = "check" /\ page = PageCount + 1 /\ at' = "archive" /\ manifest' = items
      /\ UNCHANGED <<cloud, release, page, png, html, mark, items, book, saved, sent, leg, stops>>
  BY DEF WriteManifest, IInv, TypeOK, Pages, folder
<1>1. TypeOK' /\ Truthful(Here)' /\ Truthful(saved)' /\ InHand'
  BY <1>0 DEF IInv, TypeOK, Truthful, Here, InHand
<1>2. Progress' /\ Transfer' /\ Checkpoints' /\ BookAsFromNothing'
  BY <1>0 DEF IInv, Progress, Transfer, Checkpoints, BookAsFromNothing, BookOf, FromNothing
<1> QED BY <1>1, <1>2 DEF IInv

\* Every page is done, so every file is of this release.
LEMMA PublishKeeps == ASSUME IInv, NEW others, Publish(others) PROVE IInv'
<1> USE Contained
<1>0. /\ at = "archive" /\ at' = "publish" /\ (cloud => others = {})
      /\ book' = [made |-> [files |-> Here, items |-> manifest], others |-> others]
      /\ UNCHANGED <<cloud, release, page, png, html, mark, items, manifest, saved, sent, leg, stops>>
  BY DEF Publish, folder
<1>1. /\ manifest = items /\ Len(items) = PageCount /\ items \in Seq(Releases)
      /\ \A p \in Pages : items[p] = release /\ mark[p] = release
  BY <1>0 DEF IInv, TypeOK, Progress, Pages
<1>2. \A p \in Pages : png[p] = release /\ html[p] = release
  BY <1>1 DEF IInv, Truthful, Here
<1> DEFINE all == [p \in Pages |-> release]
<1>3. items = all
  <2>1. items = [p \in 1..Len(items) |-> items[p]]
    BY <1>1
  <2> QED BY <1>1, <2>1 DEF Pages
<1>4. png = all /\ html = all /\ mark = all
  <2>1. /\ png = [p \in Pages |-> png[p]] /\ html = [p \in Pages |-> html[p]]
        /\ mark = [p \in Pages |-> mark[p]]
    BY DEF IInv, TypeOK, PageFiles
  <2> QED BY <1>1, <1>2, <2>1
<1>5. book'.made = FromNothing(release) /\ book'.others = others /\ release \in Releases
  BY <1>0, <1>1, <1>3, <1>4 DEF FromNothing, Here, IInv, TypeOK
<1>6. FromNothing(release)' = FromNothing(release)
  BY <1>0 DEF FromNothing
<1>7. BookAsFromNothing'
  BY <1>0, <1>5, <1>6 DEF BookAsFromNothing, BookOf, FromNothing
<1>8. TypeOK' /\ Truthful(Here)' /\ Truthful(saved)' /\ InHand'
  BY <1>0 DEF IInv, TypeOK, Truthful, Here, InHand
<1>9. Progress' /\ Transfer' /\ Checkpoints'
  BY <1>0 DEF IInv, Progress, Transfer, Checkpoints
<1> QED BY <1>7, <1>8, <1>9 DEF IInv

LEMMA FinishKeeps == ASSUME IInv, Finish PROVE IInv'
<1>0. /\ at = "publish" /\ at' = "done"
      /\ UNCHANGED <<cloud, release, page, png, html, mark, items, manifest, book, saved, sent, leg, stops>>
  BY DEF Finish, folder
<1>1. TypeOK' /\ Truthful(Here)' /\ Truthful(saved)' /\ InHand'
  BY <1>0 DEF IInv, TypeOK, Truthful, Here, InHand
<1>2. Progress' /\ Transfer' /\ Checkpoints' /\ BookAsFromNothing'
  BY <1>0 DEF IInv, Progress, Transfer, Checkpoints, BookAsFromNothing, BookOf, FromNothing
<1> QED BY <1>1, <1>2 DEF IInv

-----------------------------------------------------------------------------
(* transfer_checkpoints(), and what ends an attempt.                       *)

LEMMA SendKeeps == ASSUME IInv, Send PROVE IInv'
<1> USE Contained
<1> DEFINE p == sent + 1
<1>0. /\ cloud /\ at \notin {"off", "done"} /\ sent < Len(items)
      /\ UNCHANGED <<cloud, release, at, page, png, html, mark, items, manifest, book, stops>>
  BY DEF Send, Sendable, folder
<1>1. /\ p \in Pages /\ p \in 1..(page - 1) /\ sent \in Nat /\ release \in Releases
      /\ saved \in Copies /\ leg \in {"png", "html", "json"}
  BY <1>0 DEF IInv, TypeOK, Progress, Pages
<1>2. mark[p] = release /\ png[p] = release /\ html[p] = release
  BY <1>0, <1>1 DEF IInv, Progress, Truthful, Here
<1> HIDE DEF p
<1>3. CASE leg = "png"
  <2>1. saved' = [saved EXCEPT !.png = [@ EXCEPT ![p] = release]] /\ leg' = "html" /\ sent' = sent
    BY <1>2, <1>3 DEF Send, p
  <2>2. /\ saved' \in Copies /\ saved'.html = saved.html /\ saved'.mark = saved.mark
        /\ saved'.png[p] = release /\ \A q \in Pages \ {p} : saved'.png[q] = saved.png[q]
    BY <1>1, <2>1 DEF Copies, PageFiles, Contents
  <2>3. Truthful(saved)'
    BY <1>0, <2>2 DEF IInv, Truthful
  <2>4. Transfer'
    BY <1>0, <2>1, <2>2 DEF IInv, Transfer, p
  <2>5. TypeOK' /\ Truthful(Here)' /\ InHand'
    BY <1>0, <2>1, <2>2 DEF IInv, TypeOK, Truthful, Here, InHand
  <2>6. Progress' /\ Checkpoints' /\ BookAsFromNothing'
    BY <1>0, <2>1, <2>2 DEF IInv, Progress, Checkpoints, BookAsFromNothing, BookOf, FromNothing
  <2> QED BY <2>3, <2>4, <2>5, <2>6 DEF IInv
<1>4. CASE leg = "html"
  <2>1. saved' = [saved EXCEPT !.html = [@ EXCEPT ![p] = release]] /\ leg' = "json" /\ sent' = sent
    BY <1>2, <1>4 DEF Send, p
  <2>2. /\ saved' \in Copies /\ saved'.png = saved.png /\ saved'.mark = saved.mark
        /\ saved'.html[p] = release /\ \A q \in Pages \ {p} : saved'.html[q] = saved.html[q]
    BY <1>1, <2>1 DEF Copies, PageFiles, Contents
  <2>3. Truthful(saved)'
    BY <1>0, <2>2 DEF IInv, Truthful
  <2>4. Transfer'
    BY <1>0, <1>4, <2>1, <2>2 DEF IInv, Transfer, p
  <2>5. TypeOK' /\ Truthful(Here)' /\ InHand'
    BY <1>0, <2>1, <2>2 DEF IInv, TypeOK, Truthful, Here, InHand
  <2>6. Progress' /\ Checkpoints' /\ BookAsFromNothing'
    BY <1>0, <2>1, <2>2 DEF IInv, Progress, Checkpoints, BookAsFromNothing, BookOf, FromNothing
  <2> QED BY <2>3, <2>4, <2>5, <2>6 DEF IInv
<1>5. CASE leg = "json"
  <2>1. saved' = [saved EXCEPT !.mark = [@ EXCEPT ![p] = release]] /\ leg' = "png" /\ sent' = p
    BY <1>2, <1>5 DEF Send, p
  <2>2. /\ saved' \in Copies /\ saved'.png = saved.png /\ saved'.html = saved.html
        /\ saved'.mark[p] = release /\ \A q \in Pages \ {p} : saved'.mark[q] = saved.mark[q]
    BY <1>1, <2>1 DEF Copies, PageFiles, Contents
  <2>3. saved.png[p] = release /\ saved.html[p] = release
    BY <1>0, <1>5 DEF IInv, Transfer, p
  <2>4. Truthful(saved)'
    BY <1>0, <2>2, <2>3 DEF IInv, Truthful
  <2>5. Transfer'
    BY <1>0, <1>1, <2>1 DEF IInv, TypeOK, Transfer, p
  <2>6. TypeOK' /\ Truthful(Here)' /\ InHand'
    BY <1>0, <1>1, <2>1, <2>2 DEF IInv, TypeOK, Truthful, Here, InHand, Pages
  <2>7. Progress' /\ BookAsFromNothing'
    BY <1>0, <2>1, <2>2 DEF IInv, Progress, BookAsFromNothing, BookOf, FromNothing
  <2>8. Checkpoints'
    BY <1>0, <1>1, <1>2, <2>2 DEF IInv, Checkpoints
  <2> QED BY <2>4, <2>5, <2>6, <2>7, <2>8 DEF IInv
<1> QED BY <1>1, <1>3, <1>4, <1>5

LEMMA StopKeeps == ASSUME IInv, Stop PROVE IInv'
<1> USE Contained, NoFilesTyped, ReleaseAssumption
<1>0. at' = "off" /\ UNCHANGED <<cloud, release, page, items, book, saved, sent, leg>>
  BY DEF Stop
<1>1. /\ cloud => png' = NoFiles /\ html' = NoFiles /\ mark' = NoFiles
      /\ ~cloud => UNCHANGED <<png, html, mark>>
  BY DEF Stop, folder
<1>2. TypeOK'
  BY <1>0, <1>1 DEF Stop, IInv, TypeOK
<1>3. Truthful(Here)' /\ Truthful(saved)'
  BY <1>0, <1>1 DEF IInv, TypeOK, Truthful, Here
<1>4. InHand' /\ Progress' /\ Transfer' /\ BookAsFromNothing'
  BY <1>0 DEF IInv, InHand, Progress, Transfer, BookAsFromNothing, BookOf, FromNothing
<1>5. Checkpoints'
  BY <1>0, <1>1 DEF IInv, Checkpoints
<1> QED BY <1>2, <1>3, <1>4, <1>5 DEF IInv

\* No checkpoint is of the new release yet.
LEMMA UpgradeKeeps == ASSUME IInv, Upgrade PROVE IInv'
<1> USE Contained, ReleaseAssumption
<1>0. /\ at = "off" /\ release' = release + 1 /\ release < MaxRelease
      /\ UNCHANGED <<cloud, at, page, png, html, mark, items, manifest, book, saved, sent, leg, stops>>
  BY DEF Upgrade, folder
<1>1. release \in Nat /\ release' \in Releases
  BY <1>0 DEF IInv, TypeOK, Releases
<1>2. \A p \in Pages : mark[p] # release' /\ saved.mark[p] # release'
  BY <1>0, <1>1 DEF IInv, TypeOK, Checkpoints
<1>3. TypeOK'
  BY <1>0, <1>1 DEF IInv, TypeOK
<1>4. Truthful(Here)' /\ Truthful(saved)'
  BY <1>0, <1>2 DEF Truthful, Here
<1>5. InHand' /\ Progress' /\ Transfer' /\ BookAsFromNothing'
  BY <1>0 DEF IInv, InHand, Progress, Transfer, BookAsFromNothing, BookOf, FromNothing
<1>6. Checkpoints'
  <2>1. \A p \in Pages : /\ mark[p] \in {None} \cup Nat /\ saved.mark[p] \in {None} \cup Nat
                         /\ mark[p] # None => mark[p] <= release
                         /\ saved.mark[p] # None => saved.mark[p] <= release
    BY DEF IInv, TypeOK, Copies, Checkpoints
  <2>2. \A p \in Pages : /\ mark[p] # None => mark[p] <= release'
                         /\ saved.mark[p] # None => saved.mark[p] <= release'
    BY <1>0, <1>1, <2>1, ContentAssumption
  <2> QED BY <1>0, <2>2 DEF IInv, Checkpoints
<1> QED BY <1>3, <1>4, <1>5, <1>6 DEF IInv

-----------------------------------------------------------------------------
LEMMA StutterKeeps == ASSUME IInv, UNCHANGED convVars PROVE IInv'
<1>0. UNCHANGED <<cloud, release, at, page, png, html, mark, items, manifest, book, saved, sent, leg, stops>>
  BY DEF convVars, folder
<1>1. TypeOK' /\ Truthful(Here)' /\ Truthful(saved)' /\ InHand'
  BY <1>0 DEF IInv, TypeOK, Truthful, Here, InHand
<1>2. Progress' /\ Transfer' /\ Checkpoints' /\ BookAsFromNothing'
  BY <1>0 DEF IInv, Progress, Transfer, Checkpoints, BookAsFromNothing, BookOf, FromNothing
<1> QED BY <1>1, <1>2 DEF IInv

LEMMA StepOK == IInv /\ [Next]_convVars => IInv'
BY BeginKeeps, ReuseKeeps, DrawKeeps, DrawnKeeps, OpenPageKeeps, WritePageKeeps, CheckpointKeeps,
   WriteManifestKeeps, PublishKeeps, FinishKeeps, SendKeeps, StopKeeps, UpgradeKeeps, StutterKeeps
   DEF Next, Step, Convert

\* Files, checkpoints and what was transferred keep their types, for any number of pages,
\* releases and stops.
THEOREM TypeCorrect == Spec => []TypeOK
<1>1. IInv => TypeOK
  BY DEF IInv
<1> QED BY <1>1, InitOK, StepOK, PTL DEF Spec

\* Whatever interrupts the attempts, and whatever else lies in the folder: what the conversion puts
\* in the book is what its last attempt would have made from nothing.
THEOREM BookIsAsFromNothing == Spec => []BookAsFromNothing
<1>1. IInv => BookAsFromNothing
  BY DEF IInv
<1> QED BY <1>1, InitOK, StepOK, PTL DEF Spec

\* A page whose checkpoint this release wrote is not drawn again.
LEMMA NotDrawnAgain ==
    ASSUME IInv, [Next]_convVars, NEW p \in Pages, Kept.mark[p] = release, release' = release
    PROVE  png'[p] # Torn
<1> USE Contained, NoFilesTyped
<1>0. release \in Releases /\ png \in PageFiles /\ saved \in Copies /\ mark \in [Pages -> {None} \cup Releases]
  BY DEF IInv, TypeOK
<1>1. /\ cloud => saved.mark[p] = release
      /\ ~cloud => mark[p] = release
  BY DEF Kept, Here
<1>2. cloud /\ at = "off" => png[p] = None /\ saved.png[p] = release
  BY <1>1 DEF IInv, Checkpoints, Truthful
<1>3. at # "off" \/ ~cloud => mark[p] = release /\ png[p] = release /\ html[p] = release
  BY <1>1 DEF IInv, Checkpoints, Truthful, Here
<1>4. png[p] # Torn
  BY <1>0, <1>2, <1>3
<1>5. CASE Begin
  BY <1>0, <1>1, <1>2, <1>4, <1>5 DEF Begin, folder
<1>6. CASE Draw
  <2>1. page # p
    BY <1>0, <1>3, <1>6 DEF Draw, Resumable
  <2> QED BY <1>0, <1>4, <1>6, <2>1 DEF Draw, PageFiles
<1>7. CASE Drawn
  BY <1>0, <1>4, <1>7 DEF Drawn, PageFiles
<1>8. CASE Stop
  BY <1>0, <1>4, <1>8 DEF Stop, folder
<1>9. CASE Reuse \/ OpenPage \/ WritePage \/ Checkpoint \/ WriteManifest \/ Finish \/ Send
           \/ Upgrade \/ UNCHANGED convVars \/ (\E others : Publish(others))
  <2>1. png' = png
    BY <1>9 DEF Reuse, OpenPage, WritePage, Checkpoint, WriteManifest, Publish, Finish, Send, Upgrade,
                PageDone, Working, folder, convVars
  <2> QED BY <1>4, <2>1
<1> QED BY <1>5, <1>6, <1>7, <1>8, <1>9 DEF Next, Step, Convert

\* An interruption costs the page at work, and in the cloud those that were not copied yet.
THEOREM FinishedPagesAreKept == Spec => FinishedPagesKept
<1>1. IInv /\ [Next]_convVars =>
        [\A p \in Pages : Kept.mark[p] = release /\ release' = release => png'[p] # Torn]_convVars
  BY NotDrawnAgain
<1> QED BY <1>1, InitOK, StepOK, PTL DEF Spec, FinishedPagesKept

-----------------------------------------------------------------------------
(* The interactive pages (PageBuilds), beside the conversion.               *)

\* Readers are at pages of the book, and so is the batch while it writes one.
AtPages ==
    \A t \in Threads : t \in Readers \/ thread[t].at \in {"open", "fill", "replace"} => thread[t].page \in Pages

\* Readers of one page take turns under its lock.
Turn == {"make", "open", "fill", "replace"}
Turns ==
    \A r, s \in Readers :
        /\ thread[r].at \in Turn /\ thread[s].at \in Turn
        /\ thread[r].page = thread[s].page
        => r = s

\* A writer nobody has joined is the only one of its page, and the .tmp is as it left it, or
\* was removed with the course.
Undisturbed(t) ==
    LET p == thread[t].page
    IN \/ thread[t].file = "tmp" /\ tmp[p] = (IF thread[t].at = "fill" THEN Empty ELSE Whole)
       \/ thread[t].file = "lost" /\ tmp[p] = None /\ removed
Alone == \A p \in Pages : \A t \in Writers(p) : sole[p] = t => Writers(p) = {t} /\ Undisturbed(t)

\* A page that is not spoilt is whole, and who writes it is alone.
Unspoilt == \A p \in Pages \ spoilt : inter[p] \in {None, Whole} /\ \A t \in Writers(p) : sole[p] = t

\* A client whose request was accepted found a page, which stays until the course is removed.
Found ==
    \A r \in Readers :
        thread[r].at \in {"load", "lock"} /\ ~thread[r].admin => inter[thread[r].page] # None \/ removed

BInv == BuildTypeOK /\ AtPages /\ Turns /\ Alone /\ Unspoilt /\ Found

ThreadStates ==
    [at : {"idle", "load", "lock", "begin", "make", "open", "fill", "replace", "report", "raised", "leave"},
     page : Nat, admin : BOOLEAN, file : {"none", "tmp", "json", "lost"}, failed : BOOLEAN]
Statuses == {"idle", "building", "done", "partial", "error", "interrupted"}

\* The types that a step of a thread may change.
Counted ==
    /\ status \in Statuses /\ running \in BOOLEAN /\ asked \in BOOLEAN /\ removed \in BOOLEAN
    /\ requests \in 0..MaxRequests /\ crashes \in 0..MaxCrashes

LEMMA BuildTypes ==
    BuildTypeOK <=> /\ TypeOK /\ Counted
                    /\ inter \in PagesOf /\ tmp \in PagesOf
                    /\ thread \in [Threads -> ThreadStates]
                    /\ sole \in [Pages -> Threads \cup {Nobody}] /\ spoilt \subseteq Pages
BY DEF BuildTypeOK, Counted, ThreadStates, Statuses

LEMMA IdleTyped == Idle \in ThreadStates /\ Idle.at = "idle" /\ Idle.page = 1 /\ Idle.file = "none" /\ 1 \in Pages
BY PageCountAssumption DEF Idle, ThreadStates, Pages

\* A thread at another step and file.
LEMMA Rewritten ==
    ASSUME NEW u \in ThreadStates, NEW step, NEW file \in {"none", "tmp", "json", "lost"},
           step \in {"idle", "load", "lock", "begin", "make", "open", "fill", "replace", "report", "raised", "leave"}
    PROVE  /\ [u EXCEPT !.at = step, !.file = file] \in ThreadStates
           /\ [u EXCEPT !.at = step, !.file = file].at = step
<1>1. [u EXCEPT !.at = step] \in ThreadStates
  BY DEF ThreadStates
<1>2. \A v \in ThreadStates : [v EXCEPT !.file = file] \in ThreadStates
  BY DEF ThreadStates
<1>3. [u EXCEPT !.at = step, !.file = file].at = step
  BY DEF ThreadStates
<1> QED BY <1>1, <1>2, <1>3

LEMMA BuildInitOK == BuildInit => BInv
<1> SUFFICES ASSUME BuildInit PROVE BInv
  OBVIOUS
<1>1. TypeOK
  BY InitOK DEF BuildInit, IInv
<1>2. BuildTypeOK
  <2>1. Counted
    <3>1. running \in BOOLEAN /\ asked \in BOOLEAN /\ removed \in BOOLEAN
      BY Zenon DEF BuildInit
    <3>2. status \in Statuses /\ requests \in 0..MaxRequests /\ crashes \in 0..MaxCrashes
      BY RequestAssumption DEF BuildInit, Statuses
    <3> QED BY <3>1, <3>2 DEF Counted
  <2>2. inter \in PagesOf /\ tmp \in PagesOf /\ sole \in [Pages -> Threads \cup {Nobody}]
    BY DEF BuildInit, NoFiles, PagesOf
  <2>3. thread \in [Threads -> ThreadStates] /\ spoilt \subseteq Pages
    BY IdleTyped DEF BuildInit
  <2> QED BY <1>1, <2>1, <2>2, <2>3, BuildTypes
<1>3. \A t \in Threads : thread[t].at = "idle" /\ thread[t].page \in Pages
  BY IdleTyped DEF BuildInit
<1>4. \A p \in Pages : Writers(p) = {}
  BY <1>3 DEF Writers
<1>5. AtPages /\ Turns /\ Found
  BY <1>3 DEF AtPages, Turns, Turn, Found, Threads
<1>6. Alone /\ Unspoilt
  BY <1>4 DEF Alone, Unspoilt, BuildInit, NoFiles
<1> QED BY <1>2, <1>5, <1>6 DEF BInv

\* A step of a thread that writes nothing: at most it gets a page's lock that is free.
LEMMA QuietThread ==
    ASSUME BInv, TypeOK', Counted', NEW t \in Threads, NEW u \in ThreadStates,
           thread' = [thread EXCEPT ![t] = u],
           UNCHANGED <<inter, tmp, sole, spoilt, removed>>,
           u.at \notin {"fill", "replace"},
           t \in Readers \/ u.at = "open" => u.page \in Pages,
           t \in Readers /\ u.at \in Turn => \/ thread[t].at \in Turn /\ thread[t].page = u.page
                                             \/ ~Locked(u.page),
           t \in Readers /\ u.at \in {"load", "lock"} /\ ~u.admin => inter[u.page] # None \/ removed
    PROVE  BInv'
<1>0. thread \in [Threads -> ThreadStates] /\ Readers \subseteq Threads
  BY BuildTypes DEF BInv, Threads
<1>1. thread'[t] = u /\ \A v \in Threads \ {t} : thread'[v] = thread[v]
  BY <1>0
<1>2. BuildTypeOK'
  BY <1>0, BuildTypes DEF BInv, BuildTypeOK, ThreadStates, Counted, Statuses
<1>3. AtPages'
  BY <1>1 DEF BInv, AtPages
<1>4. Turns'
  <2>1. \A r \in Readers : thread[r].at \in Turn => Locked(thread[r].page)
    BY DEF Locked, Turn
  <2> QED BY <1>0, <1>1, <2>1 DEF BInv, Turns
<1>5. \A p \in Pages : Writers(p)' = Writers(p) \ {t}
  BY <1>0, <1>1 DEF Writers
<1>6. Alone'
  <2> SUFFICES ASSUME NEW p \in Pages, NEW v \in Writers(p)', sole'[p] = v
               PROVE  Writers(p)' = {v} /\ Undisturbed(v)'
    BY DEF Alone
  <2>1. v \in Writers(p) /\ v # t /\ v \in Threads /\ thread'[v] = thread[v]
    BY <1>1, <1>5 DEF Writers
  <2>2. Writers(p) = {v} /\ Undisturbed(v)
    BY <2>1 DEF BInv, Alone
  <2> QED BY <1>5, <2>1, <2>2 DEF Undisturbed
<1>7. Unspoilt'
  BY <1>5 DEF BInv, Unspoilt
<1>8. Found'
  BY <1>0, <1>1 DEF BInv, Found
<1> QED BY <1>2, <1>3, <1>4, <1>6, <1>7, <1>8 DEF BInv

\* Writing what another writer may have renamed, or what is gone.
LEMMA FillKeeps == ASSUME BInv, TypeOK', NEW t \in Threads, Fill(t) PROVE BInv'
<1>0. /\ thread \in [Threads -> ThreadStates] /\ Readers \subseteq Threads
      /\ inter \in PagesOf /\ tmp \in PagesOf /\ Counted
  BY BuildTypes DEF BInv, Threads
<1>1. PICK p \in Pages : p = thread[t].page
  BY DEF BInv, AtPages, Fill
<1>2. /\ thread[t].at = "fill" /\ thread' = [thread EXCEPT ![t] = [@ EXCEPT !.at = "replace"]]
      /\ UNCHANGED <<status, running, asked, removed, requests, crashes, sole, spoilt>>
  BY DEF Fill, Goes
<1>3. /\ thread'[t] = [thread[t] EXCEPT !.at = "replace"]
      /\ \A v \in Threads \ {t} : thread'[v] = thread[v]
      /\ thread' \in [Threads -> ThreadStates]
  <2>1. [thread[t] EXCEPT !.at = "replace"] \in ThreadStates
    BY <1>0 DEF ThreadStates
  <2> QED BY <1>0, <1>2, <2>1
<1>4. \A v \in Threads : /\ thread'[v].page = thread[v].page
                         /\ thread'[v].file = thread[v].file
                         /\ thread'[v].admin = thread[v].admin
                         /\ thread'[v].at = thread[v].at \/ (v = t /\ thread'[v].at = "replace")
  BY <1>0, <1>3 DEF ThreadStates
<1>6. /\ inter' \in PagesOf /\ tmp' \in PagesOf
      /\ \A q \in Pages \ {p} : inter'[q] = inter[q] /\ tmp'[q] = tmp[q]
      /\ inter'[p] \in {inter[p], Whole, Garbled}
      /\ thread[t].file # "json" => inter' = inter
      /\ thread[t].file = "tmp" /\ tmp[p] = Empty => tmp'[p] = Whole
      /\ thread[t].file = "lost" => tmp' = tmp
  <2>1. CASE thread[t].file = "tmp"
    <3>1. PICK c \in Written(tmp[p]) : tmp' = [tmp EXCEPT ![p] = c]
      BY <1>1, <2>1 DEF Fill
    <3>2. inter' = inter
      BY <2>1 DEF Fill
    <3> QED BY <1>0, <2>1, <3>1, <3>2 DEF Written, PagesOf
  <2>2. CASE thread[t].file = "json"
    <3>1. PICK c \in Written(inter[p]) : inter' = [inter EXCEPT ![p] = c]
      BY <1>1, <2>2 DEF Fill
    <3>2. tmp' = tmp
      BY <2>2 DEF Fill
    <3> QED BY <1>0, <2>2, <3>1, <3>2 DEF Written, PagesOf
  <2>3. CASE thread[t].file \notin {"tmp", "json"}
    BY <1>0, <2>3 DEF Fill
  <2> QED BY <2>1, <2>2, <2>3
<1>7. BuildTypeOK'
  BY <1>0, <1>2, <1>3, <1>6, BuildTypes DEF BInv, BuildTypeOK, ThreadStates, Counted, Statuses
<1>8. AtPages' /\ Turns'
  BY <1>0, <1>2, <1>4 DEF BInv, AtPages, Turns, Turn
<1>9. \A q \in Pages : Writers(q)' = Writers(q)
  BY <1>0, <1>2, <1>4 DEF Writers
<1>10. t \in Writers(p)
  BY <1>1, <1>2 DEF Writers
<1>11. Alone'
  <2> SUFFICES ASSUME NEW q \in Pages, NEW v \in Writers(q)', sole'[q] = v
               PROVE  Writers(q)' = {v} /\ Undisturbed(v)'
    BY DEF Alone
  <2>1. v \in Writers(q) /\ v \in Threads /\ thread[v].page = q
    BY <1>9 DEF Writers
  <2>2. Writers(q) = {v} /\ Undisturbed(v)
    BY <1>2, <2>1 DEF BInv, Alone
  <2>3. CASE v = t
    BY <1>1, <1>2, <1>3, <1>4, <1>6, <1>9, <2>1, <2>2, <2>3 DEF Undisturbed
  <2>4. CASE v # t
    <3>1. q # p
      BY <1>10, <2>2, <2>4
    <3> QED BY <1>2, <1>3, <1>6, <1>9, <2>1, <2>2, <2>4, <3>1 DEF Undisturbed
  <2> QED BY <2>3, <2>4
<1>12. Unspoilt'
  <2>1. p \notin spoilt => inter' = inter
    BY <1>1, <1>6, <1>10 DEF BInv, Unspoilt, Alone, Undisturbed
  <2> QED BY <1>2, <1>6, <1>9, <2>1 DEF BInv, Unspoilt
<1>13. Found'
  <2>1. \A q \in Pages : inter[q] # None => inter'[q] # None
    BY <1>6, FileAssumption
  <2>2. \A r \in Readers : thread[r].page \in Pages
    BY <1>0 DEF BInv, AtPages
  <2> QED BY <1>0, <1>2, <1>4, <2>1, <2>2 DEF BInv, Found
<1> QED BY <1>7, <1>8, <1>11, <1>12, <1>13 DEF BInv

\* Opening the .tmp: alone, or with the writer of this page that is there.
LEMMA OpenKeeps == ASSUME BInv, TypeOK', NEW t \in Threads, Open(t) PROVE BInv'
<1>0. /\ thread \in [Threads -> ThreadStates] /\ Readers \subseteq Threads /\ Batch \in Threads
      /\ inter \in PagesOf /\ tmp \in PagesOf /\ Counted
      /\ sole \in [Pages -> Threads \cup {Nobody}] /\ spoilt \subseteq Pages
      /\ Threads = Readers \cup {Batch} /\ Nobody \notin Threads
  BY BuildTypes, ThreadAssumption DEF BInv, Threads
<1>1. PICK p \in Pages : p = thread[t].page
  BY DEF BInv, AtPages, Open
<1>2. /\ thread[t].at = "open" /\ Opened(t, p) /\ tmp' = [tmp EXCEPT ![p] = Empty]
      /\ thread' = [thread EXCEPT ![t] = [@ EXCEPT !.at = "fill", !.file = "tmp"]]
      /\ UNCHANGED <<inter, status, running, asked, removed, requests, crashes>>
  <2>1. thread' = [thread EXCEPT ![t].at = "fill", ![t].file = "tmp"]
    BY DEF Open
  <2>2. thread' = [thread EXCEPT ![t] = [@ EXCEPT !.at = "fill", !.file = "tmp"]]
    BY <1>0, <2>1 DEF ThreadStates
  <2> QED BY <1>1, <2>2 DEF Open
<1>3. /\ thread'[t] = [thread[t] EXCEPT !.at = "fill", !.file = "tmp"]
      /\ \A v \in Threads \ {t} : thread'[v] = thread[v]
      /\ thread' \in [Threads -> ThreadStates]
  <2>1. [thread[t] EXCEPT !.at = "fill", !.file = "tmp"] \in ThreadStates
    BY <1>0, Rewritten
  <2> QED BY <1>0, <1>2, <2>1
<1>4. /\ thread'[t].at = "fill" /\ thread'[t].file = "tmp" /\ thread'[t].page = p
      /\ thread'[t].admin = thread[t].admin
  BY <1>0, <1>1, <1>3 DEF ThreadStates
<1>5. /\ tmp' \in PagesOf /\ tmp'[p] = Empty /\ \A q \in Pages \ {p} : tmp'[q] = tmp[q]
  BY <1>0, <1>2 DEF PagesOf
<1>6. /\ Writers(p)' = Writers(p) \cup {t}
      /\ \A q \in Pages \ {p} : Writers(q)' = Writers(q)
  BY <1>0, <1>1, <1>2, <1>3, <1>4 DEF Writers
<1>7. /\ \A q \in Pages \ {p} : sole'[q] = sole[q] /\ (q \in spoilt' <=> q \in spoilt)
      /\ sole' \in [Pages -> Threads \cup {Nobody}] /\ spoilt' \subseteq Pages /\ spoilt \subseteq spoilt'
      /\ Writers(p) = {} => sole'[p] = t
      /\ Writers(p) # {} => sole'[p] = Nobody
  BY <1>0, <1>2 DEF Opened
<1>8. Writers(p) # {} => p \in spoilt'
  <2>1. \A r \in Writers(p) : r \in Readers /\ t \in Readers => FALSE
    BY <1>1, <1>2 DEF Writers, BInv, Turns, Turn
  <2>2. \A r \in Writers(p) : r \in Threads
    BY DEF Writers
  <2>3. Writers(p) # {} => Batch \in Writers(p) \cup {t}
    BY <1>0, <2>1, <2>2
  <2> QED BY <1>2, <2>3 DEF Opened
<1>9. BuildTypeOK'
  BY <1>0, <1>2, <1>3, <1>5, <1>7, BuildTypes DEF BInv, BuildTypeOK, ThreadStates, Counted, Statuses
<1>10. AtPages' /\ Turns'
  BY <1>0, <1>1, <1>2, <1>3, <1>4 DEF BInv, AtPages, Turns, Turn
<1>11. Alone'
  <2> SUFFICES ASSUME NEW q \in Pages, NEW v \in Writers(q)', sole'[q] = v
               PROVE  Writers(q)' = {v} /\ Undisturbed(v)'
    BY DEF Alone
  <2>1. CASE q = p
    <3>1. Writers(p) = {} /\ v = t
      BY <1>0, <1>7, <2>1 DEF Writers
    <3> QED BY <1>4, <1>5, <1>6, <2>1, <3>1 DEF Undisturbed
  <2>2. CASE q # p
    <3>1. v \in Writers(q) /\ v \in Threads /\ thread[v].page = q
      BY <1>6, <2>2 DEF Writers
    <3>2. Writers(q) = {v} /\ Undisturbed(v)
      BY <1>7, <2>2, <3>1 DEF BInv, Alone
    <3>3. v # t
      BY <1>1, <2>2, <3>1
    <3> QED BY <1>2, <1>3, <1>5, <1>6, <2>2, <3>1, <3>2, <3>3 DEF Undisturbed
  <2> QED BY <2>1, <2>2
<1>12. Unspoilt'
  BY <1>2, <1>6, <1>7, <1>8 DEF BInv, Unspoilt
<1>13. Found'
  BY <1>0, <1>2, <1>3, <1>4 DEF BInv, Found
<1> QED BY <1>9, <1>10, <1>11, <1>12, <1>13 DEF BInv

\* The rename: it takes the .tmp of whoever wrote it, and the file moves under others who have
\* it open.
LEMMA ReplaceKeeps == ASSUME BInv, TypeOK', NEW t \in Threads, Replace(t) PROVE BInv'
<1>0. /\ thread \in [Threads -> ThreadStates] /\ Readers \subseteq Threads /\ Batch \notin Readers
      /\ inter \in PagesOf /\ tmp \in PagesOf /\ Counted
      /\ sole \in [Pages -> Threads \cup {Nobody}] /\ spoilt \subseteq Pages
      /\ t # Batch => t \in Readers
  BY BuildTypes, ThreadAssumption DEF BInv, Threads
<1>1. PICK p \in Pages : p = thread[t].page
  BY DEF BInv, AtPages, Replace
<1>2. /\ thread[t].at = "replace" /\ t \in Writers(p)
      /\ UNCHANGED <<status, running, asked, removed, requests, crashes, sole>>
  BY <1>1 DEF Replace, Writers
<1>3. Counted'
  BY <1>0, <1>2 DEF Counted
<1>4. CASE tmp[p] = None
  <2> DEFINE u == IF t = Batch THEN [thread[t] EXCEPT !.at = "raised"] ELSE Idle
  <2>1. thread' = [thread EXCEPT ![t] = u] /\ UNCHANGED <<inter, tmp, spoilt>>
    BY <1>1, <1>4 DEF Replace
  <2>2. /\ u \in ThreadStates /\ u.at \in {"raised", "idle"}
        /\ t \in Readers => u.at = "idle" /\ u.page \in Pages
    BY <1>0, IdleTyped DEF ThreadStates
  <2> HIDE DEF u
  <2> QED BY <1>2, <1>3, <2>1, <2>2, QuietThread DEF Turn
<1>5. CASE tmp[p] # None
  <2> DEFINE u == IF t = Batch THEN [thread[t] EXCEPT !.at = "report", !.file = "none"] ELSE Idle
  <2>1. /\ inter' = [inter EXCEPT ![p] = tmp[p]] /\ tmp' = [tmp EXCEPT ![p] = None]
        /\ spoilt' = IF sole[p] = t THEN spoilt \ {p} ELSE spoilt
        /\ thread' = [v \in Threads |->
              IF v = t THEN u
              ELSE IF v \in Writers(p) THEN [thread[v] EXCEPT !.file = Moved(@)] ELSE thread[v]]
    BY <1>1, <1>5 DEF Replace
  <2>2. /\ u \in ThreadStates /\ u.at \in {"report", "idle"}
        /\ t \in Readers => u.at = "idle" /\ u.page \in Pages
    <3>1. /\ [thread[t] EXCEPT !.at = "report", !.file = "none"] \in ThreadStates
          /\ [thread[t] EXCEPT !.at = "report", !.file = "none"].at = "report"
      BY <1>0, Rewritten
    <3> QED BY <1>0, <3>1, IdleTyped
  <2> HIDE DEF u
  <2>3. \A v \in Threads : [thread[v] EXCEPT !.file = Moved(@)] \in ThreadStates
    BY <1>0 DEF ThreadStates, Moved
  <2>4. /\ thread' \in [Threads -> ThreadStates] /\ thread'[t] = u
        /\ \A v \in Threads \ {t} : /\ thread'[v].at = thread[v].at
                                    /\ thread'[v].page = thread[v].page
                                    /\ thread'[v].admin = thread[v].admin
                                    /\ v \notin Writers(p) => thread'[v] = thread[v]
    BY <1>0, <2>1, <2>2, <2>3 DEF ThreadStates
  <2>5. /\ inter' \in PagesOf /\ tmp' \in PagesOf
        /\ inter'[p] = tmp[p] /\ \A q \in Pages \ {p} : inter'[q] = inter[q] /\ tmp'[q] = tmp[q]
    BY <1>0, <2>1 DEF PagesOf
  <2>6. \A q \in Pages : Writers(q)' = Writers(q) \ {t}
    BY <2>2, <2>4 DEF Writers
  <2>7. BuildTypeOK'
    <3>1. spoilt' \subseteq Pages /\ sole' \in [Pages -> Threads \cup {Nobody}]
      BY <1>0, <1>2, <2>1
    <3> QED BY <1>3, <2>4, <2>5, <3>1 DEF BuildTypeOK, ThreadStates, Counted, Statuses
  <2>8. AtPages' /\ Turns'
    BY <1>0, <2>2, <2>4 DEF BInv, AtPages, Turns, Turn
  <2>9. Alone'
    <3> SUFFICES ASSUME NEW q \in Pages, NEW v \in Writers(q)', sole'[q] = v
                 PROVE  Writers(q)' = {v} /\ Undisturbed(v)'
      BY DEF Alone
    <3>1. v \in Writers(q) /\ v \in Threads /\ v # t /\ thread[v].page = q
      BY <2>6 DEF Writers
    <3>2. Writers(q) = {v} /\ Undisturbed(v)
      BY <1>2, <3>1 DEF BInv, Alone
    <3>3. q # p
      BY <1>2, <3>1, <3>2
    <3>4. v \notin Writers(p)
      BY <3>1, <3>3 DEF Writers
    <3> QED BY <1>2, <2>4, <2>5, <2>6, <3>1, <3>2, <3>3, <3>4 DEF Undisturbed
  <2>10. Unspoilt'
    <3>1. CASE sole[p] = t
      <4>1. Writers(p) = {t} /\ tmp[p] = Whole
        BY <1>1, <1>2, <1>5, <3>1 DEF BInv, Alone, Undisturbed
      <4>2. \A q \in Pages \ {p} : Writers(q)' = Writers(q)
        BY <1>1, <2>6 DEF Writers
      <4> QED BY <1>2, <2>1, <2>5, <2>6, <3>1, <4>1, <4>2 DEF BInv, Unspoilt
    <3>2. CASE sole[p] # t
      <4>1. p \in spoilt /\ spoilt' = spoilt
        BY <1>2, <2>1, <3>2 DEF BInv, Unspoilt
      <4> QED BY <1>2, <2>5, <2>6, <4>1 DEF BInv, Unspoilt
    <3> QED BY <3>1, <3>2
  <2>11. Found'
    <3>1. \A r \in Readers : thread[r].page \in Pages
      BY <1>0 DEF BInv, AtPages
    <3> QED BY <1>0, <1>2, <1>5, <2>2, <2>4, <2>5, <3>1 DEF BInv, Found
  <2> QED BY <2>7, <2>8, <2>9, <2>10, <2>11 DEF BInv
<1> QED BY <1>4, <1>5

\* The folder is removed: what is still open has lost its name.
LEMMA RemoveKeeps == ASSUME BInv, TypeOK', Remove PROVE BInv'
<1>0. /\ thread \in [Threads -> ThreadStates] /\ Readers \subseteq Threads /\ Counted
      /\ sole \in [Pages -> Threads \cup {Nobody}] /\ spoilt \subseteq Pages
  BY BuildTypes DEF BInv, Threads
<1>1. /\ removed' = TRUE /\ inter' = NoFiles /\ tmp' = NoFiles /\ status' = "idle"
      /\ thread' = [t \in Threads |-> Lost(thread[t])]
      /\ UNCHANGED <<running, asked, crashes, sole, spoilt>>
      /\ requests + stops < MaxRequests /\ requests' = requests + 1
  BY DEF Remove, Request
<1>2. \A t \in Threads : Lost(thread[t]) \in ThreadStates
  BY <1>0 DEF ThreadStates, Lost
<1>3. /\ thread' \in [Threads -> ThreadStates]
      /\ \A t \in Threads : /\ thread'[t].at = thread[t].at
                            /\ thread'[t].page = thread[t].page
                            /\ thread[t].file # "none" => thread'[t].file = "lost"
  BY <1>0, <1>1, <1>2 DEF ThreadStates, Lost
<1>4. BuildTypeOK'
  <2>1. requests' \in 0..MaxRequests /\ crashes' \in 0..MaxCrashes /\ status' \in Statuses
    BY <1>0, <1>1, RequestAssumption DEF BInv, BuildTypeOK, TypeOK, Counted, Statuses
  <2>2. removed' \in BOOLEAN
    BY <1>1, Zenon
  <2>3. running' \in BOOLEAN /\ asked' \in BOOLEAN
    BY <1>0, <1>1 DEF Counted
  <2>4. inter' \in PagesOf /\ tmp' \in PagesOf
    BY <1>1 DEF NoFiles, PagesOf
  <2>5. sole' \in [Pages -> Threads \cup {Nobody}] /\ spoilt' \subseteq Pages
    BY <1>0, <1>1
  <2> QED BY <1>3, <2>1, <2>2, <2>3, <2>4, <2>5 DEF BuildTypeOK, ThreadStates, Statuses
<1>5. AtPages' /\ Turns'
  BY <1>0, <1>3 DEF BInv, AtPages, Turns, Turn
<1>6. \A q \in Pages : Writers(q)' = Writers(q)
  BY <1>3 DEF Writers
<1>7. Alone'
  <2> SUFFICES ASSUME NEW q \in Pages, NEW v \in Writers(q)', sole'[q] = v
               PROVE  Writers(q)' = {v} /\ Undisturbed(v)'
    BY DEF Alone
  <2>1. v \in Writers(q) /\ v \in Threads /\ thread[v].page = q
    BY <1>6 DEF Writers
  <2>2. Writers(q) = {v} /\ Undisturbed(v)
    BY <1>1, <2>1 DEF BInv, Alone
  <2> QED BY <1>1, <1>3, <1>6, <2>1, <2>2 DEF Undisturbed, NoFiles
<1>8. Unspoilt'
  BY <1>1, <1>6 DEF BInv, Unspoilt, NoFiles
<1>9. Found'
  BY <1>1 DEF Found
<1> QED BY <1>4, <1>5, <1>7, <1>8, <1>9 DEF BInv

\* The API restarts: no thread, no open file.
LEMMA CrashKeeps == ASSUME BInv, TypeOK', Crash PROVE BInv'
<1>0. /\ inter \in PagesOf /\ tmp \in PagesOf /\ Counted /\ Readers \subseteq Threads
      /\ sole \in [Pages -> Threads \cup {Nobody}] /\ spoilt \subseteq Pages
  BY BuildTypes DEF BInv, Threads
<1>1. /\ thread' = [t \in Threads |-> Idle] /\ crashes < MaxCrashes /\ crashes' = crashes + 1
      /\ running' = FALSE /\ asked' = FALSE
      /\ UNCHANGED <<inter, tmp, status, removed, requests, sole, spoilt>>
  BY DEF Crash
<1>2. \A t \in Threads : thread'[t].at = "idle" /\ thread'[t].page \in Pages
  BY <1>1, IdleTyped
<1>3. BuildTypeOK'
  <2>1. running' \in BOOLEAN /\ asked' \in BOOLEAN
    BY <1>1, Zenon
  <2>2. crashes' \in 0..MaxCrashes /\ requests' \in 0..MaxRequests /\ status' \in Statuses /\ removed' \in BOOLEAN
    BY <1>0, <1>1, RequestAssumption DEF Counted
  <2>3. thread' \in [Threads -> ThreadStates]
    BY <1>1, IdleTyped
  <2>4. /\ inter' \in PagesOf /\ tmp' \in PagesOf
        /\ sole' \in [Pages -> Threads \cup {Nobody}] /\ spoilt' \subseteq Pages
    BY <1>0, <1>1
  <2> QED BY <2>1, <2>2, <2>3, <2>4 DEF BuildTypeOK, ThreadStates, Statuses
<1>4. AtPages' /\ Turns' /\ Found'
  BY <1>0, <1>2 DEF AtPages, Turns, Turn, Found
<1>5. \A p \in Pages : Writers(p)' = {}
  BY <1>2 DEF Writers
<1>6. Alone' /\ Unspoilt'
  BY <1>1, <1>5 DEF BInv, Unspoilt, Alone
<1> QED BY <1>3, <1>4, <1>6 DEF BInv

\* The steps of a reader before it writes.
LEMMA ReaderKeeps == ASSUME BInv, TypeOK', NEW r \in Readers, Reader(r) PROVE BInv'
<1>0. /\ thread \in [Threads -> ThreadStates] /\ r \in Threads /\ Counted
      /\ thread[r] \in ThreadStates /\ thread[r].page \in Pages /\ Pages \subseteq Nat
  BY BuildTypes DEF BInv, Threads, AtPages, Pages
<1>1. CASE Read(r)
  <2>1. PICK p \in Pages, admin \in BOOLEAN :
          /\ admin \/ inter[p] # None
          /\ thread' = [thread EXCEPT ![r] = [Idle EXCEPT !.at = "load", !.page = p, !.admin = admin]]
    BY <1>1 DEF Read
  <2> DEFINE u == [Idle EXCEPT !.at = "load", !.page = p, !.admin = admin]
  <2>2. u \in ThreadStates
    <3>1. [Idle EXCEPT !.at = "load"] \in ThreadStates
      BY IdleTyped DEF ThreadStates
    <3>2. \A v \in ThreadStates : [v EXCEPT !.page = p] \in ThreadStates
      BY <1>0 DEF ThreadStates
    <3>3. \A v \in ThreadStates : [v EXCEPT !.admin = admin] \in ThreadStates
      BY DEF ThreadStates
    <3> QED BY <3>1, <3>2, <3>3
  <2>3. u.at = "load" /\ u.page = p /\ (~u.admin => inter[u.page] # None)
    BY <2>1 DEF Idle
  <2>4. Counted' /\ UNCHANGED <<inter, tmp, sole, spoilt, removed>>
    <3>1. requests' \in 0..MaxRequests
      BY <1>0, <1>1, RequestAssumption DEF Read, Request, Counted, BInv, BuildTypeOK, TypeOK
    <3> QED BY <1>0, <1>1, <3>1 DEF Read, Counted
  <2> HIDE DEF u
  <2>5. thread' = [thread EXCEPT ![r] = u]
    BY <2>1 DEF u
  <2> QED BY <1>0, <2>2, <2>3, <2>4, <2>5, QuietThread DEF Turn
<1>2. ASSUME Load(r) \/ Lock(r) \/ Make(r) PROVE BInv'
  <2>1. Counted' /\ UNCHANGED <<inter, tmp, sole, spoilt, removed>>
    BY <1>0, <1>2 DEF Load, Lock, Make, Counted
  <2>2. PICK u : /\ thread' = [thread EXCEPT ![r] = u]
                 /\ \/ u = Idle
                    \/ Load(r) /\ u = [thread[r] EXCEPT !.at = "lock"]
                    \/ Lock(r) /\ u = [thread[r] EXCEPT !.at = "make"]
                    \/ Make(r) /\ u = [thread[r] EXCEPT !.at = "open"]
    BY <1>2 DEF Load, Lock, Make, Goes
  <2>3. CASE u = Idle
    BY <1>0, <2>1, <2>2, <2>3, IdleTyped, QuietThread DEF Turn
  <2>4. CASE Load(r) /\ u = [thread[r] EXCEPT !.at = "lock"]
    <3>1. u \in ThreadStates /\ u.at = "lock" /\ u.page = thread[r].page /\ u.admin = thread[r].admin
      BY <1>0, <2>4 DEF ThreadStates
    <3>2. ~u.admin => inter[u.page] # None \/ removed
      BY <2>4, <3>1 DEF BInv, Found, Load
    <3> QED BY <1>0, <2>1, <2>2, <3>1, <3>2, QuietThread DEF Turn
  <2>5. CASE Lock(r) /\ u = [thread[r] EXCEPT !.at = "make"]
    <3>1. u \in ThreadStates /\ u.at = "make" /\ u.page = thread[r].page
      BY <1>0, <2>5 DEF ThreadStates
    <3>2. ~Locked(u.page)
      BY <2>5, <3>1 DEF Lock
    <3> QED BY <1>0, <2>1, <2>2, <3>1, <3>2, QuietThread
  <2>6. CASE Make(r) /\ u = [thread[r] EXCEPT !.at = "open"]
    <3>1. u \in ThreadStates /\ u.at = "open" /\ u.page = thread[r].page
      BY <1>0, <2>6 DEF ThreadStates
    <3>2. thread[r].at \in Turn
      BY <2>6 DEF Make, Turn
    <3> QED BY <1>0, <2>1, <2>2, <3>1, <3>2, QuietThread
  <2> QED BY <2>2, <2>3, <2>4, <2>5, <2>6
<1>3. CASE Open(r) \/ Fill(r) \/ Replace(r)
  BY <1>0, <1>3, OpenKeeps, FillKeeps, ReplaceKeeps
<1> QED BY <1>1, <1>2, <1>3 DEF Reader

\* What a build reports is a status.
LEMMA Reported ==
    ASSUME Counted, NEW shown, Reports(shown), shown \in Statuses, UNCHANGED running
    PROVE  Counted' /\ UNCHANGED <<inter, tmp, sole, spoilt, removed>>
BY DEF Reports, Counted

\* The steps of the batch: it takes no lock, and whether it may write a page is not asked.
LEMMA BatchKeeps == ASSUME BInv, TypeOK', BatchStep PROVE BInv'
<1>0. /\ thread \in [Threads -> ThreadStates] /\ Batch \in Threads /\ Batch \notin Readers /\ Counted
      /\ thread[Batch] \in ThreadStates /\ thread[Batch].page \in Nat
  BY BuildTypes, ThreadAssumption DEF BInv, Threads, ThreadStates
<1>1. /\ status \in Statuses /\ Shown \in Statuses
      /\ {"building", "partial", "done", "error"} \subseteq Statuses
  BY <1>0 DEF Counted, Shown, Statuses
<1> DEFINE b == thread[Batch]
           Quiet(u) == /\ u \in ThreadStates
                       /\ u.at \notin {"fill", "replace"}
                       /\ u.at = "open" => u.page \in Pages
<1>2. ASSUME NEW u, Quiet(u), thread' = [thread EXCEPT ![Batch] = u],
             Counted' /\ UNCHANGED <<inter, tmp, sole, spoilt, removed>>
      PROVE  BInv'
  BY <1>0, <1>2, QuietThread
<1>3. ASSUME NEW step \in {"make", "open", "leave"}, step = "open" => b.page \in Pages
      PROVE  Quiet([b EXCEPT !.at = step])
  BY <1>0, <1>3 DEF ThreadStates
<1>4. CASE BatchBegin
  <2>1. thread' = [thread EXCEPT ![Batch] = [b EXCEPT !.at = "make"]] /\ Reports("building") /\ UNCHANGED running
    BY <1>4 DEF BatchBegin, Goes
  <2> QED BY <1>0, <1>1, <1>2, <1>3, <2>1, Reported
<1>5. CASE BatchMake
  <2>1. /\ thread' = [thread EXCEPT ![Batch] = [b EXCEPT !.at = "open"]] /\ Reports(status) /\ UNCHANGED running
        /\ b.page \in Pages
    BY <1>5 DEF BatchMake, Goes
  <2> QED BY <1>0, <1>1, <1>2, <1>3, <2>1, Reported
<1>6. CASE BatchFails
  <2> DEFINE u == [b EXCEPT !.at = "report", !.failed = TRUE]
  <2>1. thread' = [thread EXCEPT ![Batch] = u] /\ Reports(Shown) /\ UNCHANGED running
    BY <1>0, <1>6 DEF BatchFails
  <2>2. Quiet(u)
    <3>1. [b EXCEPT !.at = "report"] \in ThreadStates
      BY <1>0 DEF ThreadStates
    <3>2. \A v \in ThreadStates : [v EXCEPT !.failed = TRUE] \in ThreadStates
      BY DEF ThreadStates
    <3>3. u.at = "report"
      BY <1>0 DEF ThreadStates
    <3> QED BY <3>1, <3>2, <3>3
  <2> HIDE DEF u, Quiet
  <2> QED BY <1>0, <1>1, <1>2, <2>1, <2>2, Reported
<1>7. CASE BatchReport
  <2> DEFINE u == [b EXCEPT !.at = "make", !.page = b.page + 1]
  <2>1. thread' = [thread EXCEPT ![Batch] = u] /\ Reports(Shown) /\ UNCHANGED running
    BY <1>0, <1>7 DEF BatchReport, Next1
  <2>2. Quiet(u)
    <3>1. [b EXCEPT !.at = "make"] \in ThreadStates
      BY <1>0 DEF ThreadStates
    <3>2. \A v \in ThreadStates, n \in Nat : [v EXCEPT !.page = n] \in ThreadStates
      BY DEF ThreadStates
    <3>3. u.at = "make" /\ b.page + 1 \in Nat
      BY <1>0 DEF ThreadStates
    <3> QED BY <3>1, <3>2, <3>3
  <2> HIDE DEF u, Quiet
  <2> QED BY <1>0, <1>1, <1>2, <2>1, <2>2, Reported
<1>8. CASE BatchEnd
  <2>1. PICK shown \in {"partial", "done"} :
          thread' = [thread EXCEPT ![Batch] = [b EXCEPT !.at = "leave"]] /\ Reports(shown) /\ UNCHANGED running
    BY <1>8 DEF BatchEnd, Goes
  <2> QED BY <1>0, <1>1, <1>2, <1>3, <2>1, Reported
<1>9. CASE BatchRaises
  <2>1. PICK shown \in {status, "error"} :
          thread' = [thread EXCEPT ![Batch] = [b EXCEPT !.at = "leave"]] /\ Reports(shown) /\ UNCHANGED running
    BY <1>9 DEF BatchRaises, Goes
  <2> QED BY <1>0, <1>1, <1>2, <1>3, <2>1, Reported
<1>10. CASE BatchLeave
  <2>1. thread' = [thread EXCEPT ![Batch] = Idle] /\ running' = FALSE /\ Reports(status)
    BY <1>10 DEF BatchLeave
  <2>2. running' \in BOOLEAN
    BY <2>1, Zenon
  <2>3. Counted' /\ UNCHANGED <<inter, tmp, sole, spoilt, removed>>
    BY <1>0, <2>1, <2>2 DEF Reports, Counted
  <2> QED BY <1>2, <2>1, <2>3, IdleTyped
<1>11. CASE Open(Batch) \/ Fill(Batch) \/ Replace(Batch)
  BY <1>0, <1>11, OpenKeeps, FillKeeps, ReplaceKeeps
<1> QED BY <1>4, <1>5, <1>6, <1>7, <1>8, <1>9, <1>10, <1>11 DEF BatchStep

\* A request to build, and the thread it starts.
LEMMA AskKeeps == ASSUME BInv, TypeOK', Ask \/ Start PROVE BInv'
<1>0. /\ thread \in [Threads -> ThreadStates] /\ Batch \in Threads /\ Batch \notin Readers /\ Counted
      /\ thread[Batch] \in ThreadStates
  BY BuildTypes, ThreadAssumption DEF BInv, Threads
<1>1. Counted' /\ UNCHANGED <<inter, tmp, sole, spoilt, removed>>
  <2>1. asked' \in BOOLEAN /\ running' \in BOOLEAN
    <3>1. asked' = TRUE \/ asked' = FALSE
      BY DEF Ask, Start
    <3>2. running' = running \/ running' = TRUE
      BY DEF Ask, Start
    <3>3. running \in BOOLEAN
      BY <1>0 DEF Counted
    <3> QED BY <3>1, <3>2, <3>3, Zenon
  <2>2. requests' \in 0..MaxRequests
    BY <1>0, RequestAssumption DEF Ask, Start, Request, Counted, BInv, BuildTypeOK, TypeOK
  <2> QED BY <1>0, <2>1, <2>2 DEF Ask, Start, Counted
<1>2. CASE thread' = thread
  <2>1. BuildTypeOK'
    BY <1>0, <1>1, <1>2 DEF BInv, BuildTypeOK, Counted, ThreadStates, Statuses
  <2>2. \A q \in Pages : Writers(q)' = Writers(q)
    BY <1>2 DEF Writers
  <2>3. Alone' /\ Unspoilt'
    BY <1>1, <1>2, <2>2 DEF BInv, Alone, Unspoilt, Undisturbed
  <2> QED BY <1>1, <1>2, <2>1, <2>3 DEF BInv, AtPages, Turns, Found
<1>3. CASE thread' # thread
  <2>1. thread' = [thread EXCEPT ![Batch] = [Idle EXCEPT !.at = "begin"]]
    BY <1>3 DEF Ask, Start
  <2>2. [Idle EXCEPT !.at = "begin"] \in ThreadStates /\ [Idle EXCEPT !.at = "begin"].at = "begin"
    BY IdleTyped DEF ThreadStates
  <2> QED BY <1>0, <1>1, <2>1, <2>2, QuietThread
<1> QED BY <1>2, <1>3

\* The conversion touches no interactive page, and nothing stirs.
LEMMA BesideKeeps == ASSUME BInv, TypeOK', UNCHANGED buildVars PROVE BInv'
<1>0. UNCHANGED <<inter, tmp, status, running, asked, thread, removed, requests, crashes, sole, spoilt>>
  BY DEF buildVars
<1>1. BuildTypeOK'
  BY <1>0 DEF BInv, BuildTypeOK
<1>2. \A q \in Pages : Writers(q)' = Writers(q)
  BY <1>0 DEF Writers
<1>3. Alone' /\ Unspoilt'
  BY <1>0, <1>2 DEF BInv, Alone, Unspoilt, Undisturbed
<1> QED BY <1>0, <1>1, <1>3 DEF BInv, AtPages, Turns, Found

\* The conversion inside a build is the conversion.
LEMMA BuildStepConverts == [BuildNext]_vars => [Next]_convVars
<1>1. BuildFilesHere \in SUBSET BuildFiles
  BY PageCountAssumption DEF BuildFilesHere, BuildFiles, Pages
<1> QED
  BY <1>1 DEF BuildNext, Next, vars, Reader, Read, Load, Lock, Make, Open, Fill, Replace, Ask, Start, BatchStep,
     BatchBegin, BatchMake, BatchFails, BatchReport, BatchEnd, BatchRaises, BatchLeave, Reports, Remove, Crash

LEMMA BuildStepOK == IInv /\ BInv /\ [BuildNext]_vars => IInv' /\ BInv'
<1> SUFFICES ASSUME IInv, BInv, [BuildNext]_vars PROVE IInv' /\ BInv'
  OBVIOUS
<1>1. IInv' /\ TypeOK'
  BY BuildStepConverts, StepOK DEF IInv
<1>2. CASE (\E r \in Readers : Reader(r)) \/ Ask \/ Start \/ BatchStep \/ Remove \/ Crash
  BY <1>1, <1>2, ReaderKeeps, AskKeeps, BatchKeeps, RemoveKeeps, CrashKeeps
<1>3. CASE UNCHANGED buildVars
  BY <1>1, <1>3, BesideKeeps
<1> QED BY <1>1, <1>2, <1>3 DEF BuildNext, vars

LEMMA BuildInvariance == BuildSpec => [](IInv /\ BInv)
<1>1. BuildInit => IInv /\ BInv
  BY InitOK, BuildInitOK DEF BuildInit
<1> QED BY <1>1, BuildStepOK, PTL DEF BuildSpec

\* Readers, batches and removals go on beside the conversion, and what they leave in its folder is
\* archived with the book; but of what the conversion makes they change nothing, no attempt makes a
\* finished page again on their account, and the cloud's book holds nothing else.
THEOREM BuildsLeaveTheBook == BuildSpec => []BookAsFromNothing /\ FinishedPagesKept
<1>1. BuildSpec => Spec
  BY BuildStepConverts, PTL DEF BuildSpec, BuildInit, Spec
<1> QED BY <1>1, BookIsAsFromNothing, FinishedPagesAreKept, PTL

\* The interactive pages, their threads and their status keep their types.
THEOREM BuildTypeCorrect == BuildSpec => []BuildTypeOK
<1>1. BInv => BuildTypeOK
  BY DEF BInv
<1> QED BY <1>1, BuildInvariance, PTL

\* For any number of readers and pages: a page that is served is a whole one unless the batch
\* and a reader wrote it at once.
THEOREM ServedWhole == BuildSpec => []PagesWhole
<1>1. BInv => PagesWhole
  BY DEF BInv, Unspoilt, PagesWhole
<1> QED BY <1>1, BuildInvariance, PTL

\* Only Lock() has a page made.
LEMMA MakesIsLock ==
    ASSUME BInv, [BuildNext]_vars, NEW r \in Readers, Makes(r)
    PROVE  ~Locked(thread[r].page) /\ inter[thread[r].page] # Whole
<1>0. /\ thread \in [Threads -> ThreadStates] /\ r \in Threads /\ Batch \notin Readers
      /\ r # Batch /\ thread[r].at = "lock" /\ thread'[r].at = "make"
  BY BuildTypes, ThreadAssumption DEF BInv, Threads, Makes
<1>1. ASSUME NEW u, thread' = [thread EXCEPT ![Batch] = u] PROVE FALSE
  BY <1>0, <1>1
<1>2. ASSUME NEW t \in Threads, Open(t) \/ Fill(t) PROVE FALSE
  <2>1. PICK u : thread' = [thread EXCEPT ![t] = u] /\ u.at \in {"fill", "replace"}
    <3>1. CASE Open(t)
      <4>1. thread' = [thread EXCEPT ![t] = [@ EXCEPT !.at = "fill", !.file = "tmp"]]
        BY <1>0, <3>1 DEF Open
      <4>2. [thread[t] EXCEPT !.at = "fill", !.file = "tmp"].at = "fill"
        BY <1>0, <1>2 DEF ThreadStates
      <4> QED BY <4>1, <4>2
    <3>2. CASE Fill(t)
      BY <1>0, <3>2 DEF Fill, Goes, ThreadStates
    <3> QED BY <1>2, <3>1, <3>2
  <2> QED BY <1>0, <2>1
<1>3. ASSUME NEW t \in Threads, Replace(t) PROVE FALSE
  <2>1. t # r
    BY <1>0, <1>3 DEF Replace
  <2>2. thread'[r].at = thread[r].at
    <3>1. CASE tmp[thread[t].page] = None
      BY <1>0, <1>3, <2>1, <3>1 DEF Replace
    <3>2. CASE tmp[thread[t].page] # None
      BY <1>0, <1>3, <2>1, <3>2 DEF Replace, ThreadStates
    <3> QED BY <3>1, <3>2
  <2> QED BY <1>0, <2>2
<1>4. ASSUME BatchStep PROVE FALSE
  <2>1. Batch \in Threads
    BY DEF Threads
  <2>2. CASE BatchBegin \/ BatchMake \/ BatchFails \/ BatchReport \/ BatchEnd \/ BatchRaises \/ BatchLeave
    <3>1. thread'[r] = thread[r]
      BY <1>0, <2>2 DEF BatchBegin, BatchMake, BatchFails, BatchReport, BatchEnd, BatchRaises, BatchLeave, Goes
    <3> QED BY <1>0, <3>1
  <2> QED BY <1>2, <1>3, <1>4, <2>1, <2>2 DEF BatchStep
<1>5. ASSUME Ask \/ Start \/ Remove \/ Crash \/ UNCHANGED thread PROVE FALSE
  BY <1>0, <1>5, IdleTyped DEF Ask, Start, Remove, Crash, Lost, ThreadStates
<1>6. ASSUME NEW s \in Readers, Reader(s) PROVE s = r /\ Lock(r)
  <2>1. ~(Open(s) \/ Fill(s) \/ Replace(s)) /\ s \in Threads
    BY <1>2, <1>3 DEF Threads
  <2>2. CASE Read(s)
    <3>1. PICK p \in Pages, admin \in BOOLEAN :
            thread' = [thread EXCEPT ![s] = [Idle EXCEPT !.at = "load", !.page = p, !.admin = admin]]
      BY <2>2 DEF Read
    <3>2. [Idle EXCEPT !.at = "load", !.page = p, !.admin = admin].at = "load"
      BY DEF Idle
    <3> QED BY <1>0, <3>1, <3>2
  <2>3. CASE Load(s)
    BY <1>0, <2>3 DEF Load
  <2>4. CASE Make(s)
    BY <1>0, <2>4 DEF Make, Goes
  <2>5. CASE Lock(s)
    BY <1>0, <2>5 DEF Lock
  <2> QED BY <1>6, <2>1, <2>2, <2>3, <2>4, <2>5 DEF Reader
<1>7. Lock(r)
  BY <1>1, <1>4, <1>5, <1>6 DEF BuildNext, vars, buildVars
<1>8. inter[thread[r].page] # Whole
  BY <1>0, <1>7, IdleTyped DEF Lock
<1> QED BY <1>7, <1>8 DEF Lock

\* For any number of readers and pages: what a thread has written is there when it renames it,
\* unless the batch and a reader met on the page or the course was removed.
THEOREM WritersKeepTheirFile == BuildSpec => []WrittenIsThere
<1>1. ASSUME BInv, NEW t \in Threads, thread[t].at = "replace",
             thread[t].page \notin spoilt, ~removed
      PROVE  tmp[thread[t].page] = Whole
  <2>1. PICK p \in Pages : p = thread[t].page
    BY <1>1 DEF BInv, AtPages
  <2>2. t \in Writers(p) /\ sole[p] = t
    BY <1>1, <2>1 DEF BInv, Unspoilt, Writers
  <2>3. Undisturbed(t)
    BY <1>1, <2>2 DEF BInv, Alone
  <2> QED BY <1>1, <2>1, <2>3 DEF Undisturbed
<1>2. BInv => WrittenIsThere
  BY <1>1 DEF WrittenIsThere
<1> QED BY <1>2, BuildInvariance, PTL

\* The model works for a client only where the batch and a reader spoilt a page, or the course
\* was removed under the request.
THEOREM ClientsAreServed == BuildSpec => ClientsNeverPay
<1>1. ASSUME BInv, [BuildNext]_vars, NEW r \in Readers, Makes(r), ~thread[r].admin
      PROVE  thread[r].page \in spoilt \/ removed
  <2>1. inter[thread[r].page] # Whole
    BY <1>1, MakesIsLock
  <2>2. inter[thread[r].page] # None \/ removed
    BY <1>1 DEF BInv, Found, Makes
  <2>3. thread[r].page \in Pages
    BY <1>1 DEF BInv, AtPages, Threads
  <2> QED BY <1>1, <2>1, <2>2, <2>3 DEF BInv, Unspoilt
<1>2. BInv /\ [BuildNext]_vars =>
        [\A r \in Readers : Makes(r) /\ ~thread[r].admin => thread[r].page \in spoilt \/ removed]_vars
  BY <1>1
<1> QED BY <1>2, BuildInvariance, PTL DEF BuildSpec, ClientsNeverPay
=============================================================================
