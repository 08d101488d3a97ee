-------------------------- MODULE ShopRecords_proofs --------------------------
(***************************************************************************)
(* What the shop front shows: reviews, pictures of reference data, blogs,  *)
(* the catalogue, the tree of categories; and who may do what, the roles.  *)
(*                                                                         *)
(* Each theorem about a property follows from the inductive invariant that *)
(* its module states (ReviewsInv, LogosInv, BlogsInv, CatalogueInv,        *)
(* CategoriesInv, RolesInv).  What a request in flight knows is still true *)
(* as long as it is alone with its row, or the row is one that the         *)
(* property excepts; one lemma for each kind of step says which rows and   *)
(* requests the step can disturb.                                          *)
(***************************************************************************)
EXTENDS Shop_proofs

---------------------------------------------------------------------------
(* Reviews *)

LEMMA ReviewsStep ==
    ASSUME [Next]_shopVars
    PROVE  \/ RNext /\ UNCHANGED inUse
           \/ UNCHANGED <<inUse, reviewVars>>
BY DEF Next, shopVars

LEMMA IdleRJobType ==
    /\ IdleRJob \in RJob /\ IdleRJob.phase = "idle"
    /\ IdleRJob.at = {} /\ IdleRJob.todo = {} /\ IdleRJob.files = {}
BY ReviewsAssumption DEF IdleRJob, RJob

LEMMA ReviewsFacts ==
    ASSUME ReviewsInv
    PROVE  /\ Len(picture) \in Nat /\ DOMAIN picture = 1 .. Len(picture)
           /\ DOMAIN picture \subseteq Rows /\ shown \subseteq DOMAIN picture
           /\ \A i \in DOMAIN picture : /\ picture[i] \in Picture /\ picture[i].file \in Files
                                        /\ picture[i].review \in 0 .. MaxReviews
           /\ rjob \in [Clerks -> RJob]
           /\ \A k \in Clerks : /\ rjob[k] \in RJob /\ rjob[k].files \subseteq Files
                                /\ rjob[k].todo \cup rjob[k].at \subseteq DOMAIN picture
           /\ MaxReviews \in Nat /\ written \in 0 .. MaxReviews /\ reviews \subseteq 1 .. written
<1>1. /\ Len(picture) \in Nat /\ DOMAIN picture = 1 .. Len(picture)
      /\ \A i \in DOMAIN picture : picture[i] \in Picture
  BY TableDomain DEF ReviewsInv, ReviewsTypeOK
<1>2. MaxRows \in Nat /\ Len(picture) <= MaxRows
  BY PartiesAssumption DEF ReviewsInv, ReviewsTypeOK
<1>3. DOMAIN picture \subseteq Rows
  BY <1>1, <1>2 DEF Rows
<1>4. \A k \in Clerks : rjob[k] \in RJob /\ rjob[k].files \subseteq Files
  BY DEF ReviewsInv, ReviewsTypeOK, RJob
<1>5. QED
  BY <1>1, <1>3, <1>4, ReviewsAssumption DEF ReviewsInv, ReviewsTypeOK, RJobOK, Picture

\* A request starts.
LEMMA ReviewStarts ==
    ASSUME ReviewsInv, NEW k \in Clerks, NEW j \in RJob, rjob[k].phase = "idle",
           rjob' = [rjob EXCEPT ![k] = j], j.phase = "loaded", j.at = {},
           j.todo \subseteq DOMAIN picture, NameFiles(j.files),
           UNCHANGED <<picture, shown, cloud, struck>>,
           written' \in 0 .. MaxReviews, written <= written', reviews' \subseteq 1 .. written',
           j.review \in 1 .. written'
    PROVE  ReviewsInv'
<1>1. /\ rjob' \in [Clerks -> RJob] /\ rjob'[k] = j
      /\ \A l \in Clerks \ {k} : rjob'[l] = rjob[l]
  BY ReviewsFacts
<1>2. ReviewsTypeOK'
  BY <1>1 DEF ReviewsInv, ReviewsTypeOK
<1>3. ASSUME NEW l \in Clerks PROVE RJobOK(l)'
  <2>1. RJobOK(l)
    BY DEF ReviewsInv
  <2>2. CASE l = k
    BY <1>1, <2>2 DEF RJobOK
  <2>3. CASE l # k
    BY <1>1, <2>1, <2>3, ReviewsFacts DEF RJobOK
  <2>4. QED
    BY <2>2, <2>3
<1>4. \A f \in Files : LeftAsPicture(f)'
  BY DEF ReviewsInv, LeftAsPicture
<1>5. reused \subseteq reused'
      /\ \A f \in j.files \ reused' :
            /\ \A i \in DOMAIN picture : picture[i].file # f
            /\ \A l \in Clerks : f \notin rjob[l].files
  BY DEF NameFiles
<1>6. ASSUME NEW f \in Files \ reused' PROVE NamedOnce(f)'
  <2>1. NamedOnce(f)
    BY <1>5 DEF ReviewsInv
  <2>2. CASE f \in j.files
    BY <2>1, <2>2, <1>1, <1>5 DEF NamedOnce
  <2>3. CASE f \notin j.files
    BY <2>1, <2>3, <1>1 DEF NamedOnce
  <2>4. QED
    BY <2>2, <2>3
<1>7. rjob[k].at = {}
  BY DEF ReviewsInv, RJobOK
<1>8. PicturesHaveFiles'
  BY <1>1, <1>5, <1>7 DEF ReviewsInv, PicturesHaveFiles
<1>9. QED
  BY <1>2, <1>3, <1>4, <1>6, <1>8 DEF ReviewsInv

LEMMA CreateReviewKeeps ==
    ASSUME ReviewsInv, NEW k \in Clerks, NEW set \in SUBSET Files, CreateReview(k, set)
    PROVE  ReviewsInv'
<1> DEFINE j == [IdleRJob EXCEPT !.phase = "loaded", !.op = "create",
                                 !.review = written + 1, !.files = set]
<1>1. written + 1 \in 0 .. MaxReviews /\ reviews \cup {written + 1} \subseteq 1 .. (written + 1)
  BY ReviewsFacts DEF CreateReview
<1>2. /\ j \in RJob /\ j.phase = "loaded" /\ j.at = {} /\ j.todo = {} /\ j.files = set
      /\ j.review = written + 1
  BY <1>1, IdleRJobType DEF RJob
<1>7. written + 1 \in 1 .. (written + 1) /\ written <= written + 1
  BY ReviewsFacts
<1>3. rjob' = [rjob EXCEPT ![k] = j] /\ NameFiles(set) /\ rjob[k].phase = "idle"
  BY DEF CreateReview
<1> HIDE DEF j
<1>4. PICK i \in RJob : i = j
  BY <1>2
<1>5. UNCHANGED <<picture, shown, cloud, struck>> /\ written' = written + 1
      /\ reviews' = reviews \cup {written + 1}
  BY DEF CreateReview
<1>6. QED
  BY <1>1, <1>2, <1>3, <1>4, <1>5, <1>7, ReviewStarts

LEMMA ReviewLoadKeeps ==
    ASSUME ReviewsInv, NEW k \in Clerks, NEW op \in {"updateReview", "removeHardReview"},
           NEW r \in reviews, NEW set \in SUBSET Files, ReviewLoad(k, op, r, set)
    PROVE  ReviewsInv'
<1> DEFINE j == [phase |-> "loaded", op |-> op, review |-> r, todo |-> PicturesOf(r),
                 at |-> {}, files |-> set]
<1>1. r \in 0 .. MaxReviews /\ r \in 1 .. written /\ written <= written
      /\ PicturesOf(r) \subseteq DOMAIN picture
      /\ PicturesOf(r) \subseteq Rows
  BY ReviewsFacts DEF PicturesOf
<1>2. /\ j \in RJob /\ j.phase = "loaded" /\ j.at = {} /\ j.todo = PicturesOf(r)
      /\ j.files = set /\ j.review = r /\ r \in 1 .. written
  BY <1>1 DEF RJob
<1>3. rjob' = [rjob EXCEPT ![k] = j] /\ NameFiles(set) /\ rjob[k].phase = "idle"
      /\ UNCHANGED <<written, reviews, picture, shown, cloud, struck>>
  BY DEF ReviewLoad
<1> HIDE DEF j
<1>4. PICK i \in RJob : i = j
  BY <1>2
<1>5. QED
  BY <1>1, <1>2, <1>3, <1>4, ReviewStarts, ReviewsFacts

\* Reviews come or go, or pictures do; files and requests stay.
LEMMA ReviewRowsGo ==
    ASSUME ReviewsInv, UNCHANGED <<written, picture, cloud, rjob, reused, struck>>,
           reviews' \subseteq reviews, shown' \subseteq shown
    PROVE  ReviewsInv'
<1>1. ReviewsTypeOK' /\ \A k \in Clerks : RJobOK(k)'
  BY DEF ReviewsInv, ReviewsTypeOK, RJobOK
<1>2. \A f \in Files : LeftAsPicture(f)' /\ (f \in reused \/ NamedOnce(f)')
  BY DEF ReviewsInv, LeftAsPicture, NamedOnce
<1>3. PicturesHaveFiles'
  BY DEF ReviewsInv, PicturesHaveFiles
<1>4. QED
  BY <1>1, <1>2, <1>3 DEF ReviewsInv

LEMMA RemoveFileKeeps ==
    ASSUME ReviewsInv, NEW k \in Clerks, NEW i \in rjob[k].todo, RemoveFile(k, i)
    PROVE  ReviewsInv'
<1>1. /\ rjob[k].phase = "loaded" /\ rjob' = [rjob EXCEPT ![k].phase = "bare", ![k].at = {i}]
      /\ cloud' = cloud \ {picture[i].file}
      /\ UNCHANGED <<written, reviews, shelved, picture, shown, reused, struck>>
  BY DEF RemoveFile
<1>2. i \in DOMAIN picture /\ i \in Rows
  BY ReviewsFacts
<1>3. /\ rjob' \in [Clerks -> RJob] /\ rjob'[k].at = {i} /\ rjob'[k].todo = rjob[k].todo
      /\ rjob'[k].files = rjob[k].files /\ rjob'[k].phase = "bare"
      /\ \A l \in Clerks \ {k} : rjob'[l] = rjob[l]
  BY <1>1, <1>2, ReviewsFacts DEF RJob
<1>4. ReviewsTypeOK' /\ \A l \in Clerks : RJobOK(l)'
  BY <1>1, <1>2, <1>3 DEF ReviewsInv, ReviewsTypeOK, RJobOK
<1>5. \A f \in Files : LeftAsPicture(f)'
  BY <1>1, <1>2 DEF ReviewsInv, LeftAsPicture
<1>6. \A l \in Clerks : rjob'[l].files = rjob[l].files
  BY <1>3
<1>7. \A f \in Files : f \in reused \/ NamedOnce(f)'
  BY <1>1, <1>6 DEF ReviewsInv, NamedOnce
<1>8. \A l \in Clerks : rjob[l].at \subseteq rjob'[l].at
  BY <1>1, <1>3 DEF ReviewsInv, RJobOK
<1>9. PicturesHaveFiles'
  <2> SUFFICES ASSUME NEW l \in shown
               PROVE  \/ picture[l].file \in cloud' \cup reused
                      \/ l \in struck
                      \/ \E m \in Clerks : l \in rjob'[m].at
    BY <1>1 DEF PicturesHaveFiles
  <2>1. l \in DOMAIN picture /\ picture[l].file \in Files
    BY ReviewsFacts
  <2>2. CASE picture[l].file = picture[i].file
    BY <2>1, <2>2, <1>2, <1>3 DEF ReviewsInv, NamedOnce
  <2>3. CASE picture[l].file # picture[i].file
    BY <2>3, <1>1, <1>8 DEF ReviewsInv, PicturesHaveFiles
  <2>4. QED
    BY <2>2, <2>3
<1>10. QED
  BY <1>1, <1>4, <1>5, <1>7, <1>9 DEF ReviewsInv

LEMMA RemoveRowKeeps ==
    ASSUME ReviewsInv, NEW k \in Clerks, RemoveRow(k)
    PROVE  ReviewsInv'
<1>1. /\ rjob' = [rjob EXCEPT ![k].phase = "loaded", ![k].at = {}, ![k].todo = @ \ rjob[k].at]
      /\ shown' = shown \ rjob[k].at /\ rjob[k].phase = "bare"
      /\ UNCHANGED <<written, reviews, shelved, picture, cloud, reused, struck>>
  BY DEF RemoveRow, Without
<1>2. PICK j : j = [rjob[k] EXCEPT !.phase = "loaded", !.at = {}, !.todo = @ \ rjob[k].at]
  OBVIOUS
<1>8. /\ j \in RJob /\ j.at = {} /\ j.todo = rjob[k].todo \ rjob[k].at
      /\ j.files = rjob[k].files /\ j.review = rjob[k].review
  BY <1>2, ReviewsFacts DEF RJob
<1>9. rjob' = [rjob EXCEPT ![k] = j]
  BY <1>1, <1>2, ReviewsFacts
<1>10. /\ rjob' \in [Clerks -> RJob] /\ rjob'[k] = j
       /\ \A l \in Clerks \ {k} : rjob'[l] = rjob[l]
  BY <1>8, <1>9, ReviewsFacts
<1>3. ReviewsTypeOK' /\ \A l \in Clerks : RJobOK(l)'
  BY <1>1, <1>8, <1>10 DEF ReviewsInv, ReviewsTypeOK, RJobOK
<1>4. \A l \in Clerks : rjob'[l].files = rjob[l].files
  BY <1>8, <1>10
<1>5. \A f \in Files : LeftAsPicture(f)' /\ (f \in reused \/ NamedOnce(f)')
  BY <1>1, <1>4 DEF ReviewsInv, NamedOnce, LeftAsPicture
<1>6. PicturesHaveFiles'
  BY <1>1, <1>8, <1>10 DEF ReviewsInv, PicturesHaveFiles
<1>7. QED
  BY <1>1, <1>3, <1>5, <1>6 DEF ReviewsInv

\* A request has ended, perhaps half way.
LEMMA ReviewEnds ==
    ASSUME ReviewsInv, NEW k \in Clerks, RDone(k), UNCHANGED <<written, picture, cloud, reused>>,
           reviews' \subseteq reviews, shown' \subseteq shown,
           struck' = struck \cup rjob[k].at
    PROVE  ReviewsInv'
<1>1. /\ rjob' \in [Clerks -> RJob] /\ rjob'[k] = IdleRJob
      /\ \A l \in Clerks \ {k} : rjob'[l] = rjob[l]
  BY ReviewsFacts, IdleRJobType DEF RDone
<1>2. ReviewsTypeOK' /\ \A l \in Clerks : RJobOK(l)'
  BY <1>1, IdleRJobType DEF ReviewsInv, ReviewsTypeOK, RJobOK
<1>3. \A l \in Clerks : rjob'[l].files \subseteq rjob[l].files
  BY <1>1, IdleRJobType
<1>4. \A f \in Files : LeftAsPicture(f)'
  BY DEF ReviewsInv, LeftAsPicture
<1>5. \A f \in Files : f \in reused \/ NamedOnce(f)'
  BY <1>3 DEF ReviewsInv, NamedOnce
<1>6. PicturesHaveFiles'
  BY <1>1 DEF ReviewsInv, PicturesHaveFiles
<1>7. QED
  BY <1>2, <1>4, <1>5, <1>6 DEF ReviewsInv

LEMMA AddPictureKeeps ==
    ASSUME ReviewsInv, inUse \in Mixes, NEW k \in Clerks, NEW f \in rjob[k].files,
           AddPicture(k, f)
    PROVE  ReviewsInv'
<1>1. rjob[k] \in RJob /\ rjob[k].review \in 0 .. MaxReviews /\ f \in Files
      /\ rjob[k].phase = "loaded" /\ rjob[k].at = {} /\ rjob[k].review \in 1 .. written
  BY ReviewsFacts DEF RJob, AddPicture, ReviewsInv, RJobOK
<1>2. /\ shown' = shown \cup {Len(picture) + 1}
      /\ reviews' = reviews \cup {rjob[k].review}
      /\ rjob' = [rjob EXCEPT ![k].files = @ \ {f}]
      /\ Len(picture) < inUse.rows
      /\ UNCHANGED <<written, cloud, reused, struck>>
  BY DEF AddPicture, HasRoom
<1>3. PICK cut : picture' = Append([i \in DOMAIN picture |->
                                      IF i \in cut THEN [picture[i] EXCEPT !.review = 0]
                                                   ELSE picture[i]],
                                  [review |-> rjob[k].review, file |-> f])
  BY DEF AddPicture
<1>4. PICK n : n = Len(picture)
  OBVIOUS
<1>5. PICK table : table = [i \in DOMAIN picture |->
                              IF i \in cut THEN [picture[i] EXCEPT !.review = 0] ELSE picture[i]]
  OBVIOUS
<1>6. PICK row : row = [review |-> rjob[k].review, file |-> f]
  OBVIOUS
<1>7. row \in Picture /\ row.file = f
  BY <1>1, <1>6 DEF Picture
<1>8. n \in Nat /\ DOMAIN picture = 1 .. n
      /\ \A i \in 1 .. n : picture[i] \in Picture /\ picture[i].file \in Files
  BY <1>4, ReviewsFacts
<1>9. /\ table \in [1 .. n -> Picture]
      /\ \A i \in 1 .. n : table[i].file = picture[i].file
  BY <1>5, <1>8, ReviewsAssumption DEF Picture
<1>10. table \in Seq(Picture) /\ Len(table) = n
  BY <1>8, <1>9, TableOf
<1>11. picture' = Append(table, row)
  BY <1>3, <1>5, <1>6
<1>12. /\ picture' \in Seq(Picture) /\ Len(picture') = n + 1 /\ DOMAIN picture' = 1 .. (n + 1)
       /\ \A i \in 1 .. n : picture'[i].file = picture[i].file
       /\ picture'[n + 1].file = f
  BY <1>7, <1>9, <1>10, <1>11, AppendRow
<1>13. /\ rjob' \in [Clerks -> RJob]
       /\ \A l \in Clerks : /\ rjob'[l].todo = rjob[l].todo /\ rjob'[l].at = rjob[l].at
                             /\ rjob'[l].phase = rjob[l].phase
                             /\ rjob'[l].review = rjob[l].review
                             /\ rjob'[l].files = IF l = k THEN rjob[l].files \ {f}
                                                          ELSE rjob[l].files
  BY <1>2, ReviewsFacts DEF RJob
<1>14. inUse.rows \in Int /\ inUse.rows <= MaxRows /\ MaxRows \in Nat
  BY PartiesAssumption
<1>15. ReviewsTypeOK'
  <2>1. n + 1 <= MaxRows
    BY <1>2, <1>4, <1>8, <1>14
  <2>2. shown' \subseteq 1 .. (n + 1)
    BY <1>2, <1>4, <1>8, ReviewsFacts
  <2>3. reviews' \subseteq 1 .. written
    BY <1>1, <1>2, ReviewsFacts
  <2>4. QED
    BY <2>1, <2>2, <2>3, <1>2, <1>12, <1>13, ReviewsFacts DEF ReviewsTypeOK
<1>16. \A l \in Clerks : RJobOK(l)'
  BY <1>2, <1>8, <1>12, <1>13 DEF ReviewsInv, RJobOK
<1>17. \A g \in Files : LeftAsPicture(g)'
  BY <1>2, <1>8, <1>12 DEF ReviewsInv, LeftAsPicture
<1>18. ASSUME NEW g \in Files, g \notin reused PROVE NamedOnce(g)'
  <2>1. NamedOnce(g)
    BY <1>18 DEF ReviewsInv
  <2>2. CASE g = f
    <3>1. \A i \in 1 .. n : picture[i].file # f
      BY <2>1, <2>2, <1>8 DEF NamedOnce
    <3>2. \A l \in Clerks : f \notin rjob'[l].files
      BY <2>1, <2>2, <1>13 DEF NamedOnce
    <3>3. \A i \in 1 .. (n + 1) : picture'[i].file = f => i = n + 1
      BY <3>1, <1>8, <1>12
    <3>4. QED
      BY <2>2, <3>2, <3>3, <1>12 DEF NamedOnce
  <2>3. CASE g # f
    <3>1. \A i \in 1 .. (n + 1) : picture'[i].file = g => i \in 1 .. n /\ picture[i].file = g
      BY <2>3, <1>8, <1>12
    <3>2. \A l \in Clerks : g \in rjob'[l].files => g \in rjob[l].files
      BY <1>13
    <3>3. QED
      BY <2>1, <3>1, <3>2, <1>8, <1>12 DEF NamedOnce
  <2>4. QED
    BY <2>2, <2>3
<1>19. PicturesHaveFiles'
  <2>1. f \in cloud \cup reused
    <3>1. CASE f \notin reused
      BY <3>1, <1>1 DEF ReviewsInv, NamedOnce, LeftAsPicture
    <3>2. QED
      BY <3>1
  <2>2. ASSUME NEW i \in shown'
        PROVE  \/ picture'[i].file \in cloud \cup reused
               \/ i \in struck
               \/ \E l \in Clerks : i \in rjob'[l].at
    <3>1. CASE i = n + 1
      BY <3>1, <2>1, <1>12
    <3>2. CASE i # n + 1
      BY <3>2, <1>2, <1>4, <1>8, <1>12, <1>13, ReviewsFacts DEF ReviewsInv, PicturesHaveFiles
    <3>3. QED
      BY <3>1, <3>2
  <2>3. QED
    BY <2>2, <1>2 DEF PicturesHaveFiles
<1>20. QED
  BY <1>2, <1>15, <1>16, <1>17, <1>18, <1>19 DEF ReviewsInv

LEMMA ReviewDoneKeeps ==
    ASSUME ReviewsInv, NEW k \in Clerks, ReviewDone(k)
    PROVE  ReviewsInv'
<1>1. rjob[k].phase = "loaded" /\ RDone(k) /\ UNCHANGED <<written, picture, cloud, reused, struck>>
      /\ reviews' \subseteq reviews /\ shown' \subseteq shown
  BY DEF ReviewDone, Without
<1>2. rjob[k].at = {}
  BY <1>1 DEF ReviewsInv, RJobOK
<1>3. QED
  BY <1>1, <1>2, ReviewEnds

LEMMA RAbortKeeps ==
    ASSUME ReviewsInv, NEW k \in Clerks, RAbort(k)
    PROVE  ReviewsInv'
BY ReviewEnds DEF RAbort

LEMMA ReviewsBegin == Init => ReviewsInv
<1> SUFFICES ASSUME Init PROVE ReviewsInv
  OBVIOUS
<1>1. RInit /\ MaxReviews \in Nat /\ MaxRows \in Nat
  BY ReviewsAssumption, PartiesAssumption DEF Init
<1>2. picture \in Seq(Picture) /\ Len(picture) = 0 /\ DOMAIN picture = {}
  BY <1>1, EmptySeq DEF RInit
<1>3. rjob \in [Clerks -> RJob] /\ \A k \in Clerks : rjob[k] = IdleRJob
  BY <1>1, IdleRJobType DEF RInit
<1>4. ReviewsTypeOK
  BY <1>1, <1>2, <1>3 DEF RInit, ReviewsTypeOK
<1>5. \A k \in Clerks : RJobOK(k)
  BY <1>2, <1>3, IdleRJobType DEF RJobOK
<1>6. \A f \in Files : LeftAsPicture(f) /\ NamedOnce(f)
  BY <1>1, <1>2, <1>3, IdleRJobType DEF RInit, LeftAsPicture, NamedOnce
<1>7. PicturesHaveFiles
  BY <1>1 DEF RInit, PicturesHaveFiles
<1>8. QED
  BY <1>4, <1>5, <1>6, <1>7 DEF ReviewsInv

LEMMA ReviewsKept == ReviewsInv /\ inUse \in Mixes /\ [Next]_shopVars => ReviewsInv'
<1> SUFFICES ASSUME ReviewsInv, inUse \in Mixes, [Next]_shopVars PROVE ReviewsInv'
  OBVIOUS
<1>1. CASE RNext
  <2>1. ASSUME NEW r \in reviews, ShelveReview(r) PROVE ReviewsInv'
    BY <2>1, ReviewRowsGo DEF ShelveReview
  <2>2. ASSUME NEW r \in reviews, CascadeReview(r) PROVE ReviewsInv'
    BY <2>2, ReviewRowsGo DEF CascadeReview, Without
  <2>3. QED
    BY <1>1, <2>1, <2>2, CreateReviewKeeps, ReviewLoadKeeps, RemoveFileKeeps, AddPictureKeeps,
       RemoveRowKeeps, ReviewDoneKeeps, RAbortKeeps DEF RNext
<1>2. CASE UNCHANGED reviewVars
  <2>1. ReviewsTypeOK' /\ \A k \in Clerks : RJobOK(k)'
    BY <1>2 DEF reviewVars, ReviewsInv, ReviewsTypeOK, RJobOK
  <2>2. \A f \in Files : LeftAsPicture(f)' /\ (f \in reused' \/ NamedOnce(f)')
    BY <1>2 DEF reviewVars, ReviewsInv, LeftAsPicture, NamedOnce
  <2>3. PicturesHaveFiles'
    BY <1>2 DEF reviewVars, ReviewsInv, PicturesHaveFiles
  <2>4. QED
    BY <2>1, <2>2, <2>3 DEF ReviewsInv
<1>3. QED
  BY <1>1, <1>2, ReviewsStep

\* Whatever requests run at the same time, the rows and requests of the
\* reviews fit together, and a file that was named once is in one place.
THEOREM ReviewsInvariant == Spec => []ReviewsInv
<1>1. Init => ReviewsInv
  BY ReviewsBegin
<1>2. ReviewsInv /\ inUse \in Mixes /\ [Next]_shopVars => ReviewsInv'
  BY ReviewsKept
<1>3. QED
  BY <1>1, <1>2, MixStays, PTL DEF Spec

\* A picture has its file, unless a removal stopped between file and row, or a
\* request named the file next to a picture with it (update, removeHardReview).
THEOREM PicturesHaveFilesHolds == Spec => []PicturesHaveFiles
<1>1. ReviewsInv => PicturesHaveFiles
  BY DEF ReviewsInv
<1>2. QED
  BY <1>1, ReviewsInvariant, PTL

---------------------------------------------------------------------------
(* Pictures of reference data *)

LEMMA LogosStep ==
    ASSUME [Next]_shopVars
    PROVE  \/ LNext /\ UNCHANGED inUse
           \/ UNCHANGED <<inUse, logoVars>>
BY DEF Next, shopVars

LEMMA IdleLJobType ==
    /\ IdleLJob \in LJob /\ IdleLJob.phase = "idle" /\ IdleLJob.op = "none"
    /\ IdleLJob.old = {} /\ IdleLJob.new = {}
BY PartiesAssumption DEF IdleLJob, LJob

LEMMA LogosFacts ==
    ASSUME LogosInv
    PROVE  /\ Len(logo) \in Nat /\ DOMAIN logo = 1 .. Len(logo) /\ Len(logo) <= MaxRows
           /\ logo \in [1 .. Len(logo) -> LogoRow] /\ logo \in Seq(LogoRow)
           /\ \A i \in DOMAIN logo : logo[i] \in LogoRow /\ logo[i].file \in LogoFiles
           /\ \A i \in DOMAIN logo : i \in 0 .. MaxRows
           /\ inShop \subseteq DOMAIN logo
           /\ ljob \in [Clerks -> LJob] /\ \A k \in Clerks : ljob[k] \in LJob
           /\ \A k \in Clerks : LJobOK(k)
           /\ \A k \in LBusy : k \in Clerks /\ ljob[k].at \in DOMAIN logo
           /\ \A k \in Clerks \ LBusy : ljob[k].old = {} /\ ljob[k].new = {}
<1>1. /\ Len(logo) \in Nat /\ DOMAIN logo = 1 .. Len(logo)
      /\ \A i \in DOMAIN logo : logo[i] \in LogoRow
      /\ logo \in [1 .. Len(logo) -> LogoRow] /\ logo \in Seq(LogoRow)
  BY TableDomain DEF LogosInv, LogosTypeOK
<1>2. \A i \in DOMAIN logo : logo[i].file \in LogoFiles
  BY <1>1 DEF LogoRow
<1>3. MaxRows \in Nat /\ Len(logo) <= MaxRows
  BY PartiesAssumption DEF LogosInv, LogosTypeOK
<1>4. \A i \in DOMAIN logo : i \in 0 .. MaxRows
  BY <1>1, <1>3
<1>5. \A k \in LBusy : k \in Clerks
  BY DEF LBusy
<1>6. \A k \in Clerks : LJobOK(k)
  BY DEF LogosInv
<1>7. \A k \in LBusy : ljob[k].at \in DOMAIN logo
  BY <1>5, <1>6 DEF LJobOK
<1>8. \A k \in Clerks \ LBusy : ljob[k].old = {} /\ ljob[k].new = {}
  BY <1>6 DEF LJobOK
<1>9. QED
  BY <1>1, <1>2, <1>3, <1>4, <1>5, <1>6, <1>7, <1>8 DEF LogosInv, LogosTypeOK

\* The files of two rows are apart.
LEMMA RowsApart ==
    ASSUME LogosInv
    PROVE  /\ \A i, l \in DOMAIN logo : logo[i].file = logo[l].file => i = l
           /\ \A k \in LBusy : \A i \in DOMAIN logo :
                 i # ljob[k].at => logo[i].file \notin ljob[k].old \cup ljob[k].new
           /\ \A k, l \in LBusy : ljob[k].at # ljob[l].at =>
                 (ljob[k].old \cup ljob[k].new) \cap (ljob[l].old \cup ljob[l].new) = {}
<1>1. \A i : logo[i].file \in Named(i)
  BY DEF Named
<1>2. \A k \in LBusy : ljob[k].old \cup ljob[k].new \subseteq Named(ljob[k].at)
  BY DEF Named
<1>3. \A i, l \in DOMAIN logo : i = l \/ Named(i) \cap Named(l) = {}
  BY DEF LogosInv
<1>4. \A k \in LBusy : ljob[k].at \in DOMAIN logo
  BY LogosFacts
<1>5. QED
  BY <1>1, <1>2, <1>3, <1>4

\* The phase of a request changes, and it may remove its old file.
LEMMA LogoMoves ==
    ASSUME LogosInv, NEW k \in LBusy, NEW p \in {"bare", "sent"}, ljob[k].op # "updateBrand",
           ljob' = [ljob EXCEPT ![k].phase = p],
           drive' = drive \/ drive' = drive \ ljob[k].old,
           UNCHANGED <<logo, inShop, doomed, frayed>>
    PROVE  LogosInv'
<1>1. /\ ljob' \in [Clerks -> LJob] /\ ljob'[k].phase = p
      /\ \A l \in Clerks : /\ ljob'[l].op = ljob[l].op /\ ljob'[l].at = ljob[l].at
                           /\ ljob'[l].old = ljob[l].old /\ ljob'[l].new = ljob[l].new
                           /\ ljob'[l].alone = ljob[l].alone
      /\ \A l \in Clerks \ {k} : ljob'[l] = ljob[l]
  BY LogosFacts DEF LJob
<1>2. LBusy' = LBusy
  <2>1. \A l \in Clerks : ljob'[l].phase # "idle" <=> ljob[l].phase # "idle"
    BY <1>1 DEF LBusy
  <2>2. QED
    BY <2>1 DEF LBusy
<1>3. LogosTypeOK'
  BY <1>1 DEF LogosInv, LogosTypeOK
<1>4. ASSUME NEW l \in Clerks PROVE LJobOK(l)'
  <2>1. LJobOK(l)
    BY LogosFacts
  <2>2. \A m \in LBusy : ljob'[m].at = ljob[m].at
    BY <1>1, LogosFacts
  <2>3. ljob'[l].op = "updateBrand" => ljob'[l].phase = ljob[l].phase
    BY <1>1
  <2>4. QED
    BY <2>1, <2>2, <2>3, <1>1, <1>2 DEF LJobOK
<1>5. \A i : Named(i)' = Named(i)
  BY <1>1, <1>2, LogosFacts DEF Named
<1>6. ASSUME NEW l \in LBusy PROVE NewThere(l)'
  <2>1. NewThere(l) /\ l \in Clerks /\ k \in Clerks
    BY LogosFacts DEF LogosInv
  <2>2. \A f \in ljob[l].new \ ljob[l].old : f \notin ljob[k].old
    BY <2>1 DEF NewThere
  <2>3. QED
    BY <2>1, <2>2, <1>1 DEF NewThere
<1>7. ASSUME NEW i \in inShop \ frayed PROVE FileThere(i)'
  <2>1. FileThere(i) /\ i \in DOMAIN logo
    BY LogosFacts DEF LogosInv
  <2>2. CASE i = ljob[k].at
    <3>1. i \in Half(ljob'[k])
      BY <2>2, <1>1, LogosFacts DEF Half
    <3>2. QED
      BY <3>1, <1>2 DEF FileThere
  <2>3. CASE i # ljob[k].at
    <3>1. logo[i].file \notin ljob[k].old
      BY <2>1, <2>3, RowsApart
    <3>2. i \notin Half(ljob[k])
      BY <2>3 DEF Half
    <3>3. \A l \in LBusy \ {k} : Half(ljob'[l]) = Half(ljob[l])
      BY <1>1, LogosFacts
    <3>4. QED
      BY <2>1, <3>1, <3>2, <3>3, <1>2 DEF FileThere
  <2>4. QED
    BY <2>2, <2>3
<1>8. \A i, l \in DOMAIN logo : i = l \/ Named(i)' \cap Named(l)' = {}
  BY <1>5 DEF LogosInv
<1>9. QED
  BY <1>2, <1>3, <1>4, <1>6, <1>7, <1>8 DEF LogosInv

\* A request ends, perhaps half way; it may have deleted the row.
LEMMA LogoEnds ==
    ASSUME LogosInv, NEW k \in LBusy, LDone(k), UNCHANGED <<logo, doomed>>,
           inShop' = inShop \/ inShop' = inShop \ {ljob[k].at},
           drive' = drive \/ drive' = drive \ ljob[k].old,
           frayed \subseteq frayed',
           \/ ljob[k].at \in frayed'
           \/ ljob[k].at \notin inShop' /\ drive' = drive
           \/ Half(ljob[k]) = {} /\ drive' = drive
    PROVE  LogosInv'
<1>1. /\ ljob' \in [Clerks -> LJob] /\ ljob'[k] = IdleLJob /\ k \in Clerks
      /\ \A l \in Clerks \ {k} : ljob'[l] = ljob[l]
  BY LogosFacts, IdleLJobType DEF LDone
<1>2. LBusy' = LBusy \ {k}
  BY <1>1, IdleLJobType DEF LBusy
<1>3. LogosTypeOK'
  BY <1>1 DEF LogosInv, LogosTypeOK
<1>4. ASSUME NEW l \in Clerks PROVE LJobOK(l)'
  <2>1. LJobOK(l)
    BY LogosFacts
  <2>2. CASE l = k
    BY <2>2, <1>1, <1>2, IdleLJobType DEF LJobOK
  <2>3. CASE l # k /\ l \notin LBusy
    BY <2>1, <2>3, <1>1, <1>2 DEF LJobOK
  <2>4. CASE l # k /\ l \in LBusy
    <3>1. ljob'[l] = ljob[l] /\ \A m \in LBusy' : m \in LBusy /\ ljob'[m] = ljob[m]
      BY <2>4, <1>1, <1>2, LogosFacts
    <3>2. ljob[l].alone => ljob[l].at # ljob[k].at
      BY <2>1, <2>4 DEF LJobOK
    <3>3. ljob[l].alone => ljob[l].at \in inShop'
      BY <2>1, <2>4, <3>2 DEF LJobOK
    <3>4. QED
      BY <2>1, <2>4, <3>1, <3>3, <1>2 DEF LJobOK
  <2>5. QED
    BY <2>2, <2>3, <2>4
<1>5. \A i : Named(i)' \subseteq Named(i)
  BY <1>1, <1>2, LogosFacts DEF Named
<1>6. ASSUME NEW l \in LBusy' PROVE NewThere(l)'
  <2>1. NewThere(l) /\ l \in Clerks /\ l # k /\ l \in LBusy
    BY <1>2, LogosFacts DEF LogosInv
  <2>2. \A f \in ljob[l].new \ ljob[l].old : f \notin ljob[k].old
    BY <2>1, <1>1 DEF NewThere
  <2>3. QED
    BY <2>1, <2>2, <1>1, IdleLJobType DEF NewThere
<1>7. ASSUME NEW i \in inShop' \ frayed' PROVE FileThere(i)'
  <2>1. FileThere(i) /\ i \in DOMAIN logo
    BY LogosFacts DEF LogosInv
  <2>2. i \notin Half(ljob[k])
    BY DEF Half
  <2>3. \A l \in LBusy \ {k} : Half(ljob'[l]) = Half(ljob[l])
    BY <1>1, LogosFacts
  <2>4. drive' = drive \/ i # ljob[k].at
    OBVIOUS
  <2>5. drive' = drive \/ logo[i].file \notin ljob[k].old
    BY <2>1, <2>4, RowsApart
  <2>6. QED
    BY <2>1, <2>2, <2>3, <2>5, <1>2 DEF FileThere
<1>8. \A i, l \in DOMAIN logo : i = l \/ Named(i)' \cap Named(l)' = {}
  BY <1>5 DEF LogosInv
<1>9. QED
  BY <1>3, <1>4, <1>6, <1>7, <1>8 DEF LogosInv

\* A request about a row starts; the row stays as it is.
LEMMA LogoStarts ==
    ASSUME LogosInv, NEW k \in Clerks, NEW op, NEW i \in inShop, NEW f \in LogoFiles,
           op \in {"updatePaymentMethod", "updateDeliveryMethod", "removeDeliveryMethod",
                   "updateBrand", "updateThumbnail", "removeBrand"},
           LStart(k, op, i, f), UNCHANGED <<logo, inShop, drive, frayed>>,
           \/ doomed' = doomed
           \/ doomed' = doomed \cup {logo[i].file} /\ op \in {"updateThumbnail", "removeBrand"},
           op = "updateThumbnail" => FreshFile(f)
    PROVE  LogosInv'
<1>1. /\ k \notin LBusy /\ (FreshFile(f) \/ f = logo[i].file) /\ i \in DOMAIN logo
      /\ logo[i].file \in LogoFiles /\ i \in 0 .. MaxRows
  BY LogosFacts DEF LStart
<1>2. PICK J : J = [phase |-> "loaded", op |-> op, at |-> i, old |-> {logo[i].file},
                    new |-> {f}, alone |-> \A l \in LBusy : ljob[l].at # i]
  OBVIOUS
<1>3. /\ J.phase = "loaded" /\ J.op = op /\ J.at = i /\ J.old = {logo[i].file} /\ J.new = {f}
      /\ J.alone <=> \A l \in LBusy : ljob[l].at # i
  BY <1>2, Zenon
<1>4. /\ ljob' \in [Clerks -> LJob]
      /\ ljob'[k].phase = "loaded" /\ ljob'[k].op = op /\ ljob'[k].at = i
      /\ ljob'[k].old = {logo[i].file} /\ ljob'[k].new = {f}
      /\ ljob'[k].alone => \A l \in LBusy : ljob[l].at # i
      /\ \A l \in Clerks \ {k} : /\ ljob'[l].op = ljob[l].op /\ ljob'[l].at = ljob[l].at
                                 /\ ljob'[l].old = ljob[l].old /\ ljob'[l].new = ljob[l].new
                                 /\ ljob'[l].phase = ljob[l].phase
                                 /\ ljob'[l].alone => ljob[l].alone
                                 /\ l \in LBusy /\ ljob'[l].alone => ljob[l].at # i
  <2> DEFINE rivals == {l \in LBusy : ljob[l].at = i}
  <2>1. ljob' = [l \in Clerks |->
                   IF l = k THEN [phase |-> "loaded", op |-> op, at |-> i,
                                  old |-> {logo[i].file}, new |-> {f},
                                  alone |-> rivals = {}]
                   ELSE IF l \in rivals THEN [ljob[l] EXCEPT !.alone = FALSE]
                   ELSE ljob[l]]
    BY DEF LStart
  <2>2. rivals = {} <=> \A l \in LBusy : ljob[l].at # i
    OBVIOUS
  <2>3. \A l \in LBusy : l \in rivals <=> ljob[l].at = i
    OBVIOUS
  <2>4. rivals \subseteq LBusy
    OBVIOUS
  <2>5. (rivals = {}) \in BOOLEAN
    OBVIOUS
  <2> HIDE DEF rivals
  <2>6. [phase |-> "loaded", op |-> op, at |-> i, old |-> {logo[i].file}, new |-> {f},
         alone |-> rivals = {}] \in LJob
    BY <2>5, <1>1 DEF LJob
  <2>7. \A l \in Clerks : [ljob[l] EXCEPT !.alone = FALSE] \in LJob
    BY LogosFacts DEF LJob
  <2>8. ljob' \in [Clerks -> LJob]
    BY <2>1, <2>6, <2>7, LogosFacts
  <2>9. /\ ljob'[k].phase = "loaded" /\ ljob'[k].op = op /\ ljob'[k].at = i
        /\ ljob'[k].old = {logo[i].file} /\ ljob'[k].new = {f}
    BY <2>1
  <2>10. ljob'[k].alone => \A l \in LBusy : ljob[l].at # i
    BY <2>1, <2>2
  <2>11. ASSUME NEW l \in Clerks \ {k}
         PROVE  /\ ljob'[l].op = ljob[l].op /\ ljob'[l].at = ljob[l].at
                /\ ljob'[l].old = ljob[l].old /\ ljob'[l].new = ljob[l].new
                /\ ljob'[l].phase = ljob[l].phase
                /\ ljob'[l].alone => ljob[l].alone
                /\ l \in LBusy /\ ljob'[l].alone => ljob[l].at # i
    <3>1. CASE l \in rivals
      <4>1. ljob'[l] = [ljob[l] EXCEPT !.alone = FALSE] /\ ljob[l] \in LJob
        BY <3>1, <2>1, LogosFacts
      <4>2. QED
        BY <4>1 DEF LJob
    <3>2. CASE l \notin rivals
      BY <3>2, <2>1, <2>3
    <3>3. QED
      BY <3>1, <3>2
  <2>12. QED
    BY <2>8, <2>9, <2>10, <2>11
<1>5. LBusy' = LBusy \cup {k}
  BY <1>4 DEF LBusy
<1>6. LogosTypeOK'
  BY <1>4 DEF LogosInv, LogosTypeOK
<1>7. ASSUME NEW l \in Clerks PROVE LJobOK(l)'
  <2>1. LJobOK(l)
    BY LogosFacts
  <2>2. CASE l = k
    <3>1. ljob'[k].alone => \A m \in LBusy' : ljob'[m].at = i => m = k
      BY <1>4, <1>5, LogosFacts
    <3>2. op = "updateThumbnail" => {f} # {logo[i].file}
      BY <1>1 DEF FreshFile
    <3>3. QED
      BY <2>2, <3>1, <3>2, <1>1, <1>4, <1>5 DEF LJobOK
  <2>3. CASE l # k /\ l \notin LBusy
    BY <2>1, <2>3, <1>4, <1>5 DEF LJobOK
  <2>4. CASE l # k /\ l \in LBusy
    <3>1. ljob'[l].alone => \A m \in LBusy' : ljob'[m].at = ljob[l].at => m = l
      <4>1. ljob'[l].alone => ljob[l].at # i /\ ljob[l].alone
        BY <2>4, <1>4
      <4>2. ljob[l].alone => \A m \in LBusy : ljob[m].at = ljob[l].at => m = l
        BY <2>1, <2>4 DEF LJobOK
      <4>3. QED
        BY <4>1, <4>2, <1>1, <1>4, <1>5, LogosFacts
    <3>2. QED
      BY <2>1, <2>4, <3>1, <1>4, <1>5 DEF LJobOK
  <2>5. QED
    BY <2>2, <2>3, <2>4
<1>8. Named(i)' \subseteq Named(i) \cup {f} /\ \A l : l # i => Named(l)' \subseteq Named(l)
  <2>1. \A m \in LBusy : m # k /\ m \in Clerks
    BY <1>1, LogosFacts
  <2>2. logo[i].file \in Named(i)
    BY DEF Named
  <2>3. QED
    BY <2>1, <2>2, <1>4, <1>5 DEF Named
<1>9. \A l \in DOMAIN logo \ {i} : f \notin Named(l)
  <2>1. CASE FreshFile(f)
    BY <2>1, LogosFacts DEF FreshFile, Named
  <2>2. CASE f = logo[i].file
    <3>1. f \in Named(i)
      BY <2>2 DEF Named
    <3>2. QED
      BY <3>1, <1>1 DEF LogosInv
  <2>3. QED
    BY <2>1, <2>2, <1>1
<1>10. \A l, m \in DOMAIN logo : l = m \/ Named(l)' \cap Named(m)' = {}
  BY <1>8, <1>9 DEF LogosInv
<1>11. ASSUME NEW l \in LBusy' PROVE NewThere(l)'
  <2>1. CASE l = k
    <3>1. CASE FreshFile(f)
      BY <2>1, <3>1, <1>1, <1>4 DEF FreshFile, NewThere
    <3>2. CASE f = logo[i].file
      BY <2>1, <3>2, <1>4 DEF NewThere
    <3>3. QED
      BY <3>1, <3>2, <1>1
  <2>2. CASE l # k
    <3>1. NewThere(l) /\ l \in LBusy /\ l \in Clerks
      BY <2>2, <1>5, LogosFacts DEF LogosInv
    <3>2. ASSUME NEW g \in ljob[l].new \ ljob[l].old
          PROVE  g # logo[i].file /\ g # f
      <4>1. g # logo[ljob[l].at].file
        BY <3>1 DEF NewThere
      <4>2. g # logo[i].file
        BY <4>1, <3>1, <1>1, RowsApart
      <4>3. FreshFile(f) => g # f
        BY <3>1 DEF FreshFile
      <4>4. QED
        BY <4>2, <4>3, <1>1
    <3>3. QED
      BY <2>2, <3>1, <3>2, <1>4 DEF NewThere
  <2>3. QED
    BY <2>1, <2>2
<1>12. ASSUME NEW l \in inShop \ frayed PROVE FileThere(l)'
  <2>1. FileThere(l) /\ l \in DOMAIN logo
    BY LogosFacts DEF LogosInv
  <2>2. \A m \in LBusy : Half(ljob[m]) = Half(ljob'[m]) /\ m \in LBusy'
    BY <1>1, <1>4, <1>5, LogosFacts DEF Half
  <2>3. doomed' = doomed \/ l # i \/ l \in Half(ljob'[k])
    BY <1>4 DEF Half
  <2>4. l # i => logo[l].file # logo[i].file
    BY <2>1, <1>1, RowsApart
  <2>5. QED
    BY <2>1, <2>2, <2>3, <2>4, <1>5 DEF FileThere
<1>13. QED
  BY <1>6, <1>7, <1>10, <1>11, <1>12 DEF LogosInv

\* A request stores the whole row with its new file, and ends.
LEMMA LogoSaves ==
    ASSUME LogosInv, NEW k \in LBusy, SaveLogo(k),
           frayed \ {ljob[k].at} \subseteq frayed',
           \/ ljob[k].at \in frayed'
           \/ ljob[k].alone /\ ljob[k].new # ljob[k].old
           \/ ljob[k].alone /\ ljob[k].op = "updateBrand" /\ ljob[k].at \notin frayed
    PROVE  LogosInv'
<1>1. PICK at : at = ljob[k].at
  OBVIOUS
<1>2. PICK f \in ljob[k].new : logo' = [logo EXCEPT ![ljob[k].at].file = f]
  BY DEF SaveLogo, Stored
<1>3. /\ k \in Clerks /\ at \in DOMAIN logo /\ LJobOK(k) /\ f \in LogoFiles
      /\ ljob[k].new = {f} /\ \E g \in LogoFiles : ljob[k].old = {g}
  BY <1>1, LogosFacts DEF LJobOK
<1>4. /\ ljob' \in [Clerks -> LJob] /\ ljob'[k] = IdleLJob
      /\ \A l \in Clerks \ {k} : ljob'[l] = ljob[l]
      /\ LBusy' = LBusy \ {k}
      /\ inShop' = inShop \cup {at} /\ UNCHANGED <<drive, doomed>>
  <2>1. ljob' = [ljob EXCEPT ![k] = IdleLJob] /\ inShop' = inShop \cup {at}
        /\ UNCHANGED <<drive, doomed>>
    BY <1>1 DEF SaveLogo, LDone
  <2>2. /\ ljob' \in [Clerks -> LJob] /\ ljob'[k] = IdleLJob
        /\ \A l \in Clerks \ {k} : ljob'[l] = ljob[l]
    BY <2>1, <1>3, LogosFacts, IdleLJobType
  <2>3. LBusy' = LBusy \ {k}
    BY <2>2, IdleLJobType DEF LBusy
  <2>4. QED
    BY <2>1, <2>2, <2>3
<1>5. /\ logo' \in Seq(LogoRow) /\ Len(logo') = Len(logo) /\ DOMAIN logo' = DOMAIN logo
      /\ logo'[at].file = f
      /\ \A i \in DOMAIN logo \ {at} : logo'[i] = logo[i]
  <2>1. PICK row : row = [logo[at] EXCEPT !.file = f]
    OBVIOUS
  <2>2. row \in LogoRow /\ row.file = f
    BY <2>1, <1>3, LogosFacts DEF LogoRow
  <2>3. logo' = [logo EXCEPT ![at] = row]
    BY <2>1, <1>1, <1>2, <1>3, LogosFacts
  <2>4. PICK n \in Nat : n = Len(logo) /\ DOMAIN logo = 1 .. n /\ logo \in [1 .. n -> LogoRow]
    BY LogosFacts
  <2>5. logo' \in [1 .. n -> LogoRow] /\ logo'[at] = row
        /\ \A i \in DOMAIN logo \ {at} : logo'[i] = logo[i]
    BY <2>2, <2>3, <2>4, <1>3
  <2>6. logo' \in Seq(LogoRow) /\ Len(logo') = n /\ DOMAIN logo' = 1 .. n
    BY <2>4, <2>5, TableOf
  <2>7. QED
    BY <2>2, <2>4, <2>5, <2>6
<1>6. LogosTypeOK'
  BY <1>3, <1>4, <1>5, LogosFacts DEF LogosTypeOK
<1>7. ASSUME NEW l \in Clerks PROVE LJobOK(l)'
  <2>1. LJobOK(l)
    BY LogosFacts
  <2>2. CASE l = k
    BY <2>2, <1>4, IdleLJobType DEF LJobOK
  <2>3. CASE l # k /\ l \notin LBusy
    BY <2>1, <2>3, <1>4 DEF LJobOK
  <2>4. CASE l # k /\ l \in LBusy
    <3>1. ljob'[l] = ljob[l] /\ l \in LBusy' /\ ljob[l].at \in DOMAIN logo
          /\ \A m \in LBusy' : m \in LBusy /\ ljob'[m] = ljob[m]
      BY <2>4, <1>4, LogosFacts
    <3>2. ljob[l].alone => ljob[l].at # at
      BY <2>1, <2>4, <1>1 DEF LJobOK
    <3>3. ljob[l].alone => logo'[ljob[l].at] = logo[ljob[l].at]
      BY <3>1, <3>2, <1>5
    <3>4. QED
      BY <2>1, <2>4, <3>1, <3>3, <1>4, <1>5 DEF LJobOK
  <2>5. QED
    BY <2>2, <2>3, <2>4
<1>8. \A i \in DOMAIN logo : Named(i)' \subseteq Named(i)
  <2>1. f \in Named(at)
    BY <1>1, <1>2 DEF Named
  <2>2. \A i \in DOMAIN logo : logo'[i].file \in Named(i)
    <3>1. \A i \in DOMAIN logo \ {at} : logo'[i].file \in Named(i)
      BY <1>5 DEF Named
    <3>2. QED
      BY <2>1, <3>1, <1>5
  <2>3. \A l \in LBusy' : l \in LBusy /\ ljob'[l] = ljob[l]
    BY <1>4, LogosFacts
  <2>4. QED
    BY <2>2, <2>3 DEF Named
<1>9. \A i, l \in DOMAIN logo : i = l \/ Named(i)' \cap Named(l)' = {}
  BY <1>8 DEF LogosInv
<1>10. ASSUME NEW l \in LBusy' PROVE NewThere(l)'
  <2>1. NewThere(l) /\ l \in Clerks /\ l # k /\ l \in LBusy /\ ljob[l].at \in DOMAIN logo
    BY <1>4, LogosFacts DEF LogosInv
  <2>2. \A g \in ljob[l].new \ ljob[l].old : g # f
    BY <2>1, <1>2, <1>3 DEF NewThere
  <2>3. \A g \in ljob[l].new \ ljob[l].old : g # logo'[ljob[l].at].file
    <3>1. CASE ljob[l].at = at
      BY <3>1, <2>2, <1>5
    <3>2. CASE ljob[l].at # at
      BY <3>2, <2>1, <1>5 DEF NewThere
    <3>3. QED
      BY <3>1, <3>2
  <2>4. QED
    BY <2>1, <2>3, <1>4, IdleLJobType DEF NewThere
<1>11. ASSUME NEW i \in inShop' \ frayed' PROVE FileThere(i)'
  <2>1. CASE i = at
    <3>1. CASE ljob[k].new # ljob[k].old
      <4>1. f \in ljob[k].new \ ljob[k].old
        BY <3>1, <1>3
      <4>2. f \in drive \ doomed
        BY <4>1 DEF LogosInv, NewThere
      <4>3. QED
        BY <4>2, <2>1, <1>4, <1>5 DEF FileThere
    <3>2. CASE ljob[k].new = ljob[k].old
      <4>1. ljob[k].alone /\ ljob[k].op = "updateBrand" /\ at \notin frayed
        BY <3>2, <2>1, <1>1
      <4>2. /\ at \in inShop /\ ljob[k].old = {logo[at].file}
            /\ \A l \in LBusy : ljob[l].at = at => l = k
            /\ ljob[k].phase = "loaded"
        BY <4>1, <1>1, <1>3 DEF LJobOK
      <4>3. \A l \in LBusy : at \notin Half(ljob[l])
        BY <4>1, <4>2 DEF Half
      <4>4. logo[at].file \in drive \ doomed
        BY <4>1, <4>2, <4>3 DEF LogosInv, FileThere
      <4>5. f = logo[at].file
        BY <4>2, <3>2, <1>3
      <4>6. QED
        BY <4>4, <4>5, <2>1, <1>4, <1>5 DEF FileThere
    <3>3. QED
      BY <3>1, <3>2
  <2>2. CASE i # at
    <3>1. i \in inShop /\ i \notin frayed /\ i \in DOMAIN logo /\ logo'[i] = logo[i]
      BY <2>2, <1>1, <1>4, <1>5, LogosFacts
    <3>2. FileThere(i)
      BY <3>1 DEF LogosInv
    <3>3. i \notin Half(ljob[k])
      BY <2>2, <1>1 DEF Half
    <3>4. \A l \in LBusy \ {k} : Half(ljob'[l]) = Half(ljob[l])
      BY <1>4, LogosFacts
    <3>5. QED
      BY <3>1, <3>2, <3>3, <3>4, <1>4 DEF FileThere
  <2>3. QED
    BY <2>1, <2>2
<1>12. QED
  BY <1>5, <1>6, <1>7, <1>9, <1>10, <1>11 DEF LogosInv

LEMMA InsertLogoKeeps ==
    ASSUME LogosInv, inUse \in Mixes, NEW t \in LogoTables, NEW f \in LogoFiles,
           InsertLogo(t, f)
    PROVE  LogosInv'
<1>1. PICK n : n = Len(logo)
  OBVIOUS
<1>2. PICK row : row = [table |-> t, file |-> f]
  OBVIOUS
<1>3. /\ n < inUse.rows /\ FreshFile(f) /\ logo' = Append(logo, row)
      /\ inShop' = inShop \cup {n + 1} /\ UNCHANGED <<drive, doomed, ljob, frayed>>
  BY <1>1, <1>2 DEF InsertLogo, HasRoom
<1>4. row \in LogoRow /\ row.file = f
  BY <1>2 DEF LogoRow
<1>5. n \in Nat /\ DOMAIN logo = 1 .. n /\ logo \in Seq(LogoRow)
  BY <1>1, LogosFacts
<1>6. /\ logo' \in Seq(LogoRow) /\ Len(logo') = n + 1 /\ DOMAIN logo' = 1 .. (n + 1)
      /\ \A i \in 1 .. n : logo'[i] = logo[i]
      /\ logo'[n + 1].file = f
  BY <1>1, <1>3, <1>4, <1>5, AppendRow
<1>7. n + 1 <= MaxRows
  <2>1. inUse.rows \in Int /\ inUse.rows <= MaxRows /\ MaxRows \in Nat
    BY PartiesAssumption
  <2>2. QED
    BY <2>1, <1>3, <1>5
<1>8. LogosTypeOK'
  BY <1>3, <1>5, <1>6, <1>7, LogosFacts DEF LogosTypeOK
<1>9. LBusy' = LBusy
  BY <1>3 DEF LBusy
<1>10. \A l \in LBusy : ljob[l].at \in 1 .. n /\ logo'[ljob[l].at] = logo[ljob[l].at]
  BY <1>5, <1>6, LogosFacts
<1>11. \A l \in Clerks : LJobOK(l)'
  BY <1>3, <1>5, <1>6, <1>9, <1>10, LogosFacts DEF LJobOK
<1>12. Named(n + 1)' = {f} /\ \A i \in 1 .. n : Named(i)' = Named(i)
  <2>1. \A l \in LBusy : ljob[l].at # n + 1
    BY <1>5, <1>10
  <2>2. {l \in LBusy' : ljob'[l].at = n + 1} = {}
    BY <2>1, <1>3, <1>9
  <2>3. Named(n + 1)' = {f}
    <3>1. n' = n
      OBVIOUS
    <3>2. QED
      BY <2>2, <3>1, <1>6 DEF Named
  <2>4. \A i \in 1 .. n : Named(i)' = Named(i)
    BY <1>3, <1>6, <1>9 DEF Named
  <2>5. QED
    BY <2>3, <2>4
<1>13. \A i \in 1 .. n : f \notin Named(i)
  BY <1>3, <1>5, LogosFacts DEF FreshFile, Named
<1>14. \A i \in 1 .. (n + 1) : i = n + 1 \/ i \in 1 .. n
  BY <1>5
<1>15. ASSUME NEW i \in 1 .. (n + 1), NEW l \in 1 .. (n + 1), i # l
       PROVE  Named(i)' \cap Named(l)' = {}
  <2>1. CASE i \in 1 .. n /\ l \in 1 .. n
    BY <2>1, <1>5, <1>12, <1>15 DEF LogosInv
  <2>2. CASE i = n + 1 /\ l \in 1 .. n
    BY <2>2, <1>12, <1>13
  <2>3. CASE l = n + 1 /\ i \in 1 .. n
    BY <2>3, <1>12, <1>13
  <2>4. QED
    BY <2>1, <2>2, <2>3, <1>14, <1>15
<1>16. ASSUME NEW l \in LBusy PROVE NewThere(l)'
  <2>1. NewThere(l) /\ logo'[ljob[l].at] = logo[ljob[l].at]
    BY <1>10 DEF LogosInv
  <2>2. UNCHANGED <<drive, doomed, ljob>>
    BY <1>3
  <2>3. QED
    BY <2>1, <2>2 DEF NewThere
<1>17. ASSUME NEW i \in inShop' \ frayed PROVE FileThere(i)'
  <2>1. CASE i = n + 1
    BY <2>1, <1>3, <1>6 DEF FreshFile, FileThere
  <2>2. CASE i \in inShop
    BY <2>2, <1>3, <1>5, <1>6, <1>9, LogosFacts DEF LogosInv, FileThere
  <2>3. QED
    BY <2>1, <2>2, <1>3
<1>18. QED
  BY <1>3, <1>6, <1>8, <1>9, <1>11, <1>15, <1>16, <1>17 DEF LogosInv

LEMMA DropFileKeeps ==
    ASSUME LogosInv, NEW f \in LogoFiles, DropFile(f)
    PROVE  LogosInv'
<1>1. drive' \ doomed' = drive \ doomed /\ UNCHANGED <<logo, inShop, ljob, frayed>>
  BY DEF DropFile
<1>2. LBusy' = LBusy /\ \A i : Named(i)' = Named(i)
  BY <1>1 DEF LBusy, Named
<1>3. LogosTypeOK' /\ \A k \in Clerks : LJobOK(k)'
  BY <1>1, <1>2 DEF LogosInv, LogosTypeOK, LJobOK
<1>4. \A k \in LBusy : NewThere(k)'
  BY <1>1 DEF LogosInv, NewThere
<1>5. \A i \in inShop \ frayed : FileThere(i)'
  BY <1>1, <1>2 DEF LogosInv, FileThere
<1>6. QED
  BY <1>1, <1>2, <1>3, <1>4, <1>5 DEF LogosInv

LEMMA LRestartKeeps ==
    ASSUME LogosInv, LRestart
    PROVE  LogosInv'
<1>1. /\ frayed' = frayed \cup UNION {Half(ljob[k]) : k \in Clerks}
      /\ doomed' = {} /\ ljob' = [k \in Clerks |-> IdleLJob]
      /\ UNCHANGED <<logo, inShop, drive>>
  BY DEF LRestart
<1>2. LBusy' = {}
  BY <1>1, IdleLJobType DEF LBusy
<1>3. LogosTypeOK' /\ \A k \in Clerks : LJobOK(k)'
  BY <1>1, <1>2, IdleLJobType DEF LogosInv, LogosTypeOK, LJobOK
<1>4. \A i : Named(i)' \subseteq Named(i)
  BY <1>1, <1>2 DEF Named
<1>5. ASSUME NEW i \in inShop \ frayed' PROVE FileThere(i)'
  <2>1. \A k \in LBusy : i \notin Half(ljob[k])
    BY <1>1, LogosFacts
  <2>2. logo[i].file \in drive \ doomed
    BY <2>1, <1>1 DEF LogosInv, FileThere
  <2>3. QED
    BY <2>2, <1>1 DEF FileThere
<1>6. QED
  BY <1>1, <1>2, <1>3, <1>4, <1>5 DEF LogosInv

LEMMA LogosBegin == Init => LogosInv
<1> SUFFICES ASSUME Init PROVE LogosInv
  OBVIOUS
<1>1. LInit /\ MaxRows \in Nat
  BY PartiesAssumption DEF Init
<1>2. logo \in Seq(LogoRow) /\ Len(logo) = 0 /\ DOMAIN logo = {}
  BY <1>1, EmptySeq DEF LInit
<1>3. ljob \in [Clerks -> LJob] /\ \A k \in Clerks : ljob[k] = IdleLJob
  BY <1>1, IdleLJobType DEF LInit
<1>4. LBusy = {}
  BY <1>3, IdleLJobType DEF LBusy
<1>5. LogosTypeOK /\ \A k \in Clerks : LJobOK(k)
  BY <1>1, <1>2, <1>3, <1>4, IdleLJobType DEF LInit, LogosTypeOK, LJobOK
<1>6. QED
  BY <1>1, <1>2, <1>4, <1>5 DEF LInit, LogosInv

\* The steps of the requests in flight.
LEMMA LogoJobsKeep ==
    ASSUME LogosInv, NEW k \in Clerks
    PROVE  /\ UpdatePaymentMethodRemove(k) => LogosInv'
           /\ UpdatePaymentMethodSave(k) => LogosInv'
           /\ UpdateDeliveryMethodRemove(k) => LogosInv'
           /\ RemoveDeliveryMethodRemove(k) => LogosInv'
           /\ RemoveDeliveryMethod(k) => LogosInv'
           /\ UpdateBrandSave(k) => LogosInv'
           /\ UpdateThumbnailAnswer(k) => LogosInv'
           /\ UpdateThumbnailSave(k) => LogosInv'
           /\ RemoveBrand(k) => LogosInv'
           /\ LAbort(k) => LogosInv'
<1>1. LJobOK(k) /\ (ljob[k].op # "none" => k \in LBusy) /\ (k \in LBusy => LJobOK(k))
  BY LogosFacts DEF LJobOK
<1>2. UpdatePaymentMethodRemove(k) => LogosInv'
  BY <1>1, LogoMoves DEF UpdatePaymentMethodRemove, RemoveLogo
<1>3. UpdatePaymentMethodSave(k) => LogosInv'
  <2> SUFFICES ASSUME UpdatePaymentMethodSave(k) PROVE LogosInv'
    OBVIOUS
  <2>1. k \in LBusy /\ SaveLogo(k)
        /\ frayed' = IF ljob[k].alone /\ ljob[k].new # ljob[k].old
                       THEN frayed \ {ljob[k].at} ELSE frayed \cup {ljob[k].at}
    BY <1>1 DEF UpdatePaymentMethodSave
  <2>2. QED
    BY <2>1, LogoSaves
<1>4. UpdateDeliveryMethodRemove(k) => LogosInv'
  BY <1>1, LogoEnds DEF UpdateDeliveryMethodRemove, RemoveLogo
<1>5. RemoveDeliveryMethodRemove(k) => LogosInv'
  BY <1>1, LogoMoves DEF RemoveDeliveryMethodRemove, RemoveLogo
<1>6. RemoveDeliveryMethod(k) => LogosInv'
  BY <1>1, LogoEnds DEF RemoveDeliveryMethod, DeleteLogo
<1>7. UpdateBrandSave(k) => LogosInv'
  <2> SUFFICES ASSUME UpdateBrandSave(k) PROVE LogosInv'
    OBVIOUS
  <2>1. k \in LBusy /\ SaveLogo(k) /\ ljob[k].op = "updateBrand"
        /\ frayed' = IF ljob[k].alone THEN frayed ELSE frayed \cup {ljob[k].at}
    BY <1>1 DEF UpdateBrandSave
  <2>2. QED
    BY <2>1, LogoSaves
<1>8. UpdateThumbnailAnswer(k) => LogosInv'
  BY <1>1, LogoMoves DEF UpdateThumbnailAnswer
<1>9. UpdateThumbnailSave(k) => LogosInv'
  <2> SUFFICES ASSUME UpdateThumbnailSave(k) PROVE LogosInv'
    OBVIOUS
  <2>1. k \in LBusy /\ SaveLogo(k) /\ ljob[k].new # ljob[k].old
        /\ frayed' = IF ljob[k].alone THEN frayed \ {ljob[k].at} ELSE frayed \cup {ljob[k].at}
    BY <1>1 DEF UpdateThumbnailSave, LJobOK
  <2>2. QED
    BY <2>1, LogoSaves
<1>10. RemoveBrand(k) => LogosInv'
  BY <1>1, LogoEnds DEF RemoveBrand, DeleteLogo
<1>11. LAbort(k) => LogosInv'
  <2> SUFFICES ASSUME LAbort(k) PROVE LogosInv'
    OBVIOUS
  <2>1. /\ k \in LBusy /\ LDone(k) /\ frayed' = frayed \cup Half(ljob[k])
        /\ UNCHANGED <<logo, inShop, drive, doomed>>
    BY DEF LAbort
  <2>2. Half(ljob[k]) = {} \/ ljob[k].at \in Half(ljob[k])
    BY DEF Half
  <2>3. QED
    BY <2>1, <2>2, LogoEnds
<1>12. QED
  BY <1>2, <1>3, <1>4, <1>5, <1>6, <1>7, <1>8, <1>9, <1>10, <1>11

LEMMA LogosKept == LogosInv /\ inUse \in Mixes /\ [Next]_shopVars => LogosInv'
<1> SUFFICES ASSUME LogosInv, inUse \in Mixes, [Next]_shopVars PROVE LogosInv'
  OBVIOUS
<1>1. CASE LNext
  <2>1. \A t \in LogoTables, f \in LogoFiles : InsertLogo(t, f) => LogosInv'
    BY InsertLogoKeeps
  <2>2. ASSUME NEW f \in LogoFiles, CreatePaymentMethod(f) \/ CreateDeliveryMethod(f) \/ CreateBrand(f)
        PROVE  LogosInv'
    BY <2>1, <2>2 DEF CreatePaymentMethod, CreateDeliveryMethod, CreateBrand, LogoTables
  <2>3. ASSUME NEW f \in LogoFiles, NEW k \in Clerks, NEW i \in inShop,
               \/ UpdatePaymentMethodLoad(k, i, f) \/ UpdateDeliveryMethodLoad(k, i, f)
               \/ UpdateBrandLoad(k, i, f) \/ UpdateThumbnailLoad(k, i, f)
        PROVE  LogosInv'
    BY <2>3, LogoStarts DEF UpdatePaymentMethodLoad, UpdateDeliveryMethodLoad, UpdateBrandLoad,
       UpdateThumbnailLoad
  <2>4. ASSUME NEW k \in Clerks, NEW i \in inShop,
               RemoveDeliveryMethodLoad(k, i) \/ RemoveBrandLoad(k, i)
        PROVE  LogosInv'
    <3>1. PICK f \in LogoFiles : f = logo[i].file
      BY LogosFacts
    <3>2. QED
      BY <2>4, <3>1, LogoStarts DEF RemoveDeliveryMethodLoad, RemoveBrandLoad
  <2>5. QED
    BY <1>1, <2>2, <2>3, <2>4, LogoJobsKeep, DropFileKeeps, LRestartKeeps
       DEF LNext, PaymentMethodController, DeliveryMethodController, BrandController
<1>2. CASE UNCHANGED logoVars
  <2>1. UNCHANGED <<logo, inShop, drive, doomed, ljob, frayed>>
    BY <1>2 DEF logoVars
  <2>2. LBusy' = LBusy /\ \A i : Named(i)' = Named(i)
    BY <2>1 DEF LBusy, Named
  <2>3. LogosTypeOK' /\ \A k \in Clerks : LJobOK(k)'
    BY <2>1, <2>2 DEF LogosInv, LogosTypeOK, LJobOK
  <2>4. \A k \in LBusy : NewThere(k)'
    BY <2>1 DEF LogosInv, NewThere
  <2>5. \A i \in inShop \ frayed : FileThere(i)'
    BY <2>1, <2>2 DEF LogosInv, FileThere
  <2>6. QED
    BY <2>1, <2>2, <2>3, <2>4, <2>5 DEF LogosInv
<1>3. QED
  BY <1>1, <1>2, LogosStep

\* Whatever requests run at the same time, two rows never name one file, a
\* file that a request brings stays until it is stored, and only a request
\* that has begun to remove the file of a row leaves the row without.
THEOREM LogosInvariant == Spec => []LogosInv
<1>1. Init => LogosInv
  BY LogosBegin
<1>2. LogosInv /\ inUse \in Mixes /\ [Next]_shopVars => LogosInv'
  BY LogosKept
<1>3. QED
  BY <1>1, <1>2, MixStays, PTL DEF Spec

\* A row that no request is about names a file that is there, unless requests
\* left the row frayed (update, remove, updateThumbnail).
THEOREM LogosHaveFilesHolds == Spec => []LogosHaveFiles
<1>1. LogosInv => LogosHaveFiles
  <2> SUFFICES ASSUME LogosInv,
                      NEW i \in inShop \ (frayed \cup {ljob[k].at : k \in LBusy})
               PROVE  logo[i].file \in drive \ doomed
    BY DEF LogosHaveFiles
  <2>1. \A k \in LBusy : i \notin Half(ljob[k])
    BY DEF Half
  <2>2. QED
    BY <2>1 DEF LogosInv, FileThere
<1>2. QED
  BY <1>1, LogosInvariant, PTL

---------------------------------------------------------------------------
(* Blogs *)

LEMMA BlogsStep ==
    ASSUME [Next]_shopVars
    PROVE  \/ BNext /\ UNCHANGED inUse
           \/ UNCHANGED <<inUse, blogVars>>
BY DEF Next, shopVars

LEMMA IdleBJobType ==
    /\ IdleBJob \in BJob /\ IdleBJob.phase = "idle" /\ IdleBJob.op = "none"
    /\ IdleBJob.at = 0 /\ IdleBJob.old = {} /\ IdleBJob.new = {}
BY PartiesAssumption DEF IdleBJob, BJob, Nowhere

LEMMA BlogsFacts ==
    ASSUME BlogsInv
    PROVE  /\ Len(blog) \in Nat /\ DOMAIN blog = 1 .. Len(blog) /\ DOMAIN blog \subseteq Rows
           /\ Len(blog) <= MaxBlogs /\ MaxBlogs \in 0 .. MaxRows /\ MaxRows \in Nat
           /\ blog \in [1 .. Len(blog) -> Blog] /\ blog \in Seq(Blog)
           /\ \A b \in DOMAIN blog : /\ blog[b] \in Blog /\ blog[b].photos \subseteq Photos
                                     /\ blog[b].category \in 0 .. MaxRows /\ b \in 0 .. MaxRows
           /\ posted \subseteq DOMAIN blog
           /\ opened \in 0 .. MaxRows /\ topics \subseteq 1 .. opened
           /\ \A t \in topics : t \in 0 .. MaxRows
           /\ bjob \in [Clerks -> BJob] /\ \A k \in Clerks : bjob[k] \in BJob
           /\ \A k \in Clerks : BJobOK(k)
           /\ \A k \in BBusy : k \in Clerks
           /\ \A k \in Clerks : /\ bjob[k].old \subseteq Photos /\ bjob[k].new \subseteq Photos
                                /\ bjob[k].category \in 0 .. MaxRows
                                /\ bjob[k].op # "none" => k \in BBusy
<1>1. /\ Len(blog) \in Nat /\ DOMAIN blog = 1 .. Len(blog)
      /\ \A b \in DOMAIN blog : blog[b] \in Blog
      /\ blog \in [1 .. Len(blog) -> Blog] /\ blog \in Seq(Blog)
  BY TableDomain DEF BlogsInv, BlogsTypeOK
<1>2. \A b \in DOMAIN blog : blog[b].photos \subseteq Photos /\ blog[b].category \in 0 .. MaxRows
  BY <1>1 DEF Blog
<1>3. MaxRows \in Nat /\ MaxBlogs \in 0 .. MaxRows /\ Len(blog) <= MaxBlogs
  BY PartiesAssumption, BlogsAssumption DEF BlogsInv, BlogsTypeOK
<1>4. DOMAIN blog \subseteq Rows /\ \A b \in DOMAIN blog : b \in 0 .. MaxRows
  BY <1>1, <1>3 DEF Rows
<1>5. opened \in 0 .. MaxRows /\ topics \subseteq 1 .. opened
  BY DEF BlogsInv, BlogsTypeOK
<1>6. \A t \in topics : t \in 0 .. MaxRows
  BY <1>3, <1>5
<1>7. \A k \in Clerks : bjob[k] \in BJob
  BY DEF BlogsInv, BlogsTypeOK
<1>8. \A k \in Clerks : /\ bjob[k].old \subseteq Photos /\ bjob[k].new \subseteq Photos
                        /\ bjob[k].category \in 0 .. MaxRows
  BY <1>7 DEF BJob
<1>9. \A k \in Clerks : BJobOK(k)
  BY DEF BlogsInv
<1>10. \A k \in Clerks : bjob[k].op # "none" => k \in BBusy
  BY <1>9 DEF BJobOK
<1>11. \A k \in BBusy : k \in Clerks
  BY DEF BBusy
<1>12. QED
  BY <1>1, <1>2, <1>3, <1>4, <1>5, <1>6, <1>7, <1>8, <1>9, <1>10, <1>11
     DEF BlogsInv, BlogsTypeOK

\* A request with what j holds starts.
LEMMA BlogStarts ==
    ASSUME BlogsInv, NEW k \in Clerks, NEW j \in BJob, BStart(k, j),
           \/ /\ j.op = "updateBlog" /\ j.at \in DOMAIN blog /\ j.old = blog[j.at].photos
              /\ \A f \in j.new : FreshPhoto(f) \/ f \in blog[j.at].photos
           \/ j.op = "createBlog" /\ j.old = {} /\ \A f \in j.new : FreshPhoto(f)
           \/ j.op = "updateTopic" /\ j.at \in 1 .. opened /\ j.old = {} /\ j.new = {}
    PROVE  BlogsInv'
<1>1. /\ k \notin BBusy
      /\ bjob' = [i \in Clerks |->
                    IF i = k THEN [j EXCEPT !.phase = "loaded", !.alone = BBusy = {}]
                             ELSE [bjob[i] EXCEPT !.alone = FALSE]]
      /\ UNCHANGED <<opened, topics, blog, posted, stock, filedAs, blurred>>
  BY DEF BStart, BDatabase
<1>2. PICK lonely \in BOOLEAN : lonely = (BBusy = {})
  OBVIOUS
<1>3. PICK J : J = [j EXCEPT !.phase = "loaded", !.alone = lonely]
  OBVIOUS
<1>4. /\ J \in BJob /\ J.phase = "loaded" /\ J.alone = lonely /\ J.op = j.op /\ J.at = j.at
      /\ J.old = j.old /\ J.new = j.new
  BY <1>3 DEF BJob
<1>5. bjob'[k] = J
  BY <1>1, <1>2, <1>3
<1>6. ASSUME NEW i \in Clerks \ {k}
      PROVE  /\ bjob'[i] \in BJob /\ bjob'[i].alone = FALSE /\ bjob'[i].phase = bjob[i].phase
             /\ bjob'[i].op = bjob[i].op /\ bjob'[i].at = bjob[i].at
             /\ bjob'[i].old = bjob[i].old /\ bjob'[i].new = bjob[i].new
  <2>1. bjob'[i] = [bjob[i] EXCEPT !.alone = FALSE] /\ bjob[i] \in BJob
    BY <1>1, BlogsFacts
  <2>2. QED
    BY <2>1 DEF BJob
<1>7. bjob' \in [Clerks -> BJob]
  <2>1. \A i \in Clerks : bjob'[i] \in BJob
    BY <1>4, <1>5, <1>6
  <2>2. \E F : bjob' = [i \in Clerks |-> F[i]]
    <3>1. bjob' = [i \in Clerks |-> bjob'[i]]
      BY <1>1
    <3>2. QED
      BY <3>1
  <2>3. QED
    BY <2>1, <2>2
<1>8. BBusy' = BBusy \cup {k}
  <2>1. \A i \in Clerks : bjob'[i].phase # "idle" <=> i \in BBusy \/ i = k
    BY <1>4, <1>5, <1>6 DEF BBusy
  <2>2. QED
    BY <2>1, BlogsFacts DEF BBusy
<1>9. BlogsTypeOK'
  BY <1>1, <1>7 DEF BlogsInv, BlogsTypeOK
<1>10. \A f \in j.new : FreshPhoto(f) => f \in stock
  BY DEF FreshPhoto
<1>11. ASSUME NEW i \in Clerks PROVE BJobOK(i)'
  <2>1. CASE i = k
    <3>1. J.alone => BBusy' = {k}
      BY <1>2, <1>4, <1>8
    <3>2. J.new \ J.old \subseteq stock
      BY <1>4, <1>10
    <3>3. J.op = "createBlog" => J.new \subseteq stock
      BY <1>4, <1>10
    <3>4. QED
      BY <2>1, <3>1, <3>2, <3>3, <1>1, <1>4, <1>5, <1>8 DEF BJobOK
  <2>2. CASE i # k
    <3>1. BJobOK(i)
      BY BlogsFacts
    <3>2. i \in BBusy' <=> i \in BBusy
      BY <2>2, <1>8
    <3>3. QED
      BY <2>2, <3>1, <3>2, <1>1, <1>6 DEF BJobOK
  <2>3. QED
    BY <2>1, <2>2
<1>12. ASSUME NEW f \in Photos PROVE PhotoOnce(f)'
  <2>1. PhotoOnce(f)
    BY DEF BlogsInv
  <2>2. CASE f \notin j.old \cup j.new
    <3>1. \A i \in Clerks : f \in bjob'[i].old \cup bjob'[i].new =>
             /\ i # k /\ f \in bjob[i].old \cup bjob[i].new
             /\ bjob'[i].op = bjob[i].op /\ bjob'[i].at = bjob[i].at
      BY <2>2, <1>4, <1>5, <1>6
    <3>2. \A i \in Clerks : f \in bjob'[i].old \cup bjob'[i].new =>
             \A b \in DOMAIN blog :
                f \in blog[b].photos => bjob'[i].op = "updateBlog" /\ bjob'[i].at = b
      BY <2>1, <3>1 DEF PhotoOnce
    <3>3. \A i \in Clerks : f \in bjob'[i].old \cup bjob'[i].new =>
             \A l \in Clerks \ {i} : f \in bjob'[l].old \cup bjob'[l].new =>
                /\ bjob'[i].op = "updateBlog" /\ bjob'[l].op = "updateBlog"
                /\ bjob'[i].at = bjob'[l].at
      BY <2>1, <3>1 DEF PhotoOnce
    <3>4. blog' = blog
      BY <1>1
    <3>5. \A b, c \in DOMAIN blog : f \in blog[b].photos \cap blog[c].photos => b = c
      BY <2>1 DEF PhotoOnce
    <3>6. QED
      BY <3>2, <3>3, <3>4, <3>5 DEF PhotoOnce
  <2>3. CASE f \in j.old \cup j.new /\ FreshPhoto(f)
    <3>1. \A b \in DOMAIN blog : f \notin blog[b].photos
      BY <2>3 DEF FreshPhoto
    <3>2. \A i \in Clerks \ {k} : f \notin bjob'[i].old \cup bjob'[i].new
      BY <2>3, <1>6 DEF FreshPhoto
    <3>3. QED
      BY <3>1, <3>2, <1>1 DEF PhotoOnce
  <2>4. CASE f \in j.old \cup j.new /\ ~FreshPhoto(f)
    <3>1. j.op = "updateBlog" /\ j.at \in DOMAIN blog /\ f \in blog[j.at].photos
      BY <2>4
    <3>2. \A b \in DOMAIN blog : f \in blog[b].photos => b = j.at
      BY <2>1, <3>1 DEF PhotoOnce
    <3>3. \A i \in Clerks \ {k} : f \in bjob'[i].old \cup bjob'[i].new =>
             bjob'[i].op = "updateBlog" /\ bjob'[i].at = j.at
      <4>1. \A i \in Clerks : f \in bjob[i].old \cup bjob[i].new =>
               bjob[i].op = "updateBlog" /\ bjob[i].at = j.at
        BY <2>1, <3>1 DEF PhotoOnce
      <4>2. QED
        BY <4>1, <1>6
    <3>4. bjob'[k].op = "updateBlog" /\ bjob'[k].at = j.at
      BY <3>1, <1>4, <1>5
    <3>5. QED
      BY <3>2, <3>3, <3>4, <1>1 DEF PhotoOnce
  <2>5. QED
    BY <2>2, <2>3, <2>4
<1>13. ASSUME NEW b \in posted PROVE PhotosThere(b)'
  <2>1. PhotosThere(b)
    BY DEF BlogsInv
  <2>2. \A i \in BBusy : /\ i \in BBusy' /\ bjob'[i].at = bjob[i].at
                         /\ bjob'[i].phase = bjob[i].phase
    BY <1>1, <1>6, <1>8, BlogsFacts
  <2>3. QED
    BY <2>1, <2>2, <1>1 DEF PhotosThere
<1>14. QED
  BY <1>1, <1>9, <1>11, <1>12, <1>13 DEF BlogsInv

\* Categories come or go, and blogs go.
LEMMA BlogRowsGo ==
    ASSUME BlogsInv, UNCHANGED <<blog, stock, bjob, filedAs, blurred>>, posted' \subseteq posted,
           opened' \in 0 .. MaxRows, opened <= opened', topics' \subseteq 1 .. opened',
           \A b \in posted' : blog[b].category \in {Nowhere} \cup topics'
    PROVE  BlogsInv'
<1>1. BlogsTypeOK'
  BY DEF BlogsInv, BlogsTypeOK
<1>2. BBusy' = BBusy
  BY DEF BBusy
<1>3. 1 .. opened \subseteq 1 .. opened'
  BY BlogsFacts
<1>4. ASSUME NEW k \in Clerks PROVE BJobOK(k)'
  <2>1. BJobOK(k) /\ UNCHANGED <<blog, stock, bjob>>
    BY BlogsFacts
  <2>2. QED
    BY <2>1, <1>2, <1>3 DEF BJobOK
<1>5. \A f \in Photos : PhotoOnce(f)'
  BY DEF BlogsInv, PhotoOnce
<1>6. \A b \in posted' : PhotosThere(b)' /\ \A t \in filedAs'[b] : blog'[b].category = t
  BY <1>2 DEF BlogsInv, PhotosThere
<1>7. QED
  BY <1>1, <1>4, <1>5, <1>6 DEF BlogsInv

LEMMA UpdateBlogRemoveKeeps ==
    ASSUME BlogsInv, NEW k \in Clerks, UpdateBlogRemove(k)
    PROVE  BlogsInv'
<1>1. /\ bjob[k].op = "updateBlog" /\ bjob[k].phase = "loaded" /\ bjob[k].new # {}
      /\ stock' = stock \ bjob[k].old
      /\ bjob' = [bjob EXCEPT ![k].phase = "bare"]
      /\ UNCHANGED <<opened, topics, blog, posted, filedAs, blurred>>
  BY DEF UpdateBlogRemove
<1>2. /\ bjob' \in [Clerks -> BJob] /\ bjob'[k].phase = "bare"
      /\ \A i \in Clerks : /\ bjob'[i].op = bjob[i].op /\ bjob'[i].at = bjob[i].at
                           /\ bjob'[i].old = bjob[i].old /\ bjob'[i].new = bjob[i].new
                           /\ bjob'[i].alone = bjob[i].alone
      /\ \A i \in Clerks \ {k} : bjob'[i] = bjob[i]
  BY <1>1, BlogsFacts DEF BJob
<1>3. BBusy' = BBusy /\ k \in BBusy
  <2>1. \A i \in Clerks : bjob'[i].phase # "idle" <=> bjob[i].phase # "idle"
    BY <1>1, <1>2
  <2>2. QED
    BY <2>1, <1>1 DEF BBusy
<1>4. BlogsTypeOK'
  BY <1>1, <1>2 DEF BlogsInv, BlogsTypeOK
<1>5. ASSUME NEW i \in Clerks PROVE BJobOK(i)'
  <2>1. BJobOK(i)
    BY BlogsFacts
  <2>2. CASE i = k
    BY <2>1, <2>2, <1>1, <1>2, <1>3 DEF BJobOK
  <2>3. CASE i # k
    <3>1. ~(i \in BBusy /\ bjob[i].alone)
      BY <2>1, <2>3, <1>3 DEF BJobOK
    <3>2. bjob[i].op = "createBlog" => bjob[i].new \cap bjob[k].old = {}
      <4>1. SUFFICES ASSUME NEW f \in bjob[i].new \cap bjob[k].old PROVE bjob[i].op # "createBlog"
        OBVIOUS
      <4>2. f \in Photos
        BY BlogsFacts
      <4>3. QED
        BY <4>2, <2>3 DEF BlogsInv, PhotoOnce
    <3>3. QED
      BY <2>1, <2>3, <3>1, <3>2, <1>1, <1>2, <1>3 DEF BJobOK
  <2>4. QED
    BY <2>2, <2>3
<1>6. \A f \in Photos : PhotoOnce(f)'
  BY <1>1, <1>2 DEF BlogsInv, PhotoOnce
<1>7. ASSUME NEW b \in posted PROVE PhotosThere(b)'
  <2>1. PhotosThere(b) /\ b \in DOMAIN blog
    BY BlogsFacts DEF BlogsInv
  <2>2. CASE b = bjob[k].at
    BY <2>2, <1>2, <1>3 DEF PhotosThere
  <2>3. CASE b # bjob[k].at
    <3>1. blog[b].photos \cap bjob[k].old = {}
      <4>1. SUFFICES ASSUME NEW f \in blog[b].photos \cap bjob[k].old PROVE FALSE
        OBVIOUS
      <4>2. f \in Photos
        BY BlogsFacts
      <4>3. QED
        BY <4>2, <2>1, <2>3 DEF BlogsInv, PhotoOnce
    <3>2. \A i \in BBusy : bjob[i].phase = "bare" => bjob'[i].phase = "bare"
      BY <1>2, BlogsFacts
    <3>3. QED
      BY <2>1, <3>1, <3>2, <1>1, <1>2, <1>3, BlogsFacts DEF PhotosThere
  <2>4. QED
    BY <2>2, <2>3
<1>8. QED
  BY <1>1, <1>4, <1>5, <1>6, <1>7 DEF BlogsInv

\* What a request leaves behind that ends.
LEMMA BlogJobGone ==
    ASSUME BlogsInv, NEW k \in BBusy, BDone(k)
    PROVE  /\ bjob' \in [Clerks -> BJob] /\ bjob'[k] = IdleBJob /\ k \in Clerks
           /\ \A i \in Clerks \ {k} : bjob'[i] = bjob[i]
           /\ BBusy' = BBusy \ {k}
<1>1. k \in Clerks
  BY BlogsFacts
<1>2. /\ bjob' \in [Clerks -> BJob] /\ bjob'[k] = IdleBJob
      /\ \A i \in Clerks \ {k} : bjob'[i] = bjob[i]
  BY <1>1, BlogsFacts, IdleBJobType DEF BDone
<1>3. BBusy' = BBusy \ {k}
  <2>1. \A i \in Clerks : bjob'[i].phase # "idle" <=> bjob[i].phase # "idle" /\ i # k
    BY <1>2, IdleBJobType
  <2>2. QED
    BY <2>1 DEF BBusy
<1>4. QED
  BY <1>1, <1>2, <1>3

\* The other requests stay as they are; their blogs and categories are there.
LEMMA BlogJobsStay ==
    ASSUME BlogsInv, NEW k \in BBusy, BDone(k), UNCHANGED <<opened, stock>>,
           DOMAIN blog \subseteq DOMAIN blog'
    PROVE  \A i \in Clerks : BJobOK(i)'
<1>1. /\ bjob'[k] = IdleBJob /\ BBusy' = BBusy \ {k}
      /\ \A i \in Clerks \ {k} : bjob'[i] = bjob[i]
  BY BlogJobGone
<1>2. SUFFICES ASSUME NEW i \in Clerks PROVE BJobOK(i)'
  OBVIOUS
<1>3. BJobOK(i)
  BY BlogsFacts
<1>4. CASE i = k
  BY <1>1, <1>4, IdleBJobType DEF BJobOK
<1>5. CASE i # k
  <2>1. bjob'[i] = bjob[i] /\ (i \in BBusy' <=> i \in BBusy)
    BY <1>1, <1>5
  <2>2. ~(i \in BBusy /\ bjob[i].alone)
    BY <1>3, <1>5 DEF BJobOK
  <2>3. QED
    BY <1>3, <2>1, <2>2 DEF BJobOK
<1>6. QED
  BY <1>4, <1>5

LEMMA CreateBlogSaveKeeps ==
    ASSUME BlogsInv, NEW k \in Clerks, CreateBlogSave(k)
    PROVE  BlogsInv'
<1>1. PICK n : n = Len(blog)
  OBVIOUS
<1>2. PICK t, set : t = bjob[k].category /\ set = bjob[k].new
  OBVIOUS
<1>3. PICK row : row = [category |-> t, photos |-> set]
  OBVIOUS
<1>4. PICK known : known = Known(bjob[k], bjob[k].category)
  OBVIOUS
<1>5. /\ bjob[k].op = "createBlog" /\ t \in topics /\ n < MaxBlogs
      /\ blog' = Append(blog, row) /\ posted' = posted \cup {n + 1}
      /\ filedAs' = [filedAs EXCEPT ![n + 1] = known]
      /\ BDone(k) /\ UNCHANGED <<opened, topics, stock, blurred>>
  BY <1>1, <1>2, <1>3, <1>4 DEF CreateBlogSave
<1>6. k \in BBusy /\ set \subseteq stock /\ set \subseteq Photos /\ t \in 0 .. MaxRows
  BY <1>2, <1>5, BlogsFacts DEF BJobOK
<1>7. row \in Blog /\ row.photos = set /\ row.category = t
  BY <1>3, <1>6 DEF Blog
<1>8. n \in Nat /\ DOMAIN blog = 1 .. n /\ blog \in Seq(Blog) /\ n + 1 <= MaxBlogs /\ n + 1 \in Rows
  BY <1>1, <1>5, BlogsFacts DEF Rows
<1>9. /\ blog' \in Seq(Blog) /\ Len(blog') = n + 1 /\ DOMAIN blog' = 1 .. (n + 1)
      /\ \A b \in 1 .. n : blog'[b] = blog[b]
      /\ blog'[n + 1].photos = set /\ blog'[n + 1].category = t
  BY <1>1, <1>5, <1>7, <1>8, AppendRow
<1>10. \A b \in 1 .. (n + 1) : b = n + 1 \/ b \in 1 .. n
  BY <1>8
<1>11. known \subseteq {t}
  BY <1>2, <1>4 DEF Known
<1>12. /\ bjob' \in [Clerks -> BJob] /\ bjob'[k] = IdleBJob /\ BBusy' = BBusy \ {k}
       /\ \A i \in Clerks \ {k} : bjob'[i] = bjob[i]
  BY <1>5, <1>6, BlogJobGone
<1>13. /\ filedAs' \in [Rows -> SUBSET (0 .. MaxRows)] /\ filedAs'[n + 1] = known
       /\ \A b \in Rows \ {n + 1} : filedAs'[b] = filedAs[b]
  <2>1. filedAs \in [Rows -> SUBSET (0 .. MaxRows)] /\ known \in SUBSET (0 .. MaxRows)
    BY <1>6, <1>11 DEF BlogsInv, BlogsTypeOK
  <2>2. QED
    BY <2>1, <1>5, <1>8
<1>14. posted' \subseteq 1 .. (n + 1) /\ \A b \in posted' : b = n + 1 \/ (b \in posted /\ b \in 1 .. n)
  <2>1. posted \subseteq 1 .. n
    BY <1>8, BlogsFacts
  <2>2. n + 1 \in 1 .. (n + 1) /\ 1 .. n \subseteq 1 .. (n + 1)
    BY <1>8
  <2>3. QED
    BY <2>1, <2>2, <1>5
<1>15. \A b \in posted' : blog'[b].category \in {Nowhere} \cup topics
  BY <1>5, <1>9, <1>14 DEF BlogsInv, BlogsTypeOK
<1>16. BlogsTypeOK'
  BY <1>5, <1>8, <1>9, <1>12, <1>13, <1>14, <1>15 DEF BlogsInv, BlogsTypeOK
<1>17. \A i \in Clerks : BJobOK(i)'
  <2>1. DOMAIN blog \subseteq DOMAIN blog'
    BY <1>8, <1>9
  <2>2. QED
    BY <2>1, <1>5, <1>6, BlogJobsStay
<1>18. \A i \in Clerks : /\ bjob'[i].old \cup bjob'[i].new # {} => i # k
                         /\ i # k => bjob'[i] = bjob[i]
  BY <1>12, IdleBJobType
<1>19. ASSUME NEW f \in Photos PROVE PhotoOnce(f)'
  <2>1. PhotoOnce(f)
    BY DEF BlogsInv
  <2>2. f \in set => \A b \in 1 .. n : f \notin blog[b].photos
    BY <2>1, <1>2, <1>5, <1>8 DEF PhotoOnce
  <2>3. f \in set => \A i \in Clerks : f \notin bjob'[i].old \cup bjob'[i].new
    BY <2>1, <1>2, <1>5, <1>18 DEF PhotoOnce
  <2>4. \A b, c \in 1 .. (n + 1) : f \in blog'[b].photos \cap blog'[c].photos => b = c
    <3>1. \A b, c \in 1 .. n : f \in blog'[b].photos \cap blog'[c].photos => b = c
      BY <2>1, <1>8, <1>9 DEF PhotoOnce
    <3>2. \A b \in 1 .. n : f \in set => f \notin blog'[b].photos
      BY <2>2, <1>9
    <3>3. QED
      BY <3>1, <3>2, <1>9, <1>10
  <2>5. \A i \in Clerks : f \in bjob'[i].old \cup bjob'[i].new =>
           \A b \in 1 .. (n + 1) :
              f \in blog'[b].photos => bjob'[i].op = "updateBlog" /\ bjob'[i].at = b
    <3>1. \A i \in Clerks : f \in bjob'[i].old \cup bjob'[i].new =>
             \A b \in 1 .. n :
                f \in blog[b].photos => bjob[i].op = "updateBlog" /\ bjob[i].at = b
      BY <2>1, <1>8, <1>18 DEF PhotoOnce
    <3>2. QED
      BY <3>1, <2>3, <1>9, <1>10, <1>18
  <2>6. \A i \in Clerks : f \in bjob'[i].old \cup bjob'[i].new =>
           \A l \in Clerks \ {i} : f \in bjob'[l].old \cup bjob'[l].new =>
              /\ bjob'[i].op = "updateBlog" /\ bjob'[l].op = "updateBlog"
              /\ bjob'[i].at = bjob'[l].at
    BY <2>1, <1>18 DEF PhotoOnce
  <2>7. QED
    BY <2>4, <2>5, <2>6, <1>9 DEF PhotoOnce
<1>20. ASSUME NEW b \in posted'
       PROVE  PhotosThere(b)' /\ \A u \in filedAs'[b] : blog'[b].category = u
  <2>1. CASE b = n + 1
    BY <2>1, <1>5, <1>6, <1>9, <1>11, <1>13 DEF PhotosThere
  <2>2. CASE b # n + 1
    <3>1. b \in posted /\ b \in 1 .. n /\ b \in Rows /\ blog'[b] = blog[b]
      BY <2>2, <1>8, <1>9, <1>14, BlogsFacts
    <3>2. PhotosThere(b) /\ \A u \in filedAs[b] : blog[b].category = u
      BY <3>1 DEF BlogsInv
    <3>3. bjob[k].phase # "bare"
      BY <1>5, <1>6, BlogsFacts DEF BJobOK
    <3>4. \A i \in BBusy : bjob[i].phase = "bare" => i \in BBusy' /\ bjob'[i] = bjob[i]
      BY <3>3, <1>12, BlogsFacts
    <3>5. PhotosThere(b)'
      BY <3>1, <3>2, <3>4, <1>5 DEF PhotosThere
    <3>6. filedAs'[b] = filedAs[b]
      BY <2>2, <3>1, <1>13
    <3>7. QED
      BY <3>1, <3>2, <3>5, <3>6
  <2>3. QED
    BY <2>1, <2>2
<1>21. QED
  BY <1>16, <1>17, <1>19, <1>20 DEF BlogsInv

LEMMA UpdateBlogSaveKeeps ==
    ASSUME BlogsInv, NEW k \in Clerks, UpdateBlogSave(k)
    PROVE  BlogsInv'
<1>1. PICK at, t, set : at = bjob[k].at /\ t = bjob[k].category
                        /\ set = KeptPhotos(bjob[k].at, bjob[k])
  OBVIOUS
<1>2. PICK row : row = [category |-> t, photos |-> set]
  OBVIOUS
<1>3. PICK known : known = Known(bjob[k], bjob[k].category)
  OBVIOUS
<1>4. /\ bjob[k].op = "updateBlog" /\ t \in topics
      /\ bjob[k].phase = "bare" \/ bjob[k].new = {} \/ bjob[k].old = {}
      /\ blog' = [blog EXCEPT ![at] = row] /\ posted' = posted \cup {at}
      /\ filedAs' = [filedAs EXCEPT ![at] = known]
      /\ blurred' = IF ~bjob[k].alone \/ bjob[k].new \cap bjob[k].old # {}
                      THEN blurred \cup {at} ELSE blurred
      /\ BDone(k) /\ UNCHANGED <<opened, topics, stock>>
  BY <1>1, <1>2, <1>3 DEF UpdateBlogSave
<1>5. PICK n \in Nat : n = Len(blog) /\ DOMAIN blog = 1 .. n /\ blog \in [1 .. n -> Blog]
  BY BlogsFacts
<1>6. /\ k \in BBusy /\ at \in 1 .. n /\ at \in Rows /\ t \in 0 .. MaxRows
      /\ bjob[k].phase = "bare" => bjob[k].new # {}
      /\ bjob[k].alone => BBusy = {k} /\ bjob[k].new \ bjob[k].old \subseteq stock
  BY <1>1, <1>4, <1>5, BlogsFacts DEF BJobOK
<1>7. /\ set = IF bjob[k].new = {} /\ at \in posted THEN blog[at].photos ELSE bjob[k].new
      /\ set \subseteq Photos
  BY <1>1, <1>5, <1>6, BlogsFacts DEF KeptPhotos
<1>8. row \in Blog /\ row.photos = set /\ row.category = t
  BY <1>2, <1>6, <1>7 DEF Blog
<1>9. /\ blog' \in Seq(Blog) /\ Len(blog') = n /\ DOMAIN blog' = 1 .. n
      /\ \A b \in 1 .. n : b # at => blog'[b] = blog[b]
      /\ blog'[at].photos = set /\ blog'[at].category = t
  <2>1. blog' \in [1 .. n -> Blog] /\ blog'[at] = row /\ \A b \in 1 .. n : b # at => blog'[b] = blog[b]
    BY <1>4, <1>5, <1>6, <1>8
  <2>2. QED
    BY <2>1, <1>8, TableOf
<1>10. known \subseteq {t}
  BY <1>1, <1>3 DEF Known
<1>11. /\ bjob' \in [Clerks -> BJob] /\ bjob'[k] = IdleBJob /\ BBusy' = BBusy \ {k}
       /\ \A i \in Clerks \ {k} : bjob'[i] = bjob[i]
  BY <1>4, <1>6, BlogJobGone
<1>12. /\ filedAs' \in [Rows -> SUBSET (0 .. MaxRows)] /\ filedAs'[at] = known
       /\ \A b \in Rows \ {at} : filedAs'[b] = filedAs[b]
  <2>1. filedAs \in [Rows -> SUBSET (0 .. MaxRows)] /\ known \in SUBSET (0 .. MaxRows)
    BY <1>6, <1>10 DEF BlogsInv, BlogsTypeOK
  <2>2. QED
    BY <2>1, <1>4, <1>6
<1>13. posted' \subseteq 1 .. n /\ \A b \in posted' : b = at \/ b \in posted
  BY <1>4, <1>5, <1>6, BlogsFacts
<1>14. \A b \in posted' : blog'[b].category \in {Nowhere} \cup topics
  BY <1>4, <1>9, <1>13 DEF BlogsInv, BlogsTypeOK
<1>15. BlogsTypeOK'
  BY <1>4, <1>5, <1>9, <1>11, <1>12, <1>13, <1>14, BlogsFacts DEF BlogsInv, BlogsTypeOK
<1>16. \A i \in Clerks : BJobOK(i)'
  <2>1. DOMAIN blog \subseteq DOMAIN blog'
    BY <1>5, <1>9
  <2>2. QED
    BY <2>1, <1>4, <1>6, BlogJobsStay
<1>17. \A i \in Clerks : /\ bjob'[i].old \cup bjob'[i].new # {} => i # k
                         /\ i # k => bjob'[i] = bjob[i]
  BY <1>11, IdleBJobType
<1>18. ASSUME NEW f \in Photos PROVE PhotoOnce(f)'
  <2>1. PhotoOnce(f)
    BY DEF BlogsInv
  <2>2. f \in set => f \in bjob[k].old \cup bjob[k].new \/ f \in blog[at].photos
    BY <1>7
  <2>3. f \in set => \A b \in 1 .. n : f \in blog[b].photos => b = at
    BY <2>1, <2>2, <1>1, <1>5, <1>6 DEF PhotoOnce
  <2>4. f \in set => \A i \in Clerks : f \in bjob'[i].old \cup bjob'[i].new =>
                        bjob'[i].op = "updateBlog" /\ bjob'[i].at = at
    <3>1. f \in set => \A i \in Clerks \ {k} : f \in bjob[i].old \cup bjob[i].new =>
                        bjob[i].op = "updateBlog" /\ bjob[i].at = at
      BY <2>1, <2>2, <1>1, <1>5, <1>6 DEF PhotoOnce
    <3>2. QED
      BY <3>1, <1>17
  <2>5. \A b, c \in 1 .. n : f \in blog'[b].photos \cap blog'[c].photos => b = c
    BY <2>1, <2>3, <1>5, <1>9 DEF PhotoOnce
  <2>6. \A i \in Clerks : f \in bjob'[i].old \cup bjob'[i].new =>
           \A b \in 1 .. n :
              f \in blog'[b].photos => bjob'[i].op = "updateBlog" /\ bjob'[i].at = b
    <3>1. \A i \in Clerks : f \in bjob'[i].old \cup bjob'[i].new =>
             \A b \in 1 .. n :
                f \in blog[b].photos => bjob[i].op = "updateBlog" /\ bjob[i].at = b
      BY <2>1, <1>5, <1>17 DEF PhotoOnce
    <3>2. QED
      BY <3>1, <2>4, <1>9, <1>17
  <2>7. \A i \in Clerks : f \in bjob'[i].old \cup bjob'[i].new =>
           \A l \in Clerks \ {i} : f \in bjob'[l].old \cup bjob'[l].new =>
              /\ bjob'[i].op = "updateBlog" /\ bjob'[l].op = "updateBlog"
              /\ bjob'[i].at = bjob'[l].at
    BY <2>1, <1>17 DEF PhotoOnce
  <2>8. QED
    BY <2>5, <2>6, <2>7, <1>9 DEF PhotoOnce
<1>19. ASSUME NEW b \in posted'
       PROVE  PhotosThere(b)' /\ \A u \in filedAs'[b] : blog'[b].category = u
  <2>1. CASE b = at
    <3>1. \A u \in filedAs'[b] : blog'[b].category = u
      BY <2>1, <1>9, <1>10, <1>12
    <3>2. CASE ~bjob[k].alone \/ bjob[k].new \cap bjob[k].old # {}
      BY <2>1, <3>1, <3>2, <1>4 DEF PhotosThere
    <3>3. CASE bjob[k].alone /\ bjob[k].new \cap bjob[k].old = {} /\ bjob[k].new # {}
      <4>1. set \subseteq stock
        BY <3>3, <1>6, <1>7
      <4>2. QED
        BY <2>1, <3>1, <4>1, <1>4, <1>9 DEF PhotosThere
    <3>4. CASE bjob[k].alone /\ bjob[k].new = {}
      <4>1. bjob[k].phase # "bare" /\ BBusy = {k}
        BY <3>4, <1>6
      <4>2. at \in posted => blog[at].photos \subseteq stock \/ at \in blurred
        BY <4>1 DEF BlogsInv, PhotosThere
      <4>3. set \subseteq stock \/ at \in blurred
        BY <3>4, <4>2, <1>7
      <4>4. QED
        BY <2>1, <3>1, <4>3, <1>4, <1>9 DEF PhotosThere
    <3>5. QED
      BY <3>2, <3>3, <3>4
  <2>2. CASE b # at
    <3>1. b \in posted /\ b \in 1 .. n /\ b \in Rows /\ blog'[b] = blog[b]
      BY <2>2, <1>5, <1>9, <1>13, BlogsFacts
    <3>2. PhotosThere(b) /\ \A u \in filedAs[b] : blog[b].category = u
      BY <3>1 DEF BlogsInv
    <3>3. \A i \in BBusy : bjob[i].at = b => i \in BBusy' /\ bjob'[i] = bjob[i]
      BY <2>2, <1>1, <1>11, BlogsFacts
    <3>4. PhotosThere(b)'
      BY <3>1, <3>2, <3>3, <1>4 DEF PhotosThere
    <3>5. filedAs'[b] = filedAs[b]
      BY <2>2, <3>1, <1>12
    <3>6. QED
      BY <3>1, <3>2, <3>4, <3>5
  <2>3. QED
    BY <2>1, <2>2
<1>20. QED
  BY <1>15, <1>16, <1>18, <1>19 DEF BlogsInv

LEMMA UpdateTopicSaveKeeps ==
    ASSUME BlogsInv, NEW k \in Clerks, UpdateTopicSave(k)
    PROVE  BlogsInv'
<1>1. PICK at, list, moved : /\ at = bjob[k].at /\ list = bjob[k].blogs
                             /\ moved = bjob[k].blogs \cup BlogsOf(bjob[k].at)
  OBVIOUS
<1>2. PICK known : known = [b \in Rows |->
                             Known(bjob[k], IF b \in bjob[k].blogs THEN bjob[k].at ELSE Nowhere)]
  OBVIOUS
<1>3. PICK place : place = [b \in DOMAIN blog |-> Filed(b, bjob[k].at, bjob[k].blogs)]
  OBVIOUS
<1>4. /\ bjob[k].op = "updateTopic" /\ topics' = topics \cup {at}
      /\ blog' = [b \in DOMAIN blog |-> [blog[b] EXCEPT !.category = place[b]]]
      /\ filedAs' = [b \in Rows |-> IF b \notin moved THEN filedAs[b] ELSE known[b]]
      /\ BDone(k) /\ UNCHANGED <<opened, posted, stock, blurred>>
  BY <1>1, <1>2, <1>3 DEF UpdateTopicSave
<1>5. PICK n \in Nat : n = Len(blog) /\ DOMAIN blog = 1 .. n /\ blog \in [1 .. n -> Blog]
                       /\ 1 .. n \subseteq Rows /\ posted \subseteq 1 .. n
  BY BlogsFacts
<1>6. k \in BBusy /\ at \in 1 .. opened /\ at \in 0 .. MaxRows /\ opened \in 0 .. MaxRows
  <2>1. k \in BBusy /\ at \in 1 .. opened
    BY <1>1, <1>4, BlogsFacts DEF BJobOK
  <2>2. QED
    BY <2>1, BlogsFacts
<1>7. \A b \in 1 .. n :
         /\ place[b] \in {at, Nowhere, blog[b].category}
         /\ b \in posted /\ b \in list => place[b] = at
         /\ b \in posted /\ b \in moved /\ b \notin list => place[b] = Nowhere
         /\ b \notin moved => place[b] = blog[b].category
  BY <1>1, <1>3, <1>5 DEF Filed
<1>8. \A b \in 1 .. n : place[b] \in 0 .. MaxRows
  BY <1>5, <1>6, <1>7, BlogsFacts DEF Nowhere
<1>9. /\ blog' \in Seq(Blog) /\ Len(blog') = n /\ DOMAIN blog' = 1 .. n
      /\ \A b \in 1 .. n : blog'[b].photos = blog[b].photos /\ blog'[b].category = place[b]
  <2>1. \A b \in 1 .. n : /\ [blog[b] EXCEPT !.category = place[b]] \in Blog
                          /\ [blog[b] EXCEPT !.category = place[b]].photos = blog[b].photos
                          /\ [blog[b] EXCEPT !.category = place[b]].category = place[b]
    BY <1>5, <1>8 DEF Blog
  <2>2. blog' = [b \in 1 .. n |-> [blog[b] EXCEPT !.category = place[b]]]
    BY <1>4, <1>5
  <2>3. blog' \in [1 .. n -> Blog]
    BY <2>1, <2>2
  <2>4. \A b \in 1 .. n : blog'[b].photos = blog[b].photos /\ blog'[b].category = place[b]
    BY <2>1, <2>2
  <2>5. QED
    BY <2>3, <2>4, TableOf
<1>10. /\ bjob' \in [Clerks -> BJob] /\ bjob'[k] = IdleBJob /\ BBusy' = BBusy \ {k}
       /\ \A i \in Clerks \ {k} : bjob'[i] = bjob[i]
  BY <1>4, <1>6, BlogJobGone
<1>11. \A b \in Rows : known[b] \subseteq {IF b \in list THEN at ELSE Nowhere}
  BY <1>1, <1>2 DEF Known
<1>12. /\ filedAs' \in [Rows -> SUBSET (0 .. MaxRows)]
       /\ \A b \in Rows : filedAs'[b] = IF b \notin moved THEN filedAs[b] ELSE known[b]
  <2>1. filedAs \in [Rows -> SUBSET (0 .. MaxRows)]
    BY DEF BlogsInv, BlogsTypeOK
  <2>2. Nowhere \in 0 .. MaxRows
    BY BlogsFacts DEF Nowhere
  <2>3. \A b \in Rows : known[b] \in SUBSET (0 .. MaxRows)
    BY <2>2, <1>6, <1>11
  <2>4. QED
    BY <2>1, <2>3, <1>4
<1>13. \A b \in posted : blog'[b].category \in {Nowhere} \cup topics'
  <2>1. \A b \in posted : b \in 1 .. n /\ blog[b].category \in {Nowhere} \cup topics
    BY <1>5 DEF BlogsInv, BlogsTypeOK
  <2>2. QED
    BY <2>1, <1>4, <1>7, <1>9
<1>14. BlogsTypeOK'
  BY <1>4, <1>5, <1>6, <1>9, <1>10, <1>12, <1>13, BlogsFacts DEF BlogsInv, BlogsTypeOK
<1>15. \A i \in Clerks : BJobOK(i)'
  <2>1. DOMAIN blog \subseteq DOMAIN blog'
    BY <1>5, <1>9
  <2>2. QED
    BY <2>1, <1>4, <1>6, BlogJobsStay
<1>16. \A i \in Clerks : /\ bjob'[i].old \cup bjob'[i].new # {} => i # k
                         /\ i # k => bjob'[i] = bjob[i]
  BY <1>10, IdleBJobType
<1>17. ASSUME NEW f \in Photos PROVE PhotoOnce(f)'
  <2>1. PhotoOnce(f)
    BY DEF BlogsInv
  <2>2. \A b, c \in 1 .. n : f \in blog'[b].photos \cap blog'[c].photos => b = c
    BY <2>1, <1>5, <1>9 DEF PhotoOnce
  <2>3. \A i \in Clerks : f \in bjob'[i].old \cup bjob'[i].new =>
           \A b \in 1 .. n :
              f \in blog'[b].photos => bjob'[i].op = "updateBlog" /\ bjob'[i].at = b
    BY <2>1, <1>5, <1>9, <1>16 DEF PhotoOnce
  <2>4. \A i \in Clerks : f \in bjob'[i].old \cup bjob'[i].new =>
           \A l \in Clerks \ {i} : f \in bjob'[l].old \cup bjob'[l].new =>
              /\ bjob'[i].op = "updateBlog" /\ bjob'[l].op = "updateBlog"
              /\ bjob'[i].at = bjob'[l].at
    BY <2>1, <1>16 DEF PhotoOnce
  <2>5. QED
    BY <2>2, <2>3, <2>4, <1>9 DEF PhotoOnce
<1>18. ASSUME NEW b \in posted
       PROVE  PhotosThere(b)' /\ \A u \in filedAs'[b] : blog'[b].category = u
  <2>1. b \in 1 .. n /\ b \in Rows /\ PhotosThere(b)
        /\ \A u \in filedAs[b] : blog[b].category = u
    BY <1>5 DEF BlogsInv
  <2>2. bjob[k].phase # "bare"
    BY <1>4, <1>6, BlogsFacts DEF BJobOK
  <2>3. \A i \in BBusy : bjob[i].phase = "bare" => i \in BBusy' /\ bjob'[i] = bjob[i]
    BY <2>2, <1>10, BlogsFacts
  <2>4. PhotosThere(b)'
    BY <2>1, <2>3, <1>4, <1>9 DEF PhotosThere
  <2>5. \A u \in filedAs'[b] : blog'[b].category = u
    <3>1. CASE b \notin moved
      BY <3>1, <2>1, <1>7, <1>9, <1>12
    <3>2. CASE b \in moved
      BY <3>2, <2>1, <1>7, <1>9, <1>11, <1>12
    <3>3. QED
      BY <3>1, <3>2
  <2>6. QED
    BY <2>4, <2>5
<1>19. QED
  BY <1>4, <1>14, <1>15, <1>17, <1>18 DEF BlogsInv

LEMMA BAbortKeeps ==
    ASSUME BlogsInv, NEW k \in Clerks, BAbort(k)
    PROVE  BlogsInv'
<1>1. /\ k \in BBusy /\ BDone(k) /\ UNCHANGED <<opened, topics, blog, posted, stock, filedAs>>
      /\ blurred' = IF bjob[k].phase = "bare" THEN blurred \cup {bjob[k].at} ELSE blurred
  BY DEF BAbort
<1>2. /\ bjob' \in [Clerks -> BJob] /\ bjob'[k] = IdleBJob /\ BBusy' = BBusy \ {k}
      /\ \A i \in Clerks \ {k} : bjob'[i] = bjob[i]
  BY <1>1, BlogJobGone
<1>3. BlogsTypeOK'
  BY <1>1, <1>2 DEF BlogsInv, BlogsTypeOK
<1>4. \A i \in Clerks : BJobOK(i)'
  <2>1. DOMAIN blog \subseteq DOMAIN blog'
    BY <1>1
  <2>2. QED
    BY <2>1, <1>1, BlogJobsStay
<1>5. \A i \in Clerks : /\ bjob'[i].old \cup bjob'[i].new # {} => i # k
                        /\ i # k => bjob'[i] = bjob[i]
  BY <1>2, IdleBJobType
<1>6. ASSUME NEW f \in Photos PROVE PhotoOnce(f)'
  <2>1. PhotoOnce(f) /\ blog' = blog
    BY <1>1 DEF BlogsInv
  <2>2. QED
    BY <2>1, <1>5 DEF PhotoOnce
<1>7. ASSUME NEW b \in posted PROVE PhotosThere(b)'
  <2>1. PhotosThere(b)
    BY DEF BlogsInv
  <2>2. \A i \in BBusy \ {k} : i \in BBusy' /\ bjob'[i] = bjob[i]
    BY <1>2, BlogsFacts
  <2>3. QED
    BY <2>1, <2>2, <1>1 DEF PhotosThere
<1>8. QED
  BY <1>1, <1>3, <1>4, <1>6, <1>7 DEF BlogsInv

LEMMA BlogsBegin == Init => BlogsInv
<1> SUFFICES ASSUME Init PROVE BlogsInv
  OBVIOUS
<1>1. BInit /\ MaxRows \in Nat /\ MaxBlogs \in 0 .. MaxRows
  BY PartiesAssumption, BlogsAssumption DEF Init
<1>2. blog \in Seq(Blog) /\ Len(blog) = 0 /\ DOMAIN blog = {}
  BY <1>1, EmptySeq DEF BInit
<1>3. bjob \in [Clerks -> BJob] /\ \A k \in Clerks : bjob[k] = IdleBJob
  BY <1>1, IdleBJobType DEF BInit
<1>4. BBusy = {}
  BY <1>3, IdleBJobType DEF BBusy
<1>5. BlogsTypeOK
  BY <1>1, <1>2, <1>3 DEF BInit, BlogsTypeOK
<1>6. \A k \in Clerks : BJobOK(k)
  BY <1>3, <1>4, IdleBJobType DEF BJobOK
<1>7. \A f \in Photos : PhotoOnce(f)
  BY <1>2, <1>3, IdleBJobType DEF PhotoOnce
<1>8. QED
  BY <1>1, <1>5, <1>6, <1>7 DEF BInit, BlogsInv

\* A request about a blog or a category starts.
LEMMA BlogLoadsKeep ==
    ASSUME BlogsInv, NEW k \in Clerks, NEW t \in topics
    PROVE  /\ \A set \in {{}} \cup {{f} : f \in Photos} :
                 /\ CreateBlogLoad(k, t, set) => BlogsInv'
                 /\ \A b \in posted, named \in BOOLEAN : UpdateBlogLoad(k, b, t, named, set) => BlogsInv'
           /\ \A set \in SUBSET posted : UpdateTopicLoad(k, t, set) => BlogsInv'
<1>1. t \in 0 .. MaxRows /\ t \in 1 .. opened
  BY BlogsFacts
<1>2. ASSUME NEW set \in SUBSET Photos, CreateBlogLoad(k, t, set) PROVE BlogsInv'
  <2> DEFINE j == [IdleBJob EXCEPT !.op = "createBlog", !.category = t, !.new = set]
  <2>1. j \in BJob /\ j.op = "createBlog" /\ j.old = {} /\ j.new = set
    BY <1>1, IdleBJobType DEF BJob
  <2>2. BStart(k, j) /\ \A f \in set : FreshPhoto(f)
    BY <1>2 DEF CreateBlogLoad
  <2> HIDE DEF j
  <2>3. PICK i \in BJob : i = j
    BY <2>1
  <2>4. QED
    BY <2>1, <2>2, <2>3, BlogStarts
<1>3. ASSUME NEW set \in SUBSET Photos, NEW b \in posted, NEW named \in BOOLEAN,
             UpdateBlogLoad(k, b, t, named, set)
      PROVE  BlogsInv'
  <2> DEFINE j == [IdleBJob EXCEPT !.op = "updateBlog", !.at = b, !.category = t,
                      !.named = named, !.old = blog[b].photos, !.new = set]
  <2>1. b \in DOMAIN blog /\ b \in 0 .. MaxRows /\ blog[b].photos \in SUBSET Photos
    BY BlogsFacts
  <2>2. j \in BJob /\ j.op = "updateBlog" /\ j.at = b /\ j.old = blog[b].photos /\ j.new = set
    BY <2>1, <1>1, IdleBJobType DEF BJob
  <2>3. BStart(k, j) /\ \A f \in set : FreshPhoto(f) \/ f \in blog[b].photos
    BY <1>3 DEF UpdateBlogLoad
  <2> HIDE DEF j
  <2>4. PICK i \in BJob : i = j
    BY <2>2
  <2>5. QED
    BY <2>1, <2>2, <2>3, <2>4, BlogStarts
<1>4. ASSUME NEW set \in SUBSET posted, UpdateTopicLoad(k, t, set) PROVE BlogsInv'
  <2> DEFINE list == IF set = {} THEN BlogsOf(t) ELSE set
  <2> DEFINE j == [IdleBJob EXCEPT !.op = "updateTopic", !.at = t, !.blogs = list]
  <2>1. list \in SUBSET Rows
    BY BlogsFacts DEF BlogsOf
  <2>2. BStart(k, j)
    BY <1>4 DEF UpdateTopicLoad
  <2> HIDE DEF list
  <2>3. j \in BJob /\ j.op = "updateTopic" /\ j.at = t /\ j.old = {} /\ j.new = {}
    BY <2>1, <1>1, IdleBJobType DEF BJob
  <2> HIDE DEF j
  <2>4. PICK i \in BJob : i = j
    BY <2>3
  <2>5. QED
    BY <2>2, <2>3, <2>4, <1>1, BlogStarts
<1>5. \A set \in {{}} \cup {{f} : f \in Photos} : set \in SUBSET Photos
  OBVIOUS
<1>6. QED
  BY <1>2, <1>3, <1>4, <1>5

LEMMA BlogsKept == BlogsInv /\ inUse \in Mixes /\ [Next]_shopVars => BlogsInv'
<1> SUFFICES ASSUME BlogsInv, inUse \in Mixes, [Next]_shopVars PROVE BlogsInv'
  OBVIOUS
<1>1. ASSUME NEW b \in posted, RemoveBlog(b) PROVE BlogsInv'
  <2>1. posted' = posted \ {b} /\ UNCHANGED <<opened, topics, blog, stock, bjob, filedAs, blurred>>
    BY <1>1 DEF RemoveBlog
  <2>2. opened \in 0 .. MaxRows /\ opened <= opened /\ topics \subseteq 1 .. opened
    BY BlogsFacts
  <2>3. QED
    BY <2>1, <2>2, BlogRowsGo DEF BlogsInv, BlogsTypeOK
<1>2. ASSUME CreateTopic PROVE BlogsInv'
  <2>1. /\ opened < inUse.rows /\ opened' = opened + 1 /\ topics' = topics \cup {opened + 1}
        /\ UNCHANGED <<blog, posted, stock, bjob, filedAs, blurred>>
    BY <1>2 DEF CreateTopic
  <2>2. inUse.rows \in Int /\ inUse.rows <= MaxRows /\ MaxRows \in Nat
    BY PartiesAssumption
  <2>3. /\ opened + 1 \in 0 .. MaxRows /\ opened <= opened + 1
        /\ topics \cup {opened + 1} \subseteq 1 .. (opened + 1)
    BY <2>1, <2>2, BlogsFacts
  <2>4. QED
    BY <2>1, <2>3, BlogRowsGo DEF BlogsInv, BlogsTypeOK
<1>3. ASSUME NEW t \in topics, RemoveTopic(t) PROVE BlogsInv'
  <2>1. /\ topics' = topics \ {t} /\ posted' = posted \ BlogsOf(t)
        /\ UNCHANGED <<opened, blog, stock, bjob, filedAs, blurred>>
    BY <1>3 DEF RemoveTopic
  <2>2. \A b \in posted' : blog[b].category \in {Nowhere} \cup topics'
    BY <2>1 DEF BlogsOf, BlogsInv, BlogsTypeOK
  <2>3. opened \in 0 .. MaxRows /\ opened <= opened /\ topics' \subseteq 1 .. opened
    BY <2>1, BlogsFacts
  <2>4. QED
    BY <2>1, <2>2, <2>3, BlogRowsGo
<1>4. CASE BNext
  <2>1. CASE BlogController
    BY <2>1, <1>1, BlogLoadsKeep DEF BlogController
  <2>2. CASE BlogCategoriesController
    BY <2>2, <1>2, <1>3, BlogLoadsKeep DEF BlogCategoriesController
  <2>3. QED
    BY <1>4, <2>1, <2>2, CreateBlogSaveKeeps, UpdateBlogRemoveKeeps, UpdateBlogSaveKeeps,
       UpdateTopicSaveKeeps, BAbortKeeps DEF BNext
<1>5. CASE UNCHANGED blogVars
  <2>1. UNCHANGED <<opened, topics, blog, posted, stock, bjob, filedAs, blurred>>
    BY <1>5 DEF blogVars
  <2>2. opened \in 0 .. MaxRows /\ opened <= opened /\ topics \subseteq 1 .. opened
    BY BlogsFacts
  <2>3. QED
    BY <2>1, <2>2, BlogRowsGo DEF BlogsInv, BlogsTypeOK
<1>6. QED
  BY <1>4, <1>5, BlogsStep

\* Whatever requests run at the same time, a picture is in one blog, and only
\* an update that has removed the files of a blog leaves it without them.
THEOREM BlogsInvariant == Spec => []BlogsInv
<1>1. Init => BlogsInv
  BY BlogsBegin
<1>2. BlogsInv /\ inUse \in Mixes /\ [Next]_shopVars => BlogsInv'
  BY BlogsKept
<1>3. QED
  BY <1>1, <1>2, MixStays, PTL DEF Spec

\* A blog is in the category that it was last put in where that is clear, and
\* its pictures have their files unless an update removed them (create and
\* update of BlogService, update of BlogCategoriesService).
THEOREM BlogsAsAskedHolds == Spec => []BlogsAsAsked
<1>1. BlogsInv => BlogsAsAsked
  <2> SUFFICES ASSUME BlogsInv, NEW b \in posted
               PROVE  /\ \A t \in filedAs[b] : blog[b].category = t
                      /\ \/ blog[b].photos \subseteq stock
                         \/ b \in blurred
                         \/ \E k \in BBusy : bjob[k].at = b /\ bjob[k].op = "updateBlog"
    BY DEF BlogsAsAsked
  <2>1. \A k \in BBusy : bjob[k].phase = "bare" => bjob[k].op = "updateBlog"
    BY BlogsFacts DEF BJobOK
  <2>2. QED
    BY <2>1 DEF BlogsInv, PhotosThere
<1>2. QED
  BY <1>1, BlogsInvariant, PTL

---------------------------------------------------------------------------
(* The catalogue *)

LEMMA CatalogueStep ==
    ASSUME [Next]_shopVars
    PROVE  \/ PNext /\ UNCHANGED inUse
           \/ UNCHANGED <<inUse, catalogueVars>>
BY DEF Next, shopVars

LEMMA IdlePJobType ==
    /\ IdlePJob \in PJob /\ IdlePJob.phase = "idle" /\ IdlePJob.op = "none"
    /\ IdlePJob.skus = {} /\ IdlePJob.seen = {}
<1>1. MaxRows \in Nat
  BY PartiesAssumption
<1>2. QED
  BY <1>1 DEF IdlePJob, PJob

\* n equal rows are added to a table.
LEMMA AppendRows ==
    ASSUME NEW S, NEW table \in Seq(S), NEW row \in S, NEW n \in Nat,
           NEW new, new = [i \in 1 .. n |-> row], NEW t, t = table \o new
    PROVE  /\ t \in Seq(S) /\ Len(t) = Len(table) + n /\ DOMAIN t = 1 .. (Len(table) + n)
           /\ \A i \in 1 .. Len(table) : t[i] = table[i]
           /\ \A i \in (Len(table) + 1) .. (Len(table) + n) : t[i] = row
<1>1. new \in Seq(S) /\ Len(new) = n /\ \A i \in 1 .. n : new[i] = row
  OBVIOUS
<1>2. /\ t \in Seq(S) /\ Len(t) = Len(table) + n
      /\ \A i \in 1 .. (Len(table) + n) :
            t[i] = IF i <= Len(table) THEN table[i] ELSE new[i - Len(table)]
  BY <1>1, ConcatProperties
<1>3. DOMAIN t = 1 .. (Len(table) + n)
  BY <1>2
<1>4. \A i \in 1 .. Len(table) : t[i] = table[i]
  BY <1>2
<1>5. ASSUME NEW i \in (Len(table) + 1) .. (Len(table) + n) PROVE t[i] = row
  <2>1. i \in 1 .. (Len(table) + n) /\ ~(i <= Len(table)) /\ i - Len(table) \in 1 .. n
    OBVIOUS
  <2>2. QED
    BY <2>1, <1>1, <1>2
<1>6. QED
  BY <1>2, <1>3, <1>4, <1>5

LEMMA CatalogueFacts ==
    ASSUME CatalogueInv
    PROVE  /\ launched \in 0 .. MaxRows /\ launched \in Nat /\ MaxRows \in Nat
           /\ listed \subseteq 1 .. launched /\ hidden \subseteq listed
           /\ Len(variant) \in Nat /\ Len(variant) <= MaxRows
           /\ DOMAIN variant = 1 .. Len(variant) /\ DOMAIN variant \subseteq Rows
           /\ variant \in Seq(Variant) /\ variant \in [1 .. Len(variant) -> Variant]
           /\ \A s \in DOMAIN variant : variant[s] \in Variant
           /\ onSale \subseteq DOMAIN variant
           /\ placed \in 0 .. MaxRows /\ placed \in Nat /\ Placed \subseteq Rows
           /\ details \in [Rows -> SUBSET Rows] /\ wanted \in [Rows -> SUBSET Rows]
           /\ pjob \in [Clerks -> PJob] /\ \A k \in Clerks : pjob[k] \in PJob
           /\ repeats \in [SkuCodes -> Nat]
           /\ \A k \in Clerks : PJobOK(k)
           /\ \A o \in Rows : details[o] \subseteq onSale
           /\ \A o \in Placed \ torn : details[o] = wanted[o]
<1>1. MaxRows \in Nat /\ launched \in Nat /\ placed \in Nat
  BY PartiesAssumption DEF CatalogueInv, CatalogueTypeOK
<1>2. /\ Len(variant) \in Nat /\ DOMAIN variant = 1 .. Len(variant)
      /\ variant \in Seq(Variant) /\ variant \in [1 .. Len(variant) -> Variant]
      /\ \A s \in DOMAIN variant : variant[s] \in Variant
  BY TableDomain DEF CatalogueInv, CatalogueTypeOK
<1>3. Len(variant) <= MaxRows /\ placed <= MaxRows
  BY DEF CatalogueInv, CatalogueTypeOK
<1>4. DOMAIN variant \subseteq Rows /\ Placed \subseteq Rows
  BY <1>1, <1>2, <1>3 DEF Rows, Placed
<1>5. QED
  BY <1>1, <1>2, <1>3, <1>4 DEF CatalogueInv, CatalogueTypeOK, OrdersKeepDetails

LEMMA CodeSets ==
    ASSUME CatalogueInv
    PROVE  \A c : /\ IsFiniteSet(CodedWith(c)) /\ Cardinality(CodedWith(c)) \in Nat
                  /\ Coding(c) \in SUBSET Clerks /\ IsFiniteSet(Coding(c))
                  /\ Cardinality(Coding(c)) \in Nat
<1>1. IsFiniteSet(DOMAIN variant) /\ IsFiniteSet(Clerks)
  <2>1. Len(variant) \in Nat /\ DOMAIN variant = 1 .. Len(variant)
    BY CatalogueFacts
  <2>2. QED
    BY <2>1, FS_Interval, PartiesAssumption
<1>2. \A c : CodedWith(c) \subseteq DOMAIN variant /\ Coding(c) \subseteq Clerks
  BY DEF CodedWith, Coding
<1>3. \A c : IsFiniteSet(CodedWith(c)) /\ IsFiniteSet(Coding(c))
  BY <1>1, <1>2, FS_Subset
<1>4. QED
  BY <1>2, <1>3, FS_CardinalityType

\* Fewer variants and requests have to do with a code.
LEMMA CodesKept ==
    ASSUME CatalogueInv, NEW c \in SkuCodes, NEW s, NEW t, s = CodedWith(c)', t = Coding(c)',
           s \subseteq CodedWith(c), t \subseteq Coding(c), repeats'[c] = repeats[c]
    PROVE  CodesBounded(c)'
<1>1. /\ Cardinality(s) \in Nat /\ Cardinality(CodedWith(c)) \in Nat
      /\ Cardinality(s) <= Cardinality(CodedWith(c))
  BY CodeSets, SubsetBound
<1>2. /\ Cardinality(t) \in Nat /\ Cardinality(Coding(c)) \in Nat
      /\ Cardinality(t) <= Cardinality(Coding(c))
  BY CodeSets, SubsetBound
<1>3. Cardinality(CodedWith(c)) + Cardinality(Coding(c)) <= Cardinality(Clerks) + repeats[c]
  BY DEF CatalogueInv, CodesBounded
<1>4. Cardinality(Clerks) \in Nat /\ repeats[c] \in Nat
  BY ClerksCount, CatalogueFacts
<1>5. Cardinality(s) + Cardinality(t) <= Cardinality(Clerks) + repeats'[c]
  BY <1>1, <1>2, <1>3, <1>4
<1>6. QED
  BY <1>5 DEF CodesBounded

\* When no variant has the code but those that are being given it, requests
\* alone account for all of them.
LEMMA CodesStart ==
    ASSUME CatalogueInv, NEW c \in SkuCodes, NEW s, NEW t, s = CodedWith(c)', t = Coding(c)',
           repeats'[c] \in Nat,
           \A r \in s : \E k \in Clerks : pjob'[k].op = "editSku" /\ r \in pjob'[k].skus,
           \A k \in Clerks : pjob'[k].op = "editSku" => \A q, r \in pjob'[k].skus : q = r
    PROVE  CodesBounded(c)'
<1>0. PICK job : job = pjob'
  OBVIOUS
<1> DEFINE editor == [r \in s |-> CHOOSE k \in Clerks : job[k].op = "editSku" /\ r \in job[k].skus]
           p == {k \in Clerks : job[k].op = "editSku"}
<1>1. \A r \in s : editor[r] \in p /\ r \in job[editor[r]].skus
  BY <1>0
<1>2. editor \in Injection(s, p)
  <2>1. editor \in [s -> p]
    BY <1>1
  <2>2. \A q, r \in s : editor[q] = editor[r] => q = r
    BY <1>0, <1>1
  <2> HIDE DEF editor, p
  <2>3. QED
    BY <2>1, <2>2 DEF Injection, IsInjective
<1>3. p \in SUBSET Clerks /\ t \in SUBSET Clerks /\ p \cap t = {}
  BY <1>0 DEF Coding
<1> HIDE DEF editor, p
<1>4. IsFiniteSet(p)
  BY <1>3, PartiesAssumption, FS_Subset
<1>5. IsFiniteSet(s) /\ Cardinality(s) <= Cardinality(p)
  BY <1>2, <1>4, FS_Injection
<1>6. Cardinality(s) \in Nat
  BY <1>5, FS_CardinalityType
<1>7. /\ Cardinality(p) \in Nat /\ Cardinality(t) \in Nat /\ Cardinality(Clerks) \in Nat
      /\ Cardinality(p) + Cardinality(t) <= Cardinality(Clerks)
  BY <1>3, ClerksSum
<1>8. Cardinality(s) + Cardinality(t) <= Cardinality(Clerks) + repeats'[c]
  BY <1>5, <1>6, <1>7
<1>9. QED
  BY <1>8 DEF CodesBounded

\* A request starts or goes on.
LEMMA PJobChanges ==
    ASSUME CatalogueInv, NEW k \in Clerks, NEW j \in PJob, pjob' = [pjob EXCEPT ![k] = j],
           UNCHANGED PDatabase,
           j.op = "editProduct" => j.product \in 1 .. launched,
           j.op = "product" => j.number # 0 /\ CodeFree(j.code, onSale),
           j.op = "sku" => CodeFree(j.code, onSale),
           j.op = "editSku" => /\ CodeFree(j.code, onSale \ j.skus)
                               /\ j.skus \subseteq onSale /\ \A q, r \in j.skus : q = r,
           j.op = "removeSku" =>
              /\ j.skus \subseteq DOMAIN variant /\ j.seen \subseteq Placed
              /\ \A o \in j.seen : details[o] \cap j.skus = {}
              /\ j.phase = "deleted" /\ j.last =>
                    \A o \in j.seen : \A s \in details[o] : variant[s].product # j.product
    PROVE  CatalogueInv'
<1>1. /\ pjob' \in [Clerks -> PJob] /\ pjob'[k] = j
      /\ \A l \in Clerks \ {k} : pjob'[l] = pjob[l]
  BY CatalogueFacts
<1>2. UNCHANGED <<launched, listed, hidden, variant, onSale, placed, details, wanted, torn, repeats>>
  BY DEF PDatabase
<1>3. CatalogueTypeOK' /\ OrdersKeepDetails'
  BY <1>1, <1>2 DEF CatalogueInv, CatalogueTypeOK, OrdersKeepDetails, Placed
<1>4. ASSUME NEW l \in Clerks PROVE PJobOK(l)'
  <2>1. PJobOK(l)
    BY CatalogueFacts
  <2>2. CASE l = k
    <3>1. j.op \in {"editSku", "removeSku"} => j.skus \subseteq DOMAIN variant
      BY CatalogueFacts
    <3>2. j.op = "removeSku" =>
             /\ j.seen \subseteq Placed
             /\ \A o \in j.seen, s \in DOMAIN variant : s \in details[o] =>
                   s \notin j.skus /\ (j.phase = "deleted" /\ j.last => variant[s].product # j.product)
      OBVIOUS
    <3>3. QED
      BY <2>2, <3>1, <3>2, <1>1, <1>2 DEF PJobOK, Placed
  <2>3. CASE l # k
    BY <2>1, <2>3, <1>1, <1>2 DEF PJobOK, Placed
  <2>4. QED
    BY <2>2, <2>3
<1>5. ASSUME NEW c \in SkuCodes PROVE CodesBounded(c)'
  <2>1. PICK s : s = CodedWith(c)'
    OBVIOUS
  <2>2. PICK t : t = Coding(c)'
    OBVIOUS
  <2>3. CASE s \subseteq CodedWith(c) /\ t \subseteq Coding(c)
    BY <2>1, <2>2, <2>3, <1>2, CodesKept
  <2>4. CASE ~(s \subseteq CodedWith(c) /\ t \subseteq Coding(c))
    <3>1. j.op \in {"product", "sku", "editSku"} /\ j.code = c
      BY <2>1, <2>2, <2>4, <1>1, <1>2 DEF CodedWith, Coding
    <3>2. c # NoCode
      BY CatalogueAssumption
    <3>3. \A r \in onSale : variant[r].code = c => j.op = "editSku" /\ r \in j.skus
      BY <3>1, <3>2 DEF CodeFree
    <3>5. \A r \in s : \E l \in Clerks : pjob'[l].op = "editSku" /\ r \in pjob'[l].skus
      <4>1. SUFFICES ASSUME NEW r \in s
                     PROVE  \E l \in Clerks : pjob'[l].op = "editSku" /\ r \in pjob'[l].skus
        OBVIOUS
      <4>2. \/ r \in onSale /\ variant[r].code = c
            \/ \E l \in Clerks : pjob'[l].op = "editSku" /\ pjob'[l].code = c /\ r \in pjob'[l].skus
        BY <2>1, <1>2 DEF CodedWith
      <4>3. CASE r \in onSale /\ variant[r].code = c
        BY <4>3, <3>3, <1>1
      <4>4. QED
        BY <4>2, <4>3
    <3>6. \A l \in Clerks : pjob'[l].op = "editSku" => \A q, r \in pjob'[l].skus : q = r
      BY <1>4 DEF PJobOK
    <3>7. repeats'[c] \in Nat
      BY <1>2, CatalogueFacts
    <3>8. QED
      BY <2>1, <2>2, <3>5, <3>6, <3>7, CodesStart
  <2>5. QED
    BY <2>3, <2>4
<1>6. /\ \A s \in onSale' : variant'[s].product \in listed'
      /\ \A o \in Rows : details'[o] \subseteq onSale'
  BY <1>2 DEF CatalogueInv
<1>7. QED
  BY <1>3, <1>4, <1>5, <1>6 DEF CatalogueInv

\* Products and variants go, or are only hidden, and what is under them goes;
\* a product may come back without variants.
LEMMA CatalogueShrinks ==
    ASSUME CatalogueInv, NEW k \in Clerks, NEW j, j \in {IdlePJob, pjob[k]},
           pjob' = [pjob EXCEPT ![k] = j],
           UNCHANGED <<launched, variant, placed, wanted, repeats>>,
           listed' \subseteq 1 .. launched, hidden' \subseteq listed', onSale' \subseteq onSale,
           \A s \in onSale' : variant[s].product \in listed',
           details' \in [Rows -> SUBSET Rows],
           \A o \in Rows : details'[o] \subseteq details[o] \cap onSale',
           \A o \in Placed \ torn' : o \notin torn /\ details'[o] = details[o]
    PROVE  CatalogueInv'
<1>1. /\ pjob' \in [Clerks -> PJob] /\ pjob'[k] = j
      /\ \A l \in Clerks \ {k} : pjob'[l] = pjob[l]
  BY CatalogueFacts, IdlePJobType
<1>2. CatalogueTypeOK'
  BY <1>1, CatalogueFacts DEF CatalogueTypeOK
<1>3. OrdersKeepDetails'
  BY CatalogueFacts DEF OrdersKeepDetails, Placed
<1>4. ASSUME NEW l \in Clerks PROVE PJobOK(l)'
  <2>1. PJobOK(l) /\ Placed \subseteq Rows
    BY CatalogueFacts
  <2>2. CASE pjob'[l] = pjob[l]
    BY <2>1, <2>2 DEF PJobOK, Placed
  <2>3. CASE pjob'[l] = IdlePJob
    BY <2>3, IdlePJobType DEF PJobOK
  <2>4. QED
    BY <2>2, <2>3, <1>1
<1>5. ASSUME NEW c \in SkuCodes PROVE CodesBounded(c)'
  <2>1. PICK s : s = CodedWith(c)'
    OBVIOUS
  <2>2. PICK t : t = Coding(c)'
    OBVIOUS
  <2>3. \A l \in Clerks : pjob'[l] = pjob[l] \/ pjob'[l].op = "none"
    BY <1>1, IdlePJobType
  <2>4. s \subseteq CodedWith(c)
    BY <2>1, <2>3 DEF CodedWith
  <2>5. t \subseteq Coding(c)
    BY <2>2, <2>3 DEF Coding
  <2>6. repeats'[c] = repeats[c]
    OBVIOUS
  <2>7. QED
    BY <2>1, <2>2, <2>4, <2>5, <2>6, CodesKept
<1>6. /\ \A s \in onSale' : variant'[s].product \in listed'
      /\ \A o \in Rows : details'[o] \subseteq onSale'
  OBVIOUS
<1>7. QED
  BY <1>2, <1>3, <1>4, <1>5, <1>6 DEF CatalogueInv

\* What a request reads when it starts.
LEMMA CatalogueStarts ==
    ASSUME CatalogueInv, NEW k \in Clerks, NEW j \in PJob, PStart(k, j),
           j.op = "editProduct" => j.product \in 1 .. launched,
           j.op = "product" => j.number # 0 /\ CodeFree(j.code, onSale),
           j.op = "sku" => CodeFree(j.code, onSale),
           j.op = "editSku" => /\ CodeFree(j.code, onSale \ j.skus)
                               /\ j.skus \subseteq onSale /\ \A q, r \in j.skus : q = r,
           j.op = "removeSku" =>
              /\ j.skus \subseteq DOMAIN variant /\ j.seen \subseteq Placed
              /\ \A o \in j.seen : details[o] \cap j.skus = {}
    PROVE  CatalogueInv'
<1>1. PICK i : i = [j EXCEPT !.phase = "loaded"]
  OBVIOUS
<1>2. pjob' = [pjob EXCEPT ![k] = i] /\ UNCHANGED PDatabase
  BY <1>1 DEF PStart
<1>3. /\ i \in PJob /\ i.phase = "loaded" /\ i.op = j.op /\ i.product = j.product
      /\ i.skus = j.skus /\ i.code = j.code /\ i.number = j.number /\ i.seen = j.seen
  BY <1>1 DEF PJob
<1>4. ~(i.phase = "deleted" /\ i.last)
  BY <1>3
<1>5. /\ i.op = "editProduct" => i.product \in 1 .. launched
      /\ i.op = "product" => i.number # 0 /\ CodeFree(i.code, onSale)
      /\ i.op = "sku" => CodeFree(i.code, onSale)
      /\ i.op = "editSku" => /\ CodeFree(i.code, onSale \ i.skus)
                             /\ i.skus \subseteq onSale /\ \A q, r \in i.skus : q = r
      /\ i.op = "removeSku" => /\ i.skus \subseteq DOMAIN variant /\ i.seen \subseteq Placed
                               /\ \A o \in i.seen : details[o] \cap i.skus = {}
  BY <1>3
<1>6. QED
  BY <1>2, <1>3, <1>4, <1>5, PJobChanges

LEMMA ProductLoadKeeps ==
    ASSUME CatalogueInv, NEW k \in Clerks, NEW code \in SkuCodes \cup {NoCode}, NEW n \in 1 .. 2,
           ProductLoad(k, code, n)
    PROVE  CatalogueInv'
<1> DEFINE j == [IdlePJob EXCEPT !.op = "product", !.code = code, !.number = n]
<1>1. PStart(k, j) /\ CodeFree(code, onSale)
  BY DEF ProductLoad
<1>2. n \in 0 .. 2 /\ n # 0
  OBVIOUS
<1>3. j \in PJob /\ j.op = "product" /\ j.code = code /\ j.number = n
  BY <1>2, IdlePJobType DEF PJob
<1> HIDE DEF j
<1>4. QED
  BY <1>1, <1>2, <1>3, CatalogueStarts

LEMMA SkuLoadKeeps ==
    ASSUME CatalogueInv, NEW k \in Clerks, NEW code \in SkuCodes \cup {NoCode}, NEW p \in listed,
           SkuLoad(k, p, code)
    PROVE  CatalogueInv'
<1> DEFINE j == [IdlePJob EXCEPT !.op = "sku", !.product = p, !.code = code, !.number = 1]
<1>1. PStart(k, j) /\ CodeFree(code, onSale)
  BY DEF SkuLoad
<1>2. p \in 0 .. MaxRows /\ 1 \in 0 .. 2
  BY CatalogueFacts
<1>3. j \in PJob /\ j.op = "sku" /\ j.code = code
  BY <1>2, IdlePJobType DEF PJob
<1> HIDE DEF j
<1>4. QED
  BY <1>1, <1>3, CatalogueStarts

LEMMA EditSkuLoadKeeps ==
    ASSUME CatalogueInv, NEW k \in Clerks, NEW code \in SkuCodes \cup {NoCode}, NEW s \in onSale,
           EditSkuLoad(k, s, code)
    PROVE  CatalogueInv'
<1> DEFINE j == [IdlePJob EXCEPT !.op = "editSku", !.skus = {s}, !.code = code]
<1>1. PStart(k, j) /\ CodeFree(code, onSale \ {s})
  BY DEF EditSkuLoad
<1>2. s \in Rows
  BY CatalogueFacts
<1>3. j \in PJob /\ j.op = "editSku" /\ j.code = code /\ j.skus = {s}
  BY <1>2, IdlePJobType DEF PJob
<1> HIDE DEF j
<1>4. QED
  BY <1>1, <1>3, CatalogueStarts

LEMMA EditProductLoadKeeps ==
    ASSUME CatalogueInv, NEW k \in Clerks, NEW p \in listed, EditProductLoad(k, p)
    PROVE  CatalogueInv'
<1>1. PICK h : h = (p \in hidden)
  OBVIOUS
<1>0. h \in BOOLEAN
  BY <1>1
<1> DEFINE j == [IdlePJob EXCEPT !.op = "editProduct", !.product = p, !.hidden = h]
<1>2. PStart(k, j)
  BY <1>1 DEF EditProductLoad
<1>3. p \in 1 .. launched /\ p \in 0 .. MaxRows
  BY CatalogueFacts
<1>4. j \in PJob /\ j.op = "editProduct" /\ j.product = p
  BY <1>0, <1>3, IdlePJobType DEF PJob
<1> HIDE DEF j
<1>5. QED
  BY <1>2, <1>3, <1>4, CatalogueStarts

LEMMA RemoveProductLoadKeeps ==
    ASSUME CatalogueInv, NEW k \in Clerks, NEW p \in listed, RemoveProductLoad(k, p)
    PROVE  CatalogueInv'
<1> DEFINE j == [IdlePJob EXCEPT !.op = "removeProduct", !.product = p]
<1>1. PStart(k, j)
  BY DEF RemoveProductLoad
<1>2. p \in 0 .. MaxRows
  BY CatalogueFacts
<1>3. j \in PJob /\ j.op = "removeProduct"
  BY <1>2, IdlePJobType DEF PJob
<1> HIDE DEF j
<1>4. QED
  BY <1>1, <1>3, CatalogueStarts

LEMMA RemoveSkuLoadKeeps ==
    ASSUME CatalogueInv, NEW k \in Clerks, NEW s \in onSale, RemoveSkuLoad(k, s)
    PROVE  CatalogueInv'
<1>1. PICK p, set : p = variant[s].product /\ set = Placed
  OBVIOUS
<1> DEFINE j == [IdlePJob EXCEPT !.op = "removeSku", !.product = p, !.skus = {s}, !.seen = set]
<1>2. PStart(k, j) /\ NotOrdered(s)
  BY <1>1 DEF RemoveSkuLoad
<1>3. s \in DOMAIN variant /\ s \in Rows /\ set \subseteq Rows /\ p \in Rows
  BY <1>1, CatalogueFacts DEF Variant
<1>4. p \in 0 .. MaxRows
  BY <1>3, CatalogueFacts DEF Rows
<1>5. j \in PJob /\ j.op = "removeSku" /\ j.skus = {s} /\ j.seen = set
  BY <1>3, <1>4, IdlePJobType DEF PJob
<1> HIDE DEF j
<1>6. \A o \in j.seen : details[o] \cap j.skus = {}
  BY <1>1, <1>2, <1>5 DEF NotOrdered
<1>7. QED
  BY <1>1, <1>2, <1>3, <1>5, <1>6, CatalogueStarts

\* The variant is deleted in the transaction: no order that was seen names
\* another one of the product, if it was the last.
LEMMA RemoveSkuDeleteKeeps ==
    ASSUME CatalogueInv, NEW k \in Clerks, RemoveSkuDelete(k)
    PROVE  CatalogueInv'
<1>1. PICK i : i = pjob[k]
  OBVIOUS
<1>2. PICK last \in BOOLEAN : last = (/\ i.product \in listed \ hidden
                                      /\ SkusOf(i.product) \ i.skus = {})
  OBVIOUS
<1>3. PICK j : j = [i EXCEPT !.phase = "deleted", !.last = last]
  OBVIOUS
<1>4. i \in PJob /\ i.op = "removeSku" /\ PJobOK(k) /\ pjob \in [Clerks -> PJob]
  BY <1>1, CatalogueFacts DEF RemoveSkuDelete
<1>5. UNCHANGED PDatabase /\ pjob' = [pjob EXCEPT ![k] = j]
  BY <1>1, <1>2, <1>3, <1>4 DEF RemoveSkuDelete
<1>6. /\ j \in PJob /\ j.op = "removeSku" /\ j.product = i.product /\ j.skus = i.skus
      /\ j.seen = i.seen /\ j.last = last
  BY <1>3, <1>4 DEF PJob
<1>7. /\ i.skus \subseteq DOMAIN variant /\ i.seen \subseteq Placed
      /\ \A o \in i.seen, s \in DOMAIN variant : s \in details[o] => s \notin i.skus
  BY <1>1, <1>4 DEF PJobOK
<1>8. \A o \in i.seen : details[o] \subseteq onSale /\ onSale \subseteq DOMAIN variant
  BY <1>7, CatalogueFacts
<1>9. \A o \in i.seen : details[o] \cap i.skus = {}
  BY <1>7, <1>8
<1>10. last => \A o \in i.seen : \A s \in details[o] : variant[s].product # i.product
  <2>1. SUFFICES ASSUME last, NEW o \in i.seen, NEW s \in details[o], variant[s].product = i.product
                 PROVE  FALSE
    OBVIOUS
  <2>2. s \in SkusOf(i.product) /\ s \notin i.skus
    BY <2>1, <1>8, <1>9 DEF SkusOf
  <2>3. QED
    BY <2>1, <2>2, <1>2
<1>11. QED
  BY <1>5, <1>6, <1>7, <1>9, <1>10, PJobChanges

\* What Cascade leaves behind.
LEMMA CascadeLeaves ==
    ASSUME CatalogueInv, NEW set, NEW skus, NEW set2, Cascade(set, skus, set2)
    PROVE  /\ UNCHANGED <<launched, variant, placed, wanted, repeats>>
           /\ listed' \subseteq 1 .. launched /\ hidden' \subseteq listed' /\ onSale' \subseteq onSale
           /\ \A s \in onSale' : variant[s].product \in listed'
           /\ details' \in [Rows -> SUBSET Rows]
           /\ \A o \in Rows : details'[o] \subseteq details[o] \cap onSale'
           /\ \A o \in Rows : details'[o] = details[o] \ (skus \cup Under(set))
           /\ \A o \in Placed \ torn' : o \notin torn /\ (o \in set2 => details'[o] = details[o])
<1>1. PICK gone : gone = skus \cup Under(set)
  OBVIOUS
<1>2. /\ listed' = listed \ set /\ hidden' = hidden \ set /\ onSale' = onSale \ gone
      /\ details' = [o \in Rows |-> details[o] \ gone]
      /\ torn' = torn \cup {o \in set2 : details[o] \cap gone # {}}
      /\ UNCHANGED <<launched, variant, placed, wanted, repeats>>
  BY <1>1 DEF Cascade
<1>3. /\ details \in [Rows -> SUBSET Rows] /\ \A o \in Rows : details[o] \subseteq onSale
      /\ listed \subseteq 1 .. launched /\ hidden \subseteq listed /\ Placed \subseteq Rows
  BY CatalogueFacts
<1>4. \A s \in onSale' : variant[s].product \in listed'
  <2>1. TAKE s \in onSale'
  <2>2. s \in onSale /\ s \notin gone /\ variant[s].product \in listed
    BY <1>2 DEF CatalogueInv
  <2>3. variant[s].product \notin set
    BY <2>2, <1>1 DEF Under, SkusOf
  <2>4. QED
    BY <2>2, <2>3, <1>2
<1>5. \A o \in Rows : details'[o] = details[o] \ gone
  BY <1>2
<1>6. \A o \in Placed \ torn' : o \notin torn /\ (o \in set2 => details'[o] = details[o])
  BY <1>2, <1>3, <1>5
<1>7. details' \in [Rows -> SUBSET Rows]
  BY <1>2, <1>3
<1>8. QED
  BY <1>1, <1>2, <1>3, <1>4, <1>5, <1>6, <1>7

LEMMA RemoveSkuCommitKeeps ==
    ASSUME CatalogueInv, NEW k \in Clerks, RemoveSkuCommit(k)
    PROVE  CatalogueInv'
<1>1. PICK j : j = pjob[k]
  OBVIOUS
<1>2. PICK set : set = IF j.last THEN {j.product} ELSE {}
  OBVIOUS
<1>3. /\ j.op = "removeSku" /\ j.phase = "deleted" /\ pjob' = [pjob EXCEPT ![k] = IdlePJob]
      /\ Cascade(set, j.skus, Placed \ j.seen)
  BY <1>1, <1>2 DEF RemoveSkuCommit, PDone
<1>4. /\ j.seen \subseteq Placed
      /\ \A o \in j.seen, s \in DOMAIN variant : s \in details[o] =>
            s \notin j.skus /\ (j.last => variant[s].product # j.product)
  BY <1>1, <1>3, CatalogueFacts DEF PJobOK
<1>5. ASSUME NEW o \in Placed \ torn' PROVE o \notin torn /\ details'[o] = details[o]
  <2>1. o \in Rows /\ details[o] \subseteq DOMAIN variant
    BY CatalogueFacts
  <2>2. o \notin torn /\ (o \notin j.seen => details'[o] = details[o])
    BY <1>3, CascadeLeaves
  <2>3. CASE o \in j.seen
    <3>1. \A s \in details[o] : s \notin j.skus \cup Under(set)
      BY <2>1, <2>3, <1>2, <1>4 DEF Under, SkusOf
    <3>2. details'[o] = details[o] \ (j.skus \cup Under(set))
      BY <2>1, <1>3, CascadeLeaves
    <3>3. QED
      BY <3>1, <3>2, <2>2
  <2>4. QED
    BY <2>2, <2>3
<1>6. QED
  BY <1>3, <1>5, CascadeLeaves, CatalogueShrinks

LEMMA RemoveProductCommitKeeps ==
    ASSUME CatalogueInv, NEW k \in Clerks, RemoveProductCommit(k)
    PROVE  CatalogueInv'
<1>1. PICK set : set = {pjob[k].product}
  OBVIOUS
<1>2. pjob' = [pjob EXCEPT ![k] = IdlePJob] /\ Cascade(set, {}, Placed)
  BY <1>1 DEF RemoveProductCommit, PDone
<1>3. \A o \in Placed \ torn' : o \notin torn /\ details'[o] = details[o]
  BY <1>2, CascadeLeaves
<1>4. QED
  BY <1>2, <1>3, CascadeLeaves, CatalogueShrinks

LEMMA RemoveGroupKeeps ==
    ASSUME CatalogueInv, NEW set, RemoveGroup(set)
    PROVE  CatalogueInv'
<1>1. PICK k \in Clerks : TRUE
  BY PartiesAssumption
<1>2. PICK j : j = pjob[k]
  OBVIOUS
<1>3. Cascade(set, {}, Placed) /\ pjob' = [pjob EXCEPT ![k] = j]
  BY <1>2, CatalogueFacts DEF RemoveGroup
<1>4. QED
  BY <1>2, <1>3, CascadeLeaves, CatalogueShrinks

LEMMA EditProductSaveKeeps ==
    ASSUME CatalogueInv, NEW k \in Clerks, EditProductSave(k)
    PROVE  CatalogueInv'
<1>1. PICK p, h : p = pjob[k].product /\ h = pjob[k].hidden
  OBVIOUS
<1>2. /\ pjob[k].op = "editProduct" /\ listed' = listed \cup {p}
      /\ hidden' = (IF h THEN hidden \cup {p} ELSE hidden \ {p})
      /\ pjob' = [pjob EXCEPT ![k] = IdlePJob]
      /\ UNCHANGED <<launched, variant, onSale, placed, details, wanted, torn, repeats>>
  BY <1>1 DEF EditProductSave, PDone
<1>3. p \in 1 .. launched
  BY <1>1, <1>2, CatalogueFacts DEF PJobOK
<1>4. listed' \subseteq 1 .. launched /\ hidden' \subseteq listed' /\ listed \subseteq listed'
  BY <1>2, <1>3, CatalogueFacts
<1>5. \A s \in onSale' : variant[s].product \in listed'
  BY <1>2, <1>4 DEF CatalogueInv
<1>6. /\ details' \in [Rows -> SUBSET Rows] /\ onSale' \subseteq onSale
      /\ \A o \in Rows : details'[o] \subseteq details[o] \cap onSale'
      /\ \A o \in Placed \ torn' : o \notin torn /\ details'[o] = details[o]
  BY <1>2, CatalogueFacts
<1>7. QED
  BY <1>2, <1>4, <1>5, <1>6, CatalogueShrinks

\* A product is hidden or shown again.
LEMMA HidingKeeps ==
    ASSUME CatalogueInv, hidden' \subseteq listed,
           UNCHANGED <<launched, listed, variant, onSale, placed, details, pjob, wanted, torn, repeats>>
    PROVE  CatalogueInv'
<1>1. PICK k \in Clerks : TRUE
  BY PartiesAssumption
<1>2. PICK j : j = pjob[k]
  OBVIOUS
<1>3. pjob' = [pjob EXCEPT ![k] = j]
  BY <1>2, CatalogueFacts
<1>4. /\ details' \in [Rows -> SUBSET Rows] /\ onSale' \subseteq onSale
      /\ \A o \in Rows : details'[o] \subseteq details[o] \cap onSale'
      /\ \A o \in Placed \ torn' : o \notin torn /\ details'[o] = details[o]
      /\ listed' \subseteq 1 .. launched /\ hidden' \subseteq listed'
  BY CatalogueFacts
<1>5. \A s \in onSale' : variant[s].product \in listed'
  BY DEF CatalogueInv
<1>6. QED
  BY <1>2, <1>3, <1>4, <1>5, CatalogueShrinks

LEMMA PAbortKeeps ==
    ASSUME CatalogueInv, NEW k \in Clerks, PAbort(k)
    PROVE  CatalogueInv'
<1>1. /\ pjob' = [pjob EXCEPT ![k] = IdlePJob]
      /\ UNCHANGED <<launched, listed, hidden, variant, onSale, placed, details, wanted, torn, repeats>>
  BY DEF PAbort, PDone, PDatabase
<1>2. /\ details' \in [Rows -> SUBSET Rows] /\ onSale' \subseteq onSale
      /\ \A o \in Rows : details'[o] \subseteq details[o] \cap onSale'
      /\ \A o \in Placed \ torn' : o \notin torn /\ details'[o] = details[o]
      /\ listed' \subseteq 1 .. launched /\ hidden' \subseteq listed'
  BY <1>1, CatalogueFacts
<1>3. \A s \in onSale' : variant[s].product \in listed'
  BY <1>1 DEF CatalogueInv
<1>4. QED
  BY <1>1, <1>2, <1>3, CatalogueShrinks

LEMMA PlaceOrderKeeps ==
    ASSUME CatalogueInv, inUse \in Mixes, NEW set, PlaceOrder(set)
    PROVE  CatalogueInv'
<1>1. PICK n \in Nat : n = placed
  BY CatalogueFacts
<1>2. /\ set \subseteq onSale /\ n < inUse.rows /\ placed' = n + 1
      /\ details' = [details EXCEPT ![n + 1] = set] /\ wanted' = [wanted EXCEPT ![n + 1] = set]
      /\ UNCHANGED <<launched, listed, hidden, variant, onSale, pjob, torn, repeats>>
  BY <1>1 DEF PlaceOrder
<1>3. n + 1 \in Rows /\ n + 1 <= MaxRows
  <2>1. inUse.rows \in Int /\ inUse.rows <= MaxRows /\ MaxRows \in Nat
    BY PartiesAssumption
  <2>2. QED
    BY <2>1, <1>2 DEF Rows
<1>4. /\ details \in [Rows -> SUBSET Rows] /\ wanted \in [Rows -> SUBSET Rows]
      /\ \A o \in Rows : details[o] \subseteq onSale
      /\ onSale \subseteq DOMAIN variant /\ DOMAIN variant \subseteq Rows
      /\ \A o \in 1 .. n : o \notin torn => details[o] = wanted[o]
      /\ 1 .. n \subseteq Rows
  BY <1>1, CatalogueFacts DEF Placed
<1>5. /\ details' \in [Rows -> SUBSET Rows] /\ wanted' \in [Rows -> SUBSET Rows]
      /\ details'[n + 1] = set /\ wanted'[n + 1] = set
      /\ \A o \in Rows \ {n + 1} : details'[o] = details[o] /\ wanted'[o] = wanted[o]
  BY <1>2, <1>3, <1>4
<1>6. CatalogueTypeOK'
  <2>1. placed' \in 0 .. MaxRows
    BY <1>2, <1>3
  <2>2. QED
    BY <2>1, <1>2, <1>5 DEF CatalogueInv, CatalogueTypeOK
<1>7. n + 1 \notin 1 .. n /\ \A o \in 1 .. (n + 1) : o = n + 1 \/ o \in 1 .. n
  OBVIOUS
<1>8. OrdersKeepDetails'
  BY <1>2, <1>4, <1>5, <1>7 DEF OrdersKeepDetails, Placed
<1>9. ASSUME NEW l \in Clerks PROVE PJobOK(l)'
  <2>1. PJobOK(l)
    BY CatalogueFacts
  <2>2. pjob[l].op = "removeSku" => /\ pjob[l].seen \subseteq 1 .. n
                                    /\ \A o \in pjob[l].seen : details'[o] = details[o]
    BY <2>1, <1>1, <1>4, <1>5, <1>7 DEF PJobOK, Placed
  <2>3. 1 .. n \subseteq 1 .. (n + 1)
    OBVIOUS
  <2>4. QED
    BY <2>1, <2>2, <2>3, <1>1, <1>2 DEF PJobOK, Placed
<1>10. ASSUME NEW c \in SkuCodes PROVE CodesBounded(c)'
  BY <1>2 DEF CatalogueInv, CodesBounded, CodedWith, Coding
<1>11. /\ \A s \in onSale' : variant'[s].product \in listed'
       /\ \A o \in Rows : details'[o] \subseteq onSale'
  BY <1>2, <1>4, <1>5 DEF CatalogueInv
<1>12. QED
  BY <1>6, <1>8, <1>9, <1>10, <1>11 DEF CatalogueInv

\* Variants are inserted under a product.
LEMMA SkusInserted ==
    ASSUME CatalogueInv, inUse \in Mixes, NEW k \in Clerks, NEW n \in 1 .. 2, NEW p,
           NEW code \in SkuCodes \cup {NoCode},
           InsertSkus(n, p, code), pjob[k].op \in {"product", "sku"}, pjob[k].code = code, PDone(k),
           launched' \in 0 .. MaxRows, launched <= launched', listed \subseteq listed',
           listed' \subseteq 1 .. launched', p \in listed',
           UNCHANGED <<hidden, placed, details, wanted, torn>>
    PROVE  CatalogueInv'
<1>1. PICK m \in Nat : m = Len(variant) /\ DOMAIN variant = 1 .. m /\ variant \in Seq(Variant)
                       /\ onSale \subseteq 1 .. m
  BY CatalogueFacts
<1>2. PICK row : row = [product |-> p, code |-> code]
  OBVIOUS
<1>3. PICK new : new = (m + 1) .. (m + n)
  OBVIOUS
<1>4. /\ m + n <= inUse.rows /\ variant' = variant \o [i \in 1 .. n |-> row]
      /\ onSale' = onSale \cup new
      /\ repeats' = (IF code = NoCode THEN repeats ELSE [repeats EXCEPT ![code] = repeats[code] + n - 1])
      /\ pjob' = [pjob EXCEPT ![k] = IdlePJob]
  BY <1>1, <1>2, <1>3 DEF InsertSkus, PDone
<1>5. p \in Rows /\ row \in Variant
  <2>1. launched' <= MaxRows /\ MaxRows \in Nat /\ launched' \in Nat /\ p \in 1 .. launched'
    BY CatalogueFacts
  <2>2. p \in Rows
    BY <2>1 DEF Rows
  <2>3. QED
    BY <2>2, <1>2 DEF Variant
<1>6. PICK t : t = variant'
  OBVIOUS
<1>7. /\ t \in Seq(Variant) /\ Len(t) = m + n /\ DOMAIN t = 1 .. (m + n)
      /\ (\A i \in 1 .. m : t[i] = variant[i]) /\ \A i \in new : t[i] = row
  <2>1. PICK rows : rows = [i \in 1 .. n |-> row]
    OBVIOUS
  <2>2. n \in Nat /\ t = variant \o rows
    BY <2>1, <1>4, <1>6
  <2>3. /\ t \in Seq(Variant) /\ Len(t) = Len(variant) + n /\ DOMAIN t = 1 .. (Len(variant) + n)
        /\ \A i \in 1 .. Len(variant) : t[i] = variant[i]
        /\ \A i \in (Len(variant) + 1) .. (Len(variant) + n) : t[i] = row
    <3>1. variant \in Seq(Variant) /\ row \in Variant
      BY <1>1, <1>5
    <3>2. QED
      BY <3>1, <2>1, <2>2, AppendRows
  <2>4. QED
    BY <2>3, <1>1, <1>3
<1>8. /\ 1 .. m \subseteq 1 .. (m + n) /\ new \subseteq 1 .. (m + n)
      /\ \A i \in new : i \notin 1 .. m
      /\ \A i \in 1 .. (m + n) : i \in 1 .. m \/ i \in new
      /\ IsFiniteSet(new) /\ Cardinality(new) = n
  <2>1. PICK a, b \in Int : a = m + 1 /\ b = m + n
    OBVIOUS
  <2>2. IsFiniteSet(a .. b) /\ Cardinality(a .. b) = IF a > b THEN 0 ELSE b - a + 1
    BY FS_Interval
  <2>3. Cardinality(a .. b) = n
    BY <2>1, <2>2
  <2>4. QED
    BY <2>1, <2>2, <2>3, <1>3
<1>9. m + n <= MaxRows
  <2>1. inUse.rows \in Int /\ inUse.rows <= MaxRows /\ MaxRows \in Nat
    BY PartiesAssumption
  <2>2. QED
    BY <2>1, <1>4
<1>10. /\ pjob' \in [Clerks -> PJob] /\ pjob'[k] = IdlePJob
       /\ \A l \in Clerks \ {k} : pjob'[l] = pjob[l]
  BY <1>4, CatalogueFacts, IdlePJobType
<1>11. /\ repeats' \in [SkuCodes -> Nat]
       /\ \A c \in SkuCodes : repeats'[c] = IF c = code THEN repeats[c] + n - 1 ELSE repeats[c]
  <2>1. repeats \in [SkuCodes -> Nat] /\ NoCode \notin SkuCodes
    BY CatalogueFacts, CatalogueAssumption
  <2>2. \A c \in SkuCodes : repeats[c] + n - 1 \in Nat
    BY <2>1
  <2>3. CASE code = NoCode
    BY <2>1, <2>3, <1>4
  <2>4. CASE code # NoCode
    BY <2>1, <2>2, <2>4, <1>4
  <2>5. QED
    BY <2>3, <2>4
<1>12. CatalogueTypeOK'
  <2>1. hidden' \subseteq listed' /\ onSale' \subseteq DOMAIN t
    BY <1>1, <1>4, <1>7, <1>8, CatalogueFacts
  <2>2. QED
    BY <2>1, <1>6, <1>7, <1>9, <1>10, <1>11, CatalogueFacts DEF CatalogueTypeOK
<1>13. OrdersKeepDetails'
  BY DEF CatalogueInv, OrdersKeepDetails, Placed
<1>14. ASSUME NEW l \in Clerks PROVE PJobOK(l)'
  <2>1. PJobOK(l) /\ pjob[l] \in PJob
    BY CatalogueFacts
  <2>2. CASE l = k
    BY <2>2, <1>10, IdlePJobType DEF PJobOK
  <2>3. CASE l # k
    <3>1. pjob'[l] = pjob[l]
      BY <2>3, <1>10
    <3>2. pjob[l].op = "editProduct" => pjob[l].product \in 1 .. launched'
      BY <2>1, CatalogueFacts DEF PJobOK
    <3>3. pjob[l].op = "removeSku" => pjob[l].seen \subseteq Placed /\ Placed \subseteq Rows
      BY <2>1, CatalogueFacts DEF PJobOK
    <3>4. \A o \in Rows, s \in 1 .. (m + n) : s \in details[o] => s \in 1 .. m /\ t[s] = variant[s]
      BY <1>1, <1>7, CatalogueFacts
    <3>5. pjob[l].op = "removeSku" =>
             \A o \in pjob[l].seen, s \in 1 .. (m + n) : s \in details[o] =>
                s \notin pjob[l].skus /\
                (pjob[l].phase = "deleted" /\ pjob[l].last => t[s].product # pjob[l].product)
      BY <2>1, <3>3, <3>4, <1>1 DEF PJobOK
    <3>6. pjob[l].op \in {"editSku", "removeSku"} => pjob[l].skus \subseteq 1 .. (m + n)
      BY <2>1, <1>1, <1>8 DEF PJobOK
    <3>7. /\ pjob[l].op = "product" => pjob[l].number # 0
          /\ pjob[l].op = "editSku" => \A q, r \in pjob[l].skus : q = r
      BY <2>1 DEF PJobOK
    <3>8. QED
      BY <3>1, <3>2, <3>3, <3>5, <3>6, <3>7, <1>6, <1>7 DEF PJobOK, Placed
  <2>4. QED
    BY <2>2, <2>3
<1>15. ASSUME NEW c \in SkuCodes PROVE CodesBounded(c)'
  <2>1. PICK s : s = CodedWith(c)'
    OBVIOUS
  <2>2. PICK w : w = Coding(c)'
    OBVIOUS
  <2>3. w \subseteq Coding(c) /\ k \notin w
    BY <2>2, <1>10, IdlePJobType DEF Coding
  <2>4. \A r \in s : r \in CodedWith(c) \/ (r \in new /\ row.code = c)
    <3>1. SUFFICES ASSUME NEW r \in s PROVE r \in CodedWith(c) \/ (r \in new /\ row.code = c)
      OBVIOUS
    <3>2. /\ r \in 1 .. (m + n)
          /\ \/ r \in onSale' /\ t[r].code = c
             \/ \E l \in Clerks : pjob'[l].op = "editSku" /\ pjob'[l].code = c /\ r \in pjob'[l].skus
      BY <2>1, <1>6, <1>7 DEF CodedWith
    <3>3. CASE \E l \in Clerks : pjob'[l].op = "editSku" /\ pjob'[l].code = c /\ r \in pjob'[l].skus
      <4>1. PICK l \in Clerks : pjob'[l].op = "editSku" /\ pjob'[l].code = c /\ r \in pjob'[l].skus
        BY <3>3
      <4>2. pjob'[l] = pjob[l] /\ PJobOK(l)
        BY <4>1, <1>10, IdlePJobType, CatalogueFacts
      <4>3. QED
        BY <4>1, <4>2 DEF PJobOK, CodedWith
    <3>4. CASE r \in onSale' /\ t[r].code = c
      <4>1. CASE r \in new
        BY <3>4, <4>1, <1>7
      <4>2. CASE r \notin new
        BY <3>2, <3>4, <4>2, <1>1, <1>4, <1>7, <1>8 DEF CodedWith
      <4>3. QED
        BY <4>1, <4>2
    <3>5. QED
      BY <3>2, <3>3, <3>4
  <2>5. row.code = code
    BY <1>2
  <2>6. CASE c = code
    <3>1. s \subseteq CodedWith(c) \cup new
      BY <2>4
    <3>2. /\ IsFiniteSet(CodedWith(c) \cup new) /\ Cardinality(CodedWith(c)) \in Nat
          /\ Cardinality(CodedWith(c) \cup new) \in Nat
          /\ Cardinality(CodedWith(c) \cup new) <= Cardinality(CodedWith(c)) + Cardinality(new)
      BY <1>8, CodeSets, SumBound
    <3>3. Cardinality(s) \in Nat /\ Cardinality(s) <= Cardinality(CodedWith(c)) + n
      <4>1. Cardinality(s) \in Nat /\ Cardinality(s) <= Cardinality(CodedWith(c) \cup new)
        BY <3>1, <3>2, SubsetBound
      <4>2. QED
        BY <4>1, <3>2, <1>8
    <3>4. k \in Coding(c)
      BY <2>6 DEF Coding
    <3>5. IsFiniteSet(w)
      BY <2>3, CodeSets, FS_Subset
    <3>6. Cardinality(w) \in Nat /\ Cardinality(w \cup {k}) = Cardinality(w) + 1
      BY <3>5, <2>3, OneMore
    <3>7. w \cup {k} \subseteq Coding(c)
      BY <2>3, <3>4
    <3>8. Cardinality(Coding(c)) \in Nat /\ Cardinality(w \cup {k}) <= Cardinality(Coding(c))
      BY <3>7, CodeSets, SubsetBound
    <3>9. Cardinality(CodedWith(c)) + Cardinality(Coding(c)) <= Cardinality(Clerks) + repeats[c]
      BY DEF CatalogueInv, CodesBounded
    <3>10. /\ repeats[c] \in Nat /\ repeats'[c] = repeats[c] + n - 1
           /\ Cardinality(Clerks) \in Nat
      BY <2>6, <1>11, CatalogueFacts, ClerksCount
    <3>11. Cardinality(s) + Cardinality(w) <= Cardinality(Clerks) + repeats'[c]
      BY <3>2, <3>3, <3>6, <3>8, <3>9, <3>10
    <3>12. QED
      BY <3>11, <2>1, <2>2 DEF CodesBounded
  <2>7. CASE c # code
    <3>1. s \subseteq CodedWith(c) /\ repeats'[c] = repeats[c]
      BY <2>4, <2>5, <2>7, <1>11
    <3>2. QED
      BY <3>1, <2>1, <2>2, <2>3, CodesKept
  <2>8. QED
    BY <2>6, <2>7
<1>16. \A s \in onSale' : variant'[s].product \in listed'
  <2>1. TAKE s \in onSale'
  <2>2. CASE s \in new
    BY <2>2, <1>2, <1>6, <1>7
  <2>3. CASE s \notin new
    <3>1. s \in onSale /\ s \in 1 .. m
      BY <2>3, <1>1, <1>4
    <3>2. QED
      BY <3>1, <1>6, <1>7 DEF CatalogueInv
  <2>4. QED
    BY <2>2, <2>3
<1>17. \A o \in Rows : details'[o] \subseteq onSale'
  BY <1>4, CatalogueFacts
<1>18. QED
  BY <1>12, <1>13, <1>14, <1>15, <1>16, <1>17 DEF CatalogueInv

LEMMA ProductSaveKeeps ==
    ASSUME CatalogueInv, inUse \in Mixes, NEW k \in Clerks, ProductSave(k)
    PROVE  CatalogueInv'
<1>1. PICK n, p, code : n = pjob[k].number /\ p = launched + 1 /\ code = pjob[k].code
  OBVIOUS
<1>2. /\ pjob[k].op = "product" /\ launched < inUse.rows /\ launched' = p
      /\ listed' = listed \cup {p} /\ InsertSkus(n, p, code) /\ PDone(k)
      /\ UNCHANGED <<hidden, placed, details, wanted, torn>>
  BY <1>1 DEF ProductSave
<1>3. n \in 1 .. 2 /\ code \in SkuCodes \cup {NoCode}
  <2>1. n \in 0 .. 2 /\ n # 0 /\ code \in SkuCodes \cup {NoCode}
    BY <1>1, <1>2, CatalogueFacts DEF PJob, PJobOK
  <2>2. QED
    BY <2>1
<1>4. /\ launched' \in 0 .. MaxRows /\ launched <= launched'
  <2>1. inUse.rows \in Int /\ inUse.rows <= MaxRows /\ MaxRows \in Nat /\ launched \in Nat
    BY PartiesAssumption, CatalogueFacts
  <2>2. QED
    BY <2>1, <1>1, <1>2
<1>5. listed \subseteq listed' /\ listed' \subseteq 1 .. launched' /\ p \in listed'
  BY <1>1, <1>2, <1>4, CatalogueFacts
<1>6. QED
  BY <1>1, <1>2, <1>3, <1>4, <1>5, SkusInserted

LEMMA SkuSaveKeeps ==
    ASSUME CatalogueInv, inUse \in Mixes, NEW k \in Clerks, SkuSave(k)
    PROVE  CatalogueInv'
<1>1. PICK p, code : p = pjob[k].product /\ code = pjob[k].code
  OBVIOUS
<1>2. /\ pjob[k].op = "sku" /\ p \in listed /\ InsertSkus(1, p, code) /\ PDone(k)
      /\ UNCHANGED <<launched, listed, hidden, placed, details, wanted, torn>>
  BY <1>1 DEF SkuSave
<1>3. code \in SkuCodes \cup {NoCode} /\ 1 \in 1 .. 2
  BY <1>1, CatalogueFacts DEF PJob
<1>4. /\ launched' \in 0 .. MaxRows /\ launched <= launched' /\ listed \subseteq listed'
      /\ listed' \subseteq 1 .. launched' /\ p \in listed'
  BY <1>2, CatalogueFacts
<1>5. QED
  BY <1>1, <1>2, <1>3, <1>4, SkusInserted

LEMMA EditSkuSaveKeeps ==
    ASSUME CatalogueInv, NEW k \in Clerks, EditSkuSave(k)
    PROVE  CatalogueInv'
<1>1. PICK code : code = pjob[k].code
  OBVIOUS
<1>2. PICK s \in pjob[k].skus : /\ variant[s].product \in listed
                                /\ variant' = [variant EXCEPT ![s].code = code]
  BY <1>1 DEF EditSkuSave
<1>3. /\ pjob[k].op = "editSku" /\ onSale' = onSale \cup pjob[k].skus
      /\ pjob' = [pjob EXCEPT ![k] = IdlePJob]
      /\ UNCHANGED <<launched, listed, hidden, placed, details, wanted, torn, repeats>>
  BY DEF EditSkuSave, PDone
<1>4. pjob[k].skus = {s} /\ s \in DOMAIN variant /\ code \in SkuCodes \cup {NoCode}
  BY <1>1, <1>3, CatalogueFacts DEF PJobOK, PJob
<1>5. PICK m \in Nat : m = Len(variant) /\ DOMAIN variant = 1 .. m
                       /\ variant \in [1 .. m -> Variant] /\ onSale \subseteq 1 .. m
  BY CatalogueFacts
<1>6. PICK t : t = variant'
  OBVIOUS
<1>7. ASSUME NEW i \in 1 .. m
      PROVE  /\ t[i] \in Variant /\ t[i].product = variant[i].product
             /\ i # s => t[i] = variant[i]
             /\ t[s].code = code
  <2>1. variant[s] \in Variant /\ variant[i] \in Variant
    BY <1>4, <1>5
  <2>2. t[s] = [variant[s] EXCEPT !.code = code] /\ (i # s => t[i] = variant[i])
    BY <1>2, <1>4, <1>5, <1>6
  <2>3. QED
    BY <2>1, <2>2, <1>4 DEF Variant
<1>8. t \in Seq(Variant) /\ Len(t) = m /\ DOMAIN t = 1 .. m
  <2>1. DOMAIN t = 1 .. m /\ t = [i \in 1 .. m |-> t[i]]
    BY <1>2, <1>5, <1>6
  <2>2. t \in [1 .. m -> Variant]
    BY <2>1, <1>7
  <2>3. QED
    BY <2>2, TableOf
<1>9. /\ pjob' \in [Clerks -> PJob] /\ pjob'[k] = IdlePJob
      /\ \A l \in Clerks \ {k} : pjob'[l] = pjob[l]
  BY <1>3, CatalogueFacts, IdlePJobType
<1>10. CatalogueTypeOK'
  <2>1. onSale' \subseteq 1 .. m /\ Len(t) <= MaxRows
    BY <1>3, <1>4, <1>5, <1>8, CatalogueFacts
  <2>2. QED
    BY <2>1, <1>3, <1>6, <1>8, <1>9 DEF CatalogueInv, CatalogueTypeOK
<1>11. OrdersKeepDetails'
  BY <1>3 DEF CatalogueInv, OrdersKeepDetails, Placed
<1>12. ASSUME NEW l \in Clerks PROVE PJobOK(l)'
  <2>1. PJobOK(l)
    BY CatalogueFacts
  <2>2. CASE l = k
    BY <2>2, <1>9, IdlePJobType DEF PJobOK
  <2>3. CASE l # k
    BY <2>1, <2>3, <1>3, <1>5, <1>6, <1>7, <1>8, <1>9 DEF PJobOK, Placed
  <2>4. QED
    BY <2>2, <2>3
<1>13. ASSUME NEW c \in SkuCodes PROVE CodesBounded(c)'
  <2>1. PICK r : r = CodedWith(c)'
    OBVIOUS
  <2>2. PICK w : w = Coding(c)'
    OBVIOUS
  <2>3. w \subseteq Coding(c)
    BY <2>2, <1>9, IdlePJobType DEF Coding
  <2>4. r \subseteq CodedWith(c)
    <3>1. SUFFICES ASSUME NEW i \in r PROVE i \in CodedWith(c)
      OBVIOUS
    <3>2. /\ i \in 1 .. m
          /\ \/ i \in onSale' /\ t[i].code = c
             \/ \E l \in Clerks : pjob'[l].op = "editSku" /\ pjob'[l].code = c /\ i \in pjob'[l].skus
      BY <2>1, <1>6, <1>8 DEF CodedWith
    <3>3. CASE \E l \in Clerks : pjob'[l].op = "editSku" /\ pjob'[l].code = c /\ i \in pjob'[l].skus
      BY <3>2, <3>3, <1>5, <1>9, IdlePJobType DEF CodedWith
    <3>4. CASE i \in onSale' /\ t[i].code = c
      <4>1. CASE i = s
        BY <3>2, <3>4, <4>1, <1>1, <1>3, <1>4, <1>5, <1>7 DEF CodedWith
      <4>2. CASE i # s
        BY <3>2, <3>4, <4>2, <1>3, <1>4, <1>5, <1>7 DEF CodedWith
      <4>3. QED
        BY <4>1, <4>2
    <3>5. QED
      BY <3>2, <3>3, <3>4
  <2>5. QED
    BY <2>1, <2>2, <2>3, <2>4, <1>3, CodesKept
<1>14. \A i \in onSale' : variant'[i].product \in listed'
  <2>1. TAKE i \in onSale'
  <2>2. i \in 1 .. m /\ (i = s \/ i \in onSale)
    BY <1>3, <1>4, <1>5
  <2>3. t[i].product = variant[i].product
    BY <2>2, <1>7
  <2>4. QED
    BY <2>2, <2>3, <1>2, <1>3, <1>6 DEF CatalogueInv
<1>15. \A o \in Rows : details'[o] \subseteq onSale'
  BY <1>3, CatalogueFacts
<1>16. QED
  BY <1>10, <1>11, <1>12, <1>13, <1>14, <1>15 DEF CatalogueInv

LEMMA CatalogueKept ==
    ASSUME CatalogueInv, inUse \in Mixes, PNext
    PROVE  CatalogueInv'
<1>1. ASSUME NEW p \in listed, SoftDeleteProduct(p) \/ RestoreProduct(p) PROVE CatalogueInv'
  <2>1. /\ hidden' \subseteq listed
        /\ UNCHANGED <<launched, listed, variant, onSale, placed, details, pjob,
                       wanted, torn, repeats>>
    BY <1>1, CatalogueFacts DEF SoftDeleteProduct, RestoreProduct
  <2>2. QED
    BY <2>1, HidingKeeps
<1>2. ASSUME NEW set, RemoveGroup(set) PROVE CatalogueInv'
  BY <1>2, RemoveGroupKeeps
<1>3. ASSUME NEW set, PlaceOrder(set) PROVE CatalogueInv'
  BY <1>3, PlaceOrderKeeps
<1>4. ASSUME NEW k \in Clerks, ProductsController(k) PROVE CatalogueInv'
  <2>1. ASSUME NEW code \in SkuCodes \cup {NoCode}, NEW n \in 1 .. 2, ProductLoad(k, code, n)
        PROVE  CatalogueInv'
    BY <2>1, ProductLoadKeeps
  <2>2. ASSUME NEW p \in listed, EditProductLoad(k, p) PROVE CatalogueInv'
    BY <2>2, EditProductLoadKeeps
  <2>3. ASSUME NEW p \in listed, RemoveProductLoad(k, p) PROVE CatalogueInv'
    BY <2>3, RemoveProductLoadKeeps
  <2>4. ASSUME ProductSave(k) PROVE CatalogueInv'
    BY <2>4, ProductSaveKeeps
  <2>5. ASSUME EditProductSave(k) PROVE CatalogueInv'
    BY <2>5, EditProductSaveKeeps
  <2>6. ASSUME RemoveProductCommit(k) PROVE CatalogueInv'
    BY <2>6, RemoveProductCommitKeeps
  <2>7. QED
    BY <1>4, <2>1, <2>2, <2>3, <2>4, <2>5, <2>6 DEF ProductsController
<1>5. ASSUME NEW k \in Clerks, SkusController(k) PROVE CatalogueInv'
  <2>1. ASSUME NEW code \in SkuCodes \cup {NoCode}, NEW p \in listed, SkuLoad(k, p, code)
        PROVE  CatalogueInv'
    BY <2>1, SkuLoadKeeps
  <2>2. ASSUME NEW code \in SkuCodes \cup {NoCode}, NEW s \in onSale, EditSkuLoad(k, s, code)
        PROVE  CatalogueInv'
    BY <2>2, EditSkuLoadKeeps
  <2>3. ASSUME NEW s \in onSale, RemoveSkuLoad(k, s) PROVE CatalogueInv'
    BY <2>3, RemoveSkuLoadKeeps
  <2>4. ASSUME SkuSave(k) PROVE CatalogueInv'
    BY <2>4, SkuSaveKeeps
  <2>5. ASSUME EditSkuSave(k) PROVE CatalogueInv'
    BY <2>5, EditSkuSaveKeeps
  <2>6. ASSUME RemoveSkuDelete(k) PROVE CatalogueInv'
    BY <2>6, RemoveSkuDeleteKeeps
  <2>7. ASSUME RemoveSkuCommit(k) PROVE CatalogueInv'
    BY <2>7, RemoveSkuCommitKeeps
  <2>8. QED
    BY <1>5, <2>1, <2>2, <2>3, <2>4, <2>5, <2>6, <2>7 DEF SkusController
<1>6. ASSUME NEW k \in Clerks, PAbort(k) PROVE CatalogueInv'
  BY <1>6, PAbortKeeps
<1>7. QED
  BY <1>1, <1>2, <1>3, <1>4, <1>5, <1>6 DEF PNext

LEMMA CatalogueBegin == Init => CatalogueInv
<1>1. SUFFICES ASSUME Init PROVE CatalogueInv
  OBVIOUS
<1>2. /\ launched = 0 /\ listed = {} /\ hidden = {} /\ variant = <<>> /\ onSale = {} /\ placed = 0
      /\ details = [o \in Rows |-> {}] /\ wanted = [o \in Rows |-> {}]
      /\ pjob = [k \in Clerks |-> IdlePJob] /\ repeats = [c \in SkuCodes |-> 0]
  BY <1>1 DEF Init, PInit
<1>3. /\ Len(variant) = 0 /\ DOMAIN variant = {} /\ variant \in Seq(Variant) /\ MaxRows \in Nat
      /\ Placed = {}
  BY <1>2, PartiesAssumption DEF Placed
<1>4. CatalogueTypeOK
  BY <1>2, <1>3, IdlePJobType DEF CatalogueTypeOK
<1>5. \A k \in Clerks : PJobOK(k)
  BY <1>2, IdlePJobType DEF PJobOK
<1>6. Cardinality({}) = 0
  BY FS_EmptySet, Zenon
<1>7. ASSUME NEW c \in SkuCodes PROVE CodesBounded(c)
  <2>1. CodedWith(c) = {} /\ Coding(c) = {} /\ repeats[c] = 0
    BY <1>2, <1>3, IdlePJobType DEF CodedWith, Coding
  <2>2. 0 + 0 <= Cardinality(Clerks) + 0
    BY ClerksCount
  <2>3. QED
    BY <2>1, <2>2, <1>6 DEF CodesBounded
<1>8. QED
  BY <1>2, <1>3, <1>4, <1>5, <1>7 DEF CatalogueInv, OrdersKeepDetails

\* What the catalogue's tables and its requests in flight always satisfy.
THEOREM CatalogueInvariant == Spec => []CatalogueInv
<1>1. Init => CatalogueInv
  BY CatalogueBegin
<1>2. CatalogueInv /\ inUse \in Mixes /\ [Next]_shopVars => CatalogueInv'
  <2>1. SUFFICES ASSUME CatalogueInv, inUse \in Mixes, [Next]_shopVars PROVE CatalogueInv'
    OBVIOUS
  <2>2. CASE PNext
    BY <2>1, <2>2, CatalogueKept
  <2>3. CASE UNCHANGED catalogueVars
    <3>1. UNCHANGED <<launched, listed, hidden, variant, onSale, placed, details, pjob,
                      wanted, torn, repeats>>
      BY <2>3 DEF catalogueVars
    <3>2. CatalogueTypeOK' /\ OrdersKeepDetails' /\ \A k \in Clerks : PJobOK(k)'
      BY <2>1, <3>1 DEF CatalogueInv, CatalogueTypeOK, OrdersKeepDetails, PJobOK, Placed
    <3>3. \A c \in SkuCodes : CodesBounded(c)'
      BY <2>1, <3>1 DEF CatalogueInv, CodesBounded, CodedWith, Coding
    <3>4. QED
      BY <2>1, <3>1, <3>2, <3>3 DEF CatalogueInv
  <2>4. QED
    BY <2>1, <2>2, <2>3, CatalogueStep
<1>3. QED
  BY <1>1, <1>2, MixStays, PTL DEF Spec

\* Variants share a code only as far as requests overlap, or one request named
\* it for several of them (createProductVariant, create and update of
\* SkusService).
THEOREM SkuCodesUniqueHolds == Spec => []SkuCodesUnique
<1>1. CatalogueInv => SkuCodesUnique
  <2>1. SUFFICES ASSUME CatalogueInv, NEW c \in SkuCodes
                 PROVE  Cardinality({s \in onSale : variant[s].code = c})
                           <= Cardinality(Clerks) + repeats[c]
    BY DEF SkuCodesUnique
  <2>2. PICK set : set = {s \in onSale : variant[s].code = c}
    OBVIOUS
  <2>3. set \subseteq CodedWith(c)
    BY <2>1, <2>2, CatalogueFacts DEF CodedWith
  <2>4. /\ Cardinality(set) \in Nat /\ Cardinality(CodedWith(c)) \in Nat
        /\ Cardinality(set) <= Cardinality(CodedWith(c)) /\ Cardinality(Coding(c)) \in Nat
    BY <2>1, <2>3, CodeSets, SubsetBound
  <2>5. Cardinality(CodedWith(c)) + Cardinality(Coding(c)) <= Cardinality(Clerks) + repeats[c]
    BY <2>1 DEF CatalogueInv, CodesBounded
  <2>6. Cardinality(Clerks) \in Nat /\ repeats[c] \in Nat
    BY <2>1, ClerksCount, CatalogueFacts
  <2>7. Cardinality(set) <= Cardinality(Clerks) + repeats[c]
    BY <2>4, <2>5, <2>6
  <2>8. QED
    BY <2>2, <2>7
<1>2. QED
  BY <1>1, CatalogueInvariant, PTL

\* An order keeps its details, unless its products were removed or it was
\* placed while a removal was under way (SkusService.remove).
THEOREM OrdersKeepDetailsHolds == Spec => []OrdersKeepDetails
<1>1. CatalogueInv => OrdersKeepDetails
  BY DEF CatalogueInv
<1>2. QED
  BY <1>1, CatalogueInvariant, PTL

---------------------------------------------------------------------------
(* Categories *)

LEMMA CategoriesStep ==
    ASSUME [Next]_shopVars
    PROVE  \/ HNext /\ UNCHANGED inUse
           \/ UNCHANGED <<inUse, categoryVars>>
BY DEF Next, shopVars

LEMMA IdleHJobType ==
    /\ IdleHJob \in HJob /\ IdleHJob.phase = "idle" /\ IdleHJob.op = "none"
    /\ IdleHJob.at = 0 /\ IdleHJob.to = 0 /\ IdleHJob.moves = FALSE
    /\ IdleHJob.ties = FALSE /\ IdleHJob.kids = {}
BY PartiesAssumption DEF IdleHJob, HJob, None

LEMMA CategoriesFacts ==
    ASSUME CategoriesInv
    PROVE  /\ filed \in Nat /\ filed <= MaxRows /\ categories \subseteq Rows
           /\ categories \subseteq 1 .. filed /\ None \notin categories
           /\ \A c \in Rows : parent[c] \in 0 .. MaxRows
           /\ \A k \in Clerks : hjob[k] \in HJob
BY PartiesAssumption DEF CategoriesInv, CategoriesTypeOK, Rows, None

\* A set of categories with all that is below them.
Whole(s) ==
    /\ s \subseteq categories
    /\ \A d \in categories : parent[d] \in s => d \in s

\* Below is the least whole set.
LEMMA BelowIsLeast ==
    ASSUME NEW set, NEW s, Whole(s), set \cap categories \subseteq s
    PROVE  Below(set) \subseteq s
BY DEF Below, Whole

LEMMA BelowIsWhole ==
    ASSUME NEW set
    PROVE  Whole(Below(set)) /\ set \cap categories \subseteq Below(set)
<1>1. set \cap categories \subseteq Below(set)
  BY DEF Below
<1>2. ASSUME NEW d \in categories, parent[d] \in Below(set)
      PROVE  d \in Below(set)
  <2>1. SUFFICES ASSUME NEW s \in SUBSET categories, set \cap categories \subseteq s,
                        \A e \in categories : parent[e] \in s => e \in s
                 PROVE  d \in s
    BY DEF Below
  <2>2. parent[d] \in s
    BY <1>2, <2>1 DEF Below
  <2>3. QED
    BY <2>1, <2>2
<1>3. QED
  BY <1>1, <1>2 DEF Whole, Below

\* A whole set with the roots and the knotted categories has them all.
LEMMA RootsReachAll ==
    ASSUME RootsReachable, NEW s, Whole(s),
           \A d \in categories : parent[d] = None \/ d \in knotted => d \in s
    PROVE  s = categories
<1>1. Below({d \in categories : parent[d] = None \/ d \in knotted}) \subseteq s
  BY BelowIsLeast
<1>2. QED
  BY <1>1 DEF RootsReachable, Whole

\* To show the same of the next state.
LEMMA RootsReachableThen ==
    ASSUME \A s \in SUBSET categories' :
              /\ \A d \in categories' : parent'[d] \in s => d \in s
              /\ \A d \in categories' : parent'[d] = None \/ d \in knotted' => d \in s
              => \A d \in categories' : d \in s
    PROVE  RootsReachable'
BY DEF RootsReachable, Below

LEMMA NotBelowThen ==
    ASSUME NEW c, NEW a, NEW s \in SUBSET categories', c \notin s,
           a \in categories' => a \in s,
           \A d \in categories' : parent'[d] \in s => d \in s
    PROVE  c \notin Below({a})'
BY DEF Below

\* The same of what the requests move.
LEMMA MovesUpThen ==
    ASSUME \A k \in Clerks : hjob'[k].moves /\ ~hjob'[k].ties =>
              \E t, a : t = hjob'[k].to /\ a = hjob'[k].at /\ t \notin Below({a})'
    PROVE  MovesUp'
BY DEF MovesUp, Below

---------------------------------------------------------------------------

\* A category is inserted, or inserted again.
Inserted(n, p) ==
    /\ n \in Rows \ categories
    /\ p \in {None} \cup categories
    /\ categories' = categories \cup {n}
    /\ parent' = [parent EXCEPT ![n] = p]

LEMMA InsertedKeeps ==
    ASSUME CategoriesInv, NEW n, NEW p, Inserted(n, p),
           knotted' \cup {n} = knotted \cup {n}
    PROVE  /\ ParentsThere' /\ RootsReachable'
           /\ \A c, a \in 0 .. MaxRows :
                 c # a /\ (c = n => p = None) /\ c \notin Below({a}) => c \notin Below({a})'
<1>1. /\ n \in Rows /\ n \notin categories /\ p \in {None} \cup categories /\ n # None /\ p # n
      /\ n \in 0 .. MaxRows /\ p \in 0 .. MaxRows
  BY CategoriesFacts, PartiesAssumption DEF Inserted, Rows, None
<1>2. /\ categories' = categories \cup {n} /\ categories \subseteq Rows
      /\ parent' \in [Rows -> 0 .. MaxRows]
      /\ \A d \in categories : parent'[d] = parent[d]
      /\ \A d \in Rows : d # n => parent'[d] = parent[d]
      /\ parent'[n] = p
  BY <1>1, CategoriesFacts DEF Inserted, CategoriesInv, CategoriesTypeOK
<1>3. \A d \in categories : parent[d] \in {None} \cup categories
  BY DEF CategoriesInv, ParentsThere
<1>4. ParentsThere'
  BY <1>1, <1>2, <1>3 DEF CategoriesInv, ParentsThere
<1>5. RootsReachable'
  <2>1. SUFFICES ASSUME NEW s \in SUBSET categories',
                        \A d \in categories' : parent'[d] \in s => d \in s,
                        \A d \in categories' :
                           parent'[d] = None \/ d \in knotted' => d \in s
                 PROVE  \A d \in categories' : d \in s
    BY RootsReachableThen
  <2>2. Whole(s \cap categories)
    BY <1>2, <2>1 DEF Whole
  <2>3. \A d \in categories : parent[d] = None \/ d \in knotted => d \in s \cap categories
    BY <1>1, <1>2, <2>1
  <2>4. s \cap categories = categories
    BY <2>2, <2>3, RootsReachAll DEF CategoriesInv
  <2>5. n \in s
    BY <1>1, <1>2, <2>1, <2>4
  <2>6. QED
    BY <1>2, <2>4, <2>5
<1>6. ASSUME NEW c \in 0 .. MaxRows, NEW a \in 0 .. MaxRows,
             c # a, c = n => p = None, c \notin Below({a})
      PROVE  c \notin Below({a})'
  <2>1. /\ Below({a}) \subseteq categories
        /\ \A d \in categories : parent[d] \in Below({a}) => d \in Below({a})
        /\ a \in categories => a \in Below({a})
    BY BelowIsWhole DEF Whole
  <2>2. CASE n = a \/ p \in Below({a})
    <3>1. c # n
      BY <1>1, <1>6, <2>1, <2>2, CategoriesFacts
    <3>2. ASSUME NEW d \in categories', parent'[d] \in Below({a}) \cup {n}
          PROVE  d \in Below({a}) \cup {n}
      <4>1. CASE d = n
        BY <4>1
      <4>2. CASE d \in categories
        BY <1>1, <1>2, <1>3, <2>1, <3>2, <4>2
      <4>3. QED
        BY <1>2, <4>1, <4>2
    <3>3. Below({a}) \cup {n} \in SUBSET categories'
      BY <1>2, <2>1
    <3>4. a \in categories' => a \in Below({a}) \cup {n}
      BY <1>2, <2>1
    <3>5. PICK s : s = Below({a}) \cup {n}
      OBVIOUS
    <3>6. QED
      BY <1>6, <3>1, <3>2, <3>3, <3>4, <3>5, NotBelowThen
  <2>3. CASE n # a /\ p \notin Below({a})
    <3>1. PICK s : s = Below({a})
      OBVIOUS
    <3>2. /\ s \in SUBSET categories' /\ c \notin s
          /\ a \in categories' => a \in s
      BY <1>2, <1>6, <2>1, <2>3, <3>1
    <3>3. \A d \in categories' : parent'[d] \in s => d \in s
      BY <1>2, <2>1, <2>3, <3>1
    <3>4. QED
      BY <3>2, <3>3, NotBelowThen
  <2>4. QED
    BY <2>2, <2>3
<1>7. QED
  BY <1>4, <1>5, <1>6

\* Categories go, with all that is below them.
LEMMA RemovedKeeps ==
    ASSUME CategoriesInv, NEW gone, Whole(gone),
           categories' = categories \ gone,
           parent' = [c \in Rows |-> IF c \in gone THEN None ELSE parent[c]],
           knotted' = knotted \ gone
    PROVE  /\ ParentsThere' /\ RootsReachable'
           /\ \A c, a \in 0 .. MaxRows : c \notin Below({a}) => c \notin Below({a})'
<1>1. /\ categories \subseteq Rows /\ None \notin categories
      /\ \A d \in categories : parent[d] \in {None} \cup categories
      /\ gone \subseteq categories
      /\ \A d \in categories : parent[d] \in gone => d \in gone
      /\ \A d \in categories' : d \in categories /\ d \notin gone /\ parent'[d] = parent[d]
  BY CategoriesFacts DEF CategoriesInv, ParentsThere, Whole
<1>2. ParentsThere'
  BY <1>1 DEF CategoriesInv, ParentsThere
<1>3. RootsReachable'
  <2>1. SUFFICES ASSUME NEW s \in SUBSET categories',
                        \A d \in categories' : parent'[d] \in s => d \in s,
                        \A d \in categories' :
                           parent'[d] = None \/ d \in knotted' => d \in s
                 PROVE  \A d \in categories' : d \in s
    BY RootsReachableThen
  <2>2. Whole(s \cup gone)
    BY <1>1, <2>1 DEF Whole
  <2>3. \A d \in categories : parent[d] = None \/ d \in knotted => d \in s \cup gone
    BY <1>1, <2>1
  <2>4. s \cup gone = categories
    BY <2>2, <2>3, RootsReachAll DEF CategoriesInv
  <2>5. QED
    BY <1>1, <2>4
<1>4. ASSUME NEW c \in 0 .. MaxRows, NEW a \in 0 .. MaxRows, c \notin Below({a})
      PROVE  c \notin Below({a})'
  <2>1. /\ Below({a}) \subseteq categories
        /\ \A d \in categories : parent[d] \in Below({a}) => d \in Below({a})
        /\ a \in categories => a \in Below({a})
    BY BelowIsWhole DEF Whole
  <2>2. PICK s : s = Below({a}) \ gone
    OBVIOUS
  <2>3. /\ s \in SUBSET categories' /\ c \notin s
        /\ a \in categories' => a \in s
    BY <1>1, <1>4, <2>1, <2>2
  <2>4. \A d \in categories' : parent'[d] \in s => d \in s
    BY <1>1, <2>1, <2>2
  <2>5. QED
    BY <2>3, <2>4, NotBelowThen
<1>5. QED
  BY <1>2, <1>3, <1>4

\* A category that is there moves: it is knotted, or its new parent is not
\* below it.
LEMMA MovedKeeps ==
    ASSUME CategoriesInv, NEW at \in categories, NEW p \in {None} \cup categories,
           categories' = categories,
           parent' = [parent EXCEPT ![at] = p],
           knotted \subseteq knotted' \cup {at},
           at \in knotted' \/ p \notin Below({at})
    PROVE  ParentsThere' /\ RootsReachable'
<1>1. /\ categories \subseteq Rows /\ None \notin categories
      /\ \A d \in categories : d # at => parent'[d] = parent[d]
      /\ parent'[at] = p
      /\ \A d \in Rows : d # at => parent'[d] = parent[d]
  BY CategoriesFacts DEF CategoriesInv, CategoriesTypeOK
<1>2. ParentsThere'
  BY <1>1 DEF CategoriesInv, ParentsThere
<1>3. RootsReachable'
  <2>1. SUFFICES ASSUME NEW s \in SUBSET categories,
                        \A d \in categories : parent'[d] \in s => d \in s,
                        \A d \in categories :
                           parent'[d] = None \/ d \in knotted' => d \in s
                 PROVE  \A d \in categories : d \in s
    BY RootsReachableThen
  <2>2. ASSUME at \in s
        PROVE  s = categories
    <3>1. Whole(s)
      BY <1>1, <2>1, <2>2 DEF Whole
    <3>2. \A d \in categories : parent[d] = None \/ d \in knotted => d \in s
      BY <1>1, <2>1, <2>2
    <3>3. QED
      BY <3>1, <3>2, RootsReachAll DEF CategoriesInv
  <2>3. CASE at \in knotted' \/ p = None
    BY <1>1, <2>1, <2>2, <2>3
  <2>4. CASE p # None /\ p \notin Below({at})
    <3>1. /\ Below({at}) \subseteq categories /\ at \in Below({at})
          /\ \A d \in categories : parent[d] \in Below({at}) => d \in Below({at})
      BY BelowIsWhole DEF Whole
    <3>2. Whole(s \cup Below({at}))
      BY <1>1, <2>1, <3>1 DEF Whole
    <3>3. \A d \in categories : parent[d] = None \/ d \in knotted => d \in s \cup Below({at})
      BY <1>1, <2>1, <3>1
    <3>4. s \cup Below({at}) = categories
      BY <3>2, <3>3, RootsReachAll DEF CategoriesInv
    <3>5. p \in s
      BY <2>4, <3>4
    <3>6. at \in s
      BY <1>1, <2>1, <3>5
    <3>7. QED
      BY <2>2, <3>6
  <2>5. QED
    BY <2>3, <2>4
<1>4. QED
  BY <1>2, <1>3

---------------------------------------------------------------------------

\* A request starts.
LEMMA CategoryStarts ==
    ASSUME CategoriesInv, NEW k \in Clerks, NEW j \in HJob, HStart(k, j), HJobOK(j),
           j.moves /\ ~j.ties => j.to \notin Below({j.at}),
           inUse' = inUse
    PROVE  CategoriesInv'
<1>1. PICK moving : moving = {i \in HBusy : hjob[i].moves}
  OBVIOUS
<1>2. PICK new : new = [j EXCEPT !.phase = "loaded", !.ties = j.ties \/ moving # {}]
  OBVIOUS
<1>3. /\ k \notin HBusy
      /\ hjob' = [i \in Clerks |->
                    IF i = k THEN new
                    ELSE IF i \in moving /\ j.moves THEN [hjob[i] EXCEPT !.ties = TRUE]
                    ELSE hjob[i]]
      /\ UNCHANGED HDatabase
  BY <1>1, <1>2 DEF HStart
<1>4. /\ filed' = filed /\ categories' = categories /\ parent' = parent
      /\ off' = off /\ knotted' = knotted
  BY <1>3 DEF HDatabase
<1>5. PICK crossed : crossed = (moving # {})
  OBVIOUS
<1>5b. crossed \in BOOLEAN
  BY <1>5
<1>6. /\ new \in HJob /\ new.op = j.op /\ new.at = j.at /\ new.to = j.to
      /\ new.moves = j.moves /\ new.ties = (j.ties \/ crossed)
  <2>1. new = [j EXCEPT !.phase = "loaded", !.ties = j.ties \/ crossed]
    BY <1>2, <1>5
  <2>2. (j.ties \/ crossed) \in BOOLEAN
    BY <1>5b DEF HJob
  <2>3. QED
    BY <2>1, <2>2, <1>5b DEF HJob
<1>7. \A i \in Clerks : hjob[i] \in HJob /\ HJobOK(hjob[i])
  BY CategoriesFacts DEF CategoriesInv
<1>8. ASSUME NEW i \in Clerks, i # k
      PROVE  /\ hjob'[i] \in HJob /\ hjob'[i].op = hjob[i].op /\ hjob'[i].at = hjob[i].at
             /\ hjob'[i].to = hjob[i].to /\ hjob'[i].moves = hjob[i].moves
             /\ hjob[i].ties => hjob'[i].ties
             /\ i \in moving /\ j.moves => hjob'[i].ties
  <2>1. hjob[i] \in HJob
    BY <1>7
  <2>2. CASE i \in moving /\ j.moves
    <3>1. hjob'[i] = [hjob[i] EXCEPT !.ties = TRUE]
      BY <1>3, <1>8, <2>2
    <3>2. QED
      BY <2>1, <3>1 DEF HJob
  <2>3. CASE ~(i \in moving /\ j.moves)
    <3>1. hjob'[i] = hjob[i]
      BY <1>3, <1>8, <2>3
    <3>2. QED
      BY <2>1, <2>3, <3>1
  <2>4. QED
    BY <2>2, <2>3
<1>9. hjob'[k] = new
  BY <1>3
<1>10. \A i \in Clerks : hjob[i].moves => i \in moving
  <2>1. \A i \in Clerks : hjob[i].phase = "idle" => ~hjob[i].moves
    BY DEF CategoriesInv, NoneIdleMoves
  <2>2. QED
    BY <1>1, <2>1 DEF HBusy
<1>11. CategoriesTypeOK'
  <2>1. hjob' \in [Clerks -> HJob]
    BY <1>3, <1>6, <1>8, <1>9
  <2>2. QED
    BY <1>4, <2>1 DEF CategoriesInv, CategoriesTypeOK
<1>12. ParentsThere' /\ RootsReachable'
  BY <1>4 DEF CategoriesInv, ParentsThere, RootsReachable, Below
<1>13. \A i \in Clerks : HJobOK(hjob[i])'
  <2>1. TAKE i \in Clerks
  <2>2. CASE i = k
    BY <1>4, <1>6, <1>9, <2>2 DEF HJobOK
  <2>3. CASE i # k
    BY <1>4, <1>7, <1>8, <2>3 DEF HJobOK
  <2>4. QED
    BY <2>2, <2>3
<1>14. MovesMeet'
  <2>1. SUFFICES ASSUME NEW i \in Clerks, NEW l \in Clerks, i # l, hjob'[i].moves,
                        hjob'[l].moves
                 PROVE  hjob'[i].ties
    BY DEF MovesMeet
  <2>2. CASE i = k
    <3>1. l \in moving
      BY <1>8, <1>10, <2>1, <2>2
    <3>2. QED
      BY <1>5, <1>6, <1>9, <2>2, <3>1
  <2>3. CASE l = k
    <3>1. i \in moving /\ j.moves
      BY <1>6, <1>8, <1>9, <1>10, <2>1, <2>3
    <3>2. QED
      BY <1>8, <2>1, <2>3, <3>1
  <2>4. CASE i # k /\ l # k
    BY <1>8, <2>1, <2>4 DEF CategoriesInv, MovesMeet
  <2>5. QED
    BY <2>2, <2>3, <2>4
<1>15. MovesUp'
  <2>1. \A set : Below(set)' = Below(set)
    BY <1>4 DEF Below
  <2>2. SUFFICES ASSUME NEW i \in Clerks, hjob'[i].moves, ~hjob'[i].ties
                 PROVE  \E t, a : t = hjob'[i].to /\ a = hjob'[i].at /\ t \notin Below({a})'
    BY MovesUpThen
  <2>3. PICK a, t : a = hjob'[i].at /\ t = hjob'[i].to
    OBVIOUS
  <2>4. t \notin Below({a})
    <3>1. CASE i = k
      BY <1>6, <1>9, <2>2, <2>3, <3>1
    <3>2. CASE i # k
      BY <1>8, <2>2, <2>3, <3>2 DEF CategoriesInv, MovesUp
    <3>3. QED
      BY <3>1, <3>2
  <2>5. QED
    BY <2>1, <2>3, <2>4
<1>16. \A i \in Clerks : (hjob[i].phase = "idle" => ~hjob[i].moves)'
  <2>1. new.phase = "loaded"
    BY <1>2 DEF HJob
  <2>2. ASSUME NEW i \in Clerks, i # k
        PROVE  hjob'[i].phase = hjob[i].phase
    BY <1>3, <1>7, <2>2 DEF HJob
  <2>3. QED
    BY <1>8, <1>9, <2>1, <2>2 DEF CategoriesInv, NoneIdleMoves
<1>17. QED
  BY <1>11, <1>12, <1>13, <1>14, <1>15, <1>16 DEF CategoriesInv, NoneIdleMoves

\* A request ends, after which the others' moves are what they were.
LEMMA CategoryEnds ==
    ASSUME CategoriesInv, NEW k \in Clerks, HDone(k), inUse' = inUse,
           filed' \in filed .. MaxRows, off' \subseteq categories',
           categories' \subseteq 1 .. filed', parent' \in [Rows -> 0 .. MaxRows],
           knotted' \subseteq Rows, ParentsThere', RootsReachable',
           \A i \in Clerks \ {k} : hjob[i].moves /\ ~hjob[i].ties =>
              \E t, a : t = hjob[i].to /\ a = hjob[i].at /\ t \notin Below({a})'
    PROVE  CategoriesInv'
<1>1. /\ filed \in Nat /\ filed' \in Nat /\ filed <= filed' /\ filed' <= MaxRows
      /\ filed' \in 0 .. MaxRows
  BY CategoriesFacts, PartiesAssumption
<1>2. /\ hjob' \in [Clerks -> HJob] /\ hjob'[k] = IdleHJob
      /\ \A i \in Clerks : i # k => hjob'[i] = hjob[i]
  BY IdleHJobType DEF HDone, CategoriesInv, CategoriesTypeOK
<1>3. CategoriesTypeOK'
  BY <1>1, <1>2 DEF CategoriesTypeOK
<1>4. \A i \in Clerks : HJobOK(hjob[i])'
  <2>1. TAKE i \in Clerks
  <2>2. CASE i = k
    BY <1>1, <1>2, <2>2, IdleHJobType DEF HJobOK
  <2>3. CASE i # k
    BY <1>1, <1>2, <2>3 DEF HJobOK, CategoriesInv
  <2>4. QED
    BY <2>2, <2>3
<1>5. NoneIdleMoves'
  BY <1>2, IdleHJobType DEF CategoriesInv, NoneIdleMoves
<1>6. MovesMeet'
  BY <1>2, IdleHJobType DEF CategoriesInv, MovesMeet
<1>7. MovesUp'
  <2>1. SUFFICES ASSUME NEW i \in Clerks, hjob'[i].moves, ~hjob'[i].ties
                 PROVE  \E t, a : t = hjob'[i].to /\ a = hjob'[i].at /\ t \notin Below({a})'
    BY MovesUpThen
  <2>2. i # k
    BY <1>2, <2>1, IdleHJobType
  <2>3. QED
    BY <1>2, <2>1, <2>2
<1>8. QED
  BY <1>3, <1>4, <1>5, <1>6, <1>7 DEF CategoriesInv

\* What the moves in flight know, as CategoryEnds asks for it.
LEMMA MovesKnow ==
    ASSUME CategoriesInv, NEW i \in Clerks, hjob[i].moves, ~hjob[i].ties
    PROVE  \E t, a \in 0 .. filed :
              /\ t = hjob[i].to /\ a = hjob[i].at /\ t # a
              /\ a \in 1 .. filed
              /\ t \notin Below({a})
<1>1. /\ hjob[i].op = "update" /\ hjob[i].to # hjob[i].at
      /\ hjob[i].at \in 1 .. filed /\ hjob[i].to \in 0 .. filed
      /\ hjob[i].to \notin Below({hjob[i].at})
  BY DEF CategoriesInv, HJobOK, MovesUp
<1>2. hjob[i].at \in 0 .. filed
  BY <1>1, CategoriesFacts
<1>3. QED
  BY <1>1, <1>2

LEMMA CreateCategoryKeeps ==
    ASSUME CategoriesInv, NEW k \in Clerks, CreateCategorySave(k), inUse' = inUse
    PROVE  CategoriesInv'
<1>1. PICK n, p : n = filed + 1 /\ p = hjob[k].to
  OBVIOUS
<1>2. /\ p \in {None} \cup categories /\ filed < inUse.rows /\ filed' = n
      /\ categories' = categories \cup {n} /\ parent' = [parent EXCEPT ![n] = p]
      /\ HDone(k) /\ off' = off /\ knotted' = knotted
  BY <1>1 DEF CreateCategorySave
<1>3. inUse.rows \in 0 .. MaxRows
  BY PartiesAssumption DEF CategoriesInv
<1>4. n \in Rows \ categories /\ filed' \in filed .. MaxRows /\ categories' \subseteq 1 .. filed'
  BY <1>1, <1>2, <1>3, CategoriesFacts, PartiesAssumption DEF Rows
<1>5. Inserted(n, p)
  BY <1>2, <1>4 DEF Inserted
<1>6. /\ ParentsThere' /\ RootsReachable'
      /\ \A c, a \in 0 .. MaxRows :
            c # a /\ (c = n => p = None) /\ c \notin Below({a}) => c \notin Below({a})'
  BY <1>2, <1>5, InsertedKeeps
<1>7. off' \subseteq categories' /\ knotted' \subseteq Rows
  BY <1>2 DEF CategoriesInv, CategoriesTypeOK
<1>8. parent' \in [Rows -> 0 .. MaxRows]
  <2>1. p \in 0 .. MaxRows
    BY <1>2, CategoriesFacts, PartiesAssumption DEF None, Rows
  <2>2. QED
    BY <1>2, <2>1 DEF CategoriesInv, CategoriesTypeOK
<1>9. ASSUME NEW i \in Clerks \ {k}, hjob[i].moves /\ ~hjob[i].ties
      PROVE  \E t, a : t = hjob[i].to /\ a = hjob[i].at /\ t \notin Below({a})'
  <2>1. PICK t, a \in 0 .. filed : /\ t = hjob[i].to /\ a = hjob[i].at /\ t # a
                                   /\ t \notin Below({a})
    BY <1>9, MovesKnow
  <2>2. t \in 0 .. MaxRows /\ a \in 0 .. MaxRows /\ t # n
    BY <1>1, CategoriesFacts, PartiesAssumption
  <2>3. QED
    BY <1>6, <2>1, <2>2
<1>10. QED
  BY <1>2, <1>4, <1>6, <1>7, <1>8, <1>9, CategoryEnds

\* The category is there, or it is inserted again, with a parent only by a move.
LEMMA UpdateCategoryKeeps ==
    ASSUME CategoriesInv, NEW k \in Clerks, UpdateCategorySave(k), inUse' = inUse
    PROVE  CategoriesInv'
<1>1. PICK n, p : n = hjob[k].at /\ p = hjob[k].to
  OBVIOUS
<1>2. PICK moves, ties : moves = hjob[k].moves /\ ties = hjob[k].ties
  OBVIOUS
<1>3. /\ hjob[k].op = "update" /\ p \in {None} \cup categories /\ filed' = filed
      /\ categories' = categories \cup {n} /\ off' = off \ {n}
      /\ parent' = IF moves \/ n \notin categories THEN [parent EXCEPT ![n] = p] ELSE parent
      /\ knotted' = IF ~moves THEN knotted
                    ELSE IF ties THEN knotted \cup {n} ELSE knotted \ {n}
      /\ HDone(k)
  BY <1>1, <1>2 DEF UpdateCategorySave
<1>4. /\ n \in 1 .. filed /\ n \in Rows /\ n \in 0 .. MaxRows
      /\ filed' \in filed .. MaxRows /\ categories' \subseteq 1 .. filed'
  BY <1>1, <1>3, CategoriesFacts, PartiesAssumption DEF CategoriesInv, HJobOK, Rows
<1>5. /\ off' \subseteq categories' /\ knotted' \subseteq Rows
      /\ moves \in BOOLEAN /\ ties \in BOOLEAN
  BY <1>2, <1>3, <1>4, CategoriesFacts DEF CategoriesInv, CategoriesTypeOK, HJob
<1>6. parent' \in [Rows -> 0 .. MaxRows]
  <2>1. p \in 0 .. MaxRows
    BY <1>3, CategoriesFacts, PartiesAssumption DEF None, Rows
  <2>2. QED
    BY <1>3, <2>1 DEF CategoriesInv, CategoriesTypeOK
<1>7. /\ ParentsThere' /\ RootsReachable'
      /\ \A i \in Clerks \ {k} : hjob[i].moves /\ ~hjob[i].ties =>
            \E t, a : t = hjob[i].to /\ a = hjob[i].at /\ t \notin Below({a})'
  <2>1. ASSUME moves, NEW i \in Clerks \ {k}, hjob[i].moves
        PROVE  hjob[i].ties
    BY <1>2, <2>1 DEF CategoriesInv, MovesMeet
  <2>2. CASE n \notin categories
    <3>1. Inserted(n, p)
      BY <1>3, <1>4, <2>2 DEF Inserted
    <3>2. knotted' \cup {n} = knotted \cup {n}
      BY <1>3, <1>5
    <3>3. /\ ParentsThere' /\ RootsReachable'
          /\ \A c, a \in 0 .. MaxRows :
                c # a /\ (c = n => p = None) /\ c \notin Below({a}) => c \notin Below({a})'
      BY <3>1, <3>2, InsertedKeeps
    <3>4. ASSUME NEW i \in Clerks \ {k}, hjob[i].moves /\ ~hjob[i].ties
          PROVE  \E t, a : t = hjob[i].to /\ a = hjob[i].at /\ t \notin Below({a})'
      <4>1. PICK t, a \in 0 .. filed : /\ t = hjob[i].to /\ a = hjob[i].at /\ t # a
                                       /\ t \notin Below({a})
        BY <3>4, MovesKnow
      <4>2. t \in 0 .. MaxRows /\ a \in 0 .. MaxRows
        BY CategoriesFacts, PartiesAssumption
      <4>3. ~moves
        BY <2>1, <3>4
      <4>4. p = None
        BY <1>1, <1>2, <1>3, <4>3 DEF CategoriesInv, HJobOK
      <4>5. QED
        BY <3>3, <4>1, <4>2, <4>4
    <3>5. QED
      BY <3>3, <3>4
  <2>3. CASE n \in categories /\ moves
    <3>1. /\ categories' = categories /\ parent' = [parent EXCEPT ![n] = p]
          /\ knotted \subseteq knotted' \cup {n}
      BY <1>3, <1>5, <2>3
    <3>2. n \in knotted' \/ p \notin Below({n})
      BY <1>1, <1>2, <1>3, <1>5, <2>3 DEF CategoriesInv, MovesUp
    <3>3. ParentsThere' /\ RootsReachable'
      BY <1>3, <2>3, <3>1, <3>2, MovedKeeps
    <3>4. QED
      BY <2>1, <2>3, <3>3
  <2>4. CASE n \in categories /\ ~moves
    <3>1. categories' = categories /\ parent' = parent /\ knotted' = knotted
      BY <1>3, <2>4
    <3>2. /\ ParentsThere' /\ RootsReachable'
          /\ \A set : Below(set)' = Below(set)
      BY <3>1 DEF CategoriesInv, ParentsThere, RootsReachable, Below
    <3>3. ASSUME NEW i \in Clerks \ {k}, hjob[i].moves /\ ~hjob[i].ties
          PROVE  \E t, a : t = hjob[i].to /\ a = hjob[i].at /\ t \notin Below({a})'
      <4>1. PICK t, a \in 0 .. filed : /\ t = hjob[i].to /\ a = hjob[i].at
                                       /\ t \notin Below({a})
        BY <3>3, MovesKnow
      <4>2. QED
        BY <3>2, <4>1
    <3>4. QED
      BY <3>2, <3>3
  <2>5. QED
    BY <1>5, <2>2, <2>3, <2>4
<1>8. QED
  BY <1>3, <1>4, <1>5, <1>6, <1>7, CategoryEnds

LEMMA DeleteCategoryKeeps ==
    ASSUME CategoriesInv, NEW k \in Clerks, DeleteCategoryRemove(k), inUse' = inUse
    PROVE  CategoriesInv'
<1>1. PICK gone : gone = Below({hjob[k].at} \cup hjob[k].kids)
  OBVIOUS
<1>2. /\ categories' = categories \ gone /\ off' = off \ gone
      /\ parent' = [c \in Rows |-> IF c \in gone THEN None ELSE parent[c]]
      /\ knotted' = knotted \ gone /\ HDone(k) /\ filed' = filed
  BY <1>1 DEF DeleteCategoryRemove
<1>3. Whole(gone)
  BY <1>1, BelowIsWhole
<1>4. /\ ParentsThere' /\ RootsReachable'
      /\ \A c, a \in 0 .. MaxRows : c \notin Below({a}) => c \notin Below({a})'
  BY <1>2, <1>3, RemovedKeeps
<1>5. /\ filed' \in filed .. MaxRows /\ categories' \subseteq 1 .. filed'
      /\ off' \subseteq categories' /\ knotted' \subseteq Rows
  <2>1. filed' \in filed .. MaxRows /\ categories' \subseteq 1 .. filed'
    BY <1>2, CategoriesFacts, PartiesAssumption
  <2>2. off \subseteq categories /\ knotted \subseteq Rows
    BY DEF CategoriesInv, CategoriesTypeOK
  <2>3. QED
    BY <1>2, <2>1, <2>2
<1>6. parent' \in [Rows -> 0 .. MaxRows]
  BY <1>2, CategoriesFacts, PartiesAssumption DEF None
<1>7. ASSUME NEW i \in Clerks \ {k}, hjob[i].moves /\ ~hjob[i].ties
      PROVE  \E t, a : t = hjob[i].to /\ a = hjob[i].at /\ t \notin Below({a})'
  <2>1. PICK t, a \in 0 .. filed : /\ t = hjob[i].to /\ a = hjob[i].at
                                   /\ t \notin Below({a})
    BY <1>7, MovesKnow
  <2>2. t \in 0 .. MaxRows /\ a \in 0 .. MaxRows
    BY CategoriesFacts, PartiesAssumption
  <2>3. QED
    BY <1>4, <2>1, <2>2
<1>8. QED
  BY <1>2, <1>4, <1>5, <1>6, <1>7, CategoryEnds

LEMMA SoftDeleteKeeps ==
    ASSUME CategoriesInv, NEW k \in Clerks, SoftDeleteSave(k), inUse' = inUse
    PROVE  CategoriesInv'
<1>1. PICK n : n = hjob[k].at
  OBVIOUS
<1>2. /\ hjob[k].op = "hide" /\ categories' = categories \cup {n} /\ off' = off \cup {n}
      /\ HDone(k) /\ filed' = filed /\ parent' = parent /\ knotted' = knotted
  BY <1>1 DEF SoftDeleteSave
<1>3. /\ n \in 1 .. filed /\ n \in Rows
      /\ filed' \in filed .. MaxRows /\ categories' \subseteq 1 .. filed'
  BY <1>1, <1>2, CategoriesFacts, PartiesAssumption DEF CategoriesInv, HJobOK, Rows
<1>4. /\ off' \subseteq categories' /\ knotted' \subseteq Rows
      /\ parent' \in [Rows -> 0 .. MaxRows]
  BY <1>2 DEF CategoriesInv, CategoriesTypeOK
<1>5. /\ ParentsThere' /\ RootsReachable'
      /\ \A c, a \in 0 .. MaxRows : c # a /\ c \notin Below({a}) => c \notin Below({a})'
  <2>1. CASE n \notin categories
    <3>1. parent[n] = None
      BY <1>3, <2>1 DEF CategoriesInv, ParentsThere
    <3>2. parent' = [parent EXCEPT ![n] = None]
      BY <1>2, <1>3, <3>1 DEF CategoriesInv, CategoriesTypeOK
    <3>3. PICK p : p = None
      OBVIOUS
    <3>4. Inserted(n, p)
      BY <1>2, <1>3, <2>1, <3>2, <3>3 DEF Inserted
    <3>5. knotted' \cup {n} = knotted \cup {n}
      BY <1>2
    <3>6. QED
      BY <3>3, <3>4, <3>5, InsertedKeeps
  <2>2. CASE n \in categories
    <3>1. categories' = categories
      BY <1>2, <2>2
    <3>2. QED
      BY <1>2, <3>1 DEF CategoriesInv, ParentsThere, RootsReachable, Below
  <2>3. QED
    BY <2>1, <2>2
<1>6. ASSUME NEW i \in Clerks \ {k}, hjob[i].moves /\ ~hjob[i].ties
      PROVE  \E t, a : t = hjob[i].to /\ a = hjob[i].at /\ t \notin Below({a})'
  <2>1. PICK t, a \in 0 .. filed : /\ t = hjob[i].to /\ a = hjob[i].at /\ t # a
                                   /\ t \notin Below({a})
    BY <1>6, MovesKnow
  <2>2. t \in 0 .. MaxRows /\ a \in 0 .. MaxRows
    BY CategoriesFacts, PartiesAssumption
  <2>3. QED
    BY <1>5, <2>1, <2>2
<1>7. QED
  BY <1>2, <1>3, <1>4, <1>5, <1>6, CategoryEnds

LEMMA HAbortKeeps ==
    ASSUME CategoriesInv, NEW k \in Clerks, HAbort(k), inUse' = inUse
    PROVE  CategoriesInv'
<1>1. /\ HDone(k) /\ filed' = filed /\ categories' = categories /\ parent' = parent
      /\ off' = off /\ knotted' = knotted
  BY DEF HAbort, HDatabase
<1>2. /\ filed' \in filed .. MaxRows /\ categories' \subseteq 1 .. filed'
      /\ off' \subseteq categories' /\ knotted' \subseteq Rows
      /\ parent' \in [Rows -> 0 .. MaxRows]
  BY <1>1, CategoriesFacts, PartiesAssumption DEF CategoriesInv, CategoriesTypeOK
<1>3. /\ ParentsThere' /\ RootsReachable'
      /\ \A set : Below(set)' = Below(set)
  BY <1>1 DEF CategoriesInv, ParentsThere, RootsReachable, Below
<1>4. ASSUME NEW i \in Clerks \ {k}, hjob[i].moves /\ ~hjob[i].ties
      PROVE  \E t, a : t = hjob[i].to /\ a = hjob[i].at /\ t \notin Below({a})'
  <2>1. PICK t, a \in 0 .. filed : /\ t = hjob[i].to /\ a = hjob[i].at
                                   /\ t \notin Below({a})
    BY <1>4, MovesKnow
  <2>2. QED
    BY <1>3, <2>1
<1>5. QED
  BY <1>1, <1>2, <1>3, <1>4, CategoryEnds

---------------------------------------------------------------------------

LEMMA CreateLoadKeeps ==
    ASSUME CategoriesInv, NEW k \in Clerks, NEW p, CreateCategoryLoad(k, p), inUse' = inUse
    PROVE  CategoriesInv'
<1>1. PICK j : j = [IdleHJob EXCEPT !.op = "create", !.to = p]
  OBVIOUS
<1>2. p \in 0 .. filed /\ p \in 0 .. MaxRows /\ HStart(k, j)
  BY <1>1, CategoriesFacts, PartiesAssumption DEF CreateCategoryLoad, None
<1>3. /\ j \in HJob /\ j.op = "create" /\ j.to = p /\ ~j.moves
  BY <1>1, <1>2, IdleHJobType DEF HJob
<1>4. HJobOK(j)
  BY <1>2, <1>3 DEF HJobOK
<1>5. QED
  BY <1>2, <1>3, <1>4, CategoryStarts

LEMMA UpdateLoadKeeps ==
    ASSUME CategoriesInv, NEW k \in Clerks, NEW c, NEW moves \in BOOLEAN, NEW p,
           UpdateCategoryLoad(k, c, moves, p), inUse' = inUse
    PROVE  CategoriesInv'
<1>1. PICK ties : ties = (p \in Below({c}) \ {c})
  OBVIOUS
<1>2. ties \in BOOLEAN
  BY <1>1
<1>3. PICK j : j = [IdleHJob EXCEPT !.op = "update", !.at = c, !.moves = moves, !.to = p,
                       !.ties = ties]
  OBVIOUS
<1>4. /\ c \in categories \ off /\ HStart(k, j)
      /\ moves => p = None \/ p \in (categories \ off) \ {c}
      /\ ~moves => p = None
  BY <1>1, <1>3 DEF UpdateCategoryLoad, MayMove
<1>5. /\ c \in 1 .. filed /\ c \in 0 .. MaxRows /\ p \in 0 .. filed /\ p \in 0 .. MaxRows
      /\ p # c
  BY <1>4, CategoriesFacts, PartiesAssumption DEF None
<1>6. /\ j \in HJob /\ j.op = "update" /\ j.at = c /\ j.to = p /\ j.moves = moves
      /\ j.ties = ties
  BY <1>2, <1>3, <1>5, IdleHJobType DEF HJob
<1>7. HJobOK(j)
  BY <1>4, <1>5, <1>6 DEF HJobOK
<1>8. j.moves /\ ~j.ties => j.to \notin Below({j.at})
  BY <1>1, <1>5, <1>6
<1>9. QED
  BY <1>4, <1>6, <1>7, <1>8, CategoryStarts

LEMMA DeleteLoadKeeps ==
    ASSUME CategoriesInv, NEW k \in Clerks, NEW c, DeleteCategoryLoad(k, c), inUse' = inUse
    PROVE  CategoriesInv'
<1>1. PICK kids : kids = {d \in categories \ off : parent[d] = c}
  OBVIOUS
<1>2. PICK j : j = [IdleHJob EXCEPT !.op = "delete", !.at = c, !.kids = kids]
  OBVIOUS
<1>3. c \in categories \ off /\ HStart(k, j)
  BY <1>1, <1>2 DEF DeleteCategoryLoad
<1>4. c \in 1 .. filed /\ c \in 0 .. MaxRows /\ kids \in SUBSET Rows
  BY <1>1, <1>3, CategoriesFacts, PartiesAssumption
<1>5. /\ j \in HJob /\ j.op = "delete" /\ j.at = c /\ j.to = 0 /\ ~j.moves
  BY <1>2, <1>4, IdleHJobType DEF HJob
<1>6. HJobOK(j)
  BY <1>4, <1>5, CategoriesFacts DEF HJobOK
<1>7. QED
  BY <1>3, <1>5, <1>6, CategoryStarts

LEMMA HideLoadKeeps ==
    ASSUME CategoriesInv, NEW k \in Clerks, NEW c, SoftDeleteLoad(k, c), inUse' = inUse
    PROVE  CategoriesInv'
<1>1. PICK j : j = [IdleHJob EXCEPT !.op = "hide", !.at = c]
  OBVIOUS
<1>2. c \in categories \ off /\ HStart(k, j)
  BY <1>1 DEF SoftDeleteLoad
<1>3. c \in 1 .. filed /\ c \in 0 .. MaxRows
  BY <1>2, CategoriesFacts, PartiesAssumption
<1>4. /\ j \in HJob /\ j.op = "hide" /\ j.at = c /\ j.to = 0 /\ ~j.moves
  BY <1>1, <1>3, IdleHJobType DEF HJob
<1>5. HJobOK(j)
  BY <1>3, <1>4, CategoriesFacts DEF HJobOK
<1>6. QED
  BY <1>2, <1>4, <1>5, CategoryStarts

\* Every step of the categories keeps the invariant.
LEMMA CategoriesKept ==
    ASSUME CategoriesInv, HNext, inUse' = inUse
    PROVE  CategoriesInv'
<1>1. PICK k \in Clerks :
         \/ \E p \in {None} \cup categories :
               \/ CreateCategoryLoad(k, p)
               \/ \E c \in categories, moves \in BOOLEAN : UpdateCategoryLoad(k, c, moves, p)
         \/ \E c \in categories : DeleteCategoryLoad(k, c) \/ SoftDeleteLoad(k, c)
         \/ CreateCategorySave(k) \/ UpdateCategorySave(k)
         \/ DeleteCategoryRemove(k) \/ SoftDeleteSave(k)
         \/ HAbort(k)
  BY DEF HNext
<1>2. CASE \E p : CreateCategoryLoad(k, p)
  BY <1>2, CreateLoadKeeps
<1>3. CASE \E p : \E c \in categories, moves \in BOOLEAN : UpdateCategoryLoad(k, c, moves, p)
  BY <1>3, UpdateLoadKeeps
<1>4. CASE \E c \in categories : DeleteCategoryLoad(k, c)
  BY <1>4, DeleteLoadKeeps
<1>5. CASE \E c \in categories : SoftDeleteLoad(k, c)
  BY <1>5, HideLoadKeeps
<1>6. CASE CreateCategorySave(k)
  BY <1>6, CreateCategoryKeeps
<1>7. CASE UpdateCategorySave(k)
  BY <1>7, UpdateCategoryKeeps
<1>8. CASE DeleteCategoryRemove(k)
  BY <1>8, DeleteCategoryKeeps
<1>9. CASE SoftDeleteSave(k)
  BY <1>9, SoftDeleteKeeps
<1>10. CASE HAbort(k)
  BY <1>10, HAbortKeeps
<1>11. QED
  BY <1>1, <1>2, <1>3, <1>4, <1>5, <1>6, <1>7, <1>8, <1>9, <1>10

LEMMA CategoriesBegin == Init => CategoriesInv
<1>1. SUFFICES ASSUME Init PROVE CategoriesInv
  OBVIOUS
<1>2. /\ inUse \in Mixes /\ filed = 0 /\ categories = {} /\ off = {} /\ knotted = {}
      /\ parent = [c \in Rows |-> None] /\ hjob = [k \in Clerks |-> IdleHJob]
  BY <1>1 DEF Init, HInit
<1>3. CategoriesTypeOK
  BY <1>2, IdleHJobType, PartiesAssumption DEF CategoriesTypeOK, None
<1>4. ParentsThere
  BY <1>2 DEF ParentsThere
<1>5. \A k \in Clerks : HJobOK(hjob[k])
  BY <1>2, IdleHJobType DEF HJobOK
<1>6. NoneIdleMoves /\ MovesMeet /\ MovesUp
  BY <1>2, IdleHJobType DEF NoneIdleMoves, MovesMeet, MovesUp
<1>7. RootsReachable
  BY <1>2 DEF RootsReachable
<1>8. QED
  BY <1>2, <1>3, <1>4, <1>5, <1>6, <1>7 DEF CategoriesInv

\* The invariant of the tree of categories: parents are there, and a move that
\* is not marked never goes below the category that it moves, whatever other
\* requests do until it is saved (CategoryService).
THEOREM CategoriesInvariant == Spec => []CategoriesInv
<1>1. Init => CategoriesInv
  BY CategoriesBegin
<1>2. CategoriesInv /\ inUse \in Mixes /\ [Next]_shopVars => CategoriesInv'
  <2>1. SUFFICES ASSUME CategoriesInv, [Next]_shopVars PROVE CategoriesInv'
    OBVIOUS
  <2>2. CASE HNext /\ UNCHANGED inUse
    BY <2>1, <2>2, CategoriesKept
  <2>3. CASE UNCHANGED <<inUse, categoryVars>>
    BY <2>1, <2>3
       DEF categoryVars, CategoriesInv, CategoriesTypeOK, ParentsThere, HJobOK, NoneIdleMoves,
           MovesMeet, MovesUp, RootsReachable, Below
  <2>4. QED
    BY <2>1, <2>2, <2>3, CategoriesStep
<1>3. QED
  BY <1>1, <1>2, MixStays, PTL DEF Spec

\* From each category the parents lead to one that has none or that is knotted:
\* updateCategory loses no other category to the clients, who start from the
\* top (updateCategory, deleteCategory, softDelete).
THEOREM RootsReachableHolds == Spec => []RootsReachable
<1>1. CategoriesInv => RootsReachable
  BY DEF CategoriesInv
<1>2. QED
  BY <1>1, CategoriesInvariant, PTL

---------------------------------------------------------------------------
(* Roles *)

LEMMA RolesStep ==
    ASSUME [Next]_shopVars
    PROVE  \/ GNext /\ UNCHANGED inUse
           \/ UNCHANGED <<inUse, roleVars>>
BY DEF Next, shopVars

LEMMA IdleGJobType ==
    /\ IdleGJob \in GJob /\ IdleGJob.phase = "idle" /\ IdleGJob.op = "none"
    /\ IdleGJob.at = 0 /\ IdleGJob.about = {} /\ IdleGJob.alone = TRUE
    /\ IdleGJob.routes = {} /\ IdleGJob.list = {} /\ IdleGJob.old = {}
BY PartiesAssumption DEF IdleGJob, GJob

LEMMA RolesFacts ==
    ASSUME RolesInv
    PROVE  /\ Len(permission) \in Nat /\ DOMAIN permission = 1 .. Len(permission)
           /\ DOMAIN permission \subseteq Rows /\ standing \subseteq Rows
           /\ made \in Nat /\ made <= MaxRows /\ roles \subseteq Rows
           /\ \A i \in DOMAIN permission : permission[i] \in Routes
           /\ \A r \in Rows : meant[r] \in SUBSET Rows
           /\ \A r : Granted(r) \subseteq standing
           /\ \A r : r \notin roles => Granted(r) = {}
           /\ \A k \in Clerks : gjob[k] \in GJob /\ GJobOK(gjob[k])
<1>1. /\ Len(permission) \in Nat /\ DOMAIN permission = 1 .. Len(permission)
      /\ \A i \in DOMAIN permission : permission[i] \in Routes
  BY TableDomain DEF RolesInv, RolesTypeOK
<1>2. DOMAIN permission \subseteq Rows /\ standing \subseteq Rows
  BY <1>1, PartiesAssumption DEF RolesInv, RolesTypeOK, Rows
<1>3. made \in Nat /\ made <= MaxRows /\ roles \subseteq Rows
  BY PartiesAssumption, RolesAssumption DEF RolesInv, RolesTypeOK, Rows
<1>4. /\ \A r : Granted(r) \subseteq standing
      /\ \A r : r \notin roles => Granted(r) = {}
  BY DEF RolesInv, RolesTypeOK, Granted
<1>5. QED
  BY <1>1, <1>2, <1>3, <1>4 DEF RolesInv, RolesTypeOK

\* One change of a request in flight, as the invariant speaks of it.
LEMMA RolesOthersStay ==
    ASSUME RolesInv, NEW k \in Clerks, NEW new \in GJob, gjob' = [gjob EXCEPT ![k] = new]
    PROVE  /\ gjob' \in [Clerks -> GJob] /\ gjob'[k] = new
           /\ \A i \in Clerks : i # k => gjob'[i] = gjob[i]
BY DEF RolesInv, RolesTypeOK

\* Roles in flight and permissions taken, after one request has changed.
LEMMA UnlinkedAfter ==
    ASSUME RolesInv, NEW k \in Clerks, NEW new, gjob'[k] = new,
           \A i \in Clerks : i # k => gjob'[i].phase = gjob[i].phase /\ gjob'[i].at = gjob[i].at
    PROVE  /\ new.phase = "unlinked" => new.at \in Unlinked'
           /\ gjob[k].phase # "unlinked" => Unlinked \subseteq Unlinked'
           /\ Unlinked \subseteq Unlinked' \cup {gjob[k].at}
BY DEF Unlinked

LEMMA BegunAfter ==
    ASSUME RolesInv, NEW k \in Clerks, NEW new, gjob'[k] = new,
           \A i \in Clerks : i # k => /\ gjob'[i].phase = gjob[i].phase
                                      /\ gjob'[i].op = gjob[i].op
                                      /\ gjob'[i].about = gjob[i].about
    PROVE  /\ Begun \subseteq Begun' \cup gjob[k].about
           /\ new.op # "remove" /\ new.phase # "loaded" => new.about \subseteq Begun'
           /\ gjob[k].op = "remove" \/ gjob[k].phase = "loaded" => Begun \subseteq Begun'
BY DEF Begun

\* To show of the next state what the requests know.
LEMMA UpdatesClearThen ==
    ASSUME \A k \in Clerks : gjob'[k].op = "update" /\ gjob'[k].alone =>
              \E r : r = gjob'[k].at
                     /\ Granted(r)' \subseteq IF gjob'[k].phase = "cleared" THEN {}
                                              ELSE gjob'[k].old
    PROVE  UpdatesClear'
BY DEF UpdatesClear, Granted

LEMMA DropsAsAskedThen ==
    ASSUME \A k \in Clerks :
              gjob'[k].op = "drop" /\ gjob'[k].alone /\ gjob'[k].at \in roles' \ upset' =>
                 \E r, set : /\ r = gjob'[k].at /\ set = gjob'[k].list \ gjob'[k].old
                             /\ HasMeant(r, set)'
    PROVE  DropsAsAsked'
BY DEF DropsAsAsked, HasMeant, Granted

\* A step keeps role r as it is, or takes permissions that are being removed.
KeptRole(r) ==
    /\ Granted(r)' \subseteq Granted(r)
    /\ r \in roles' \ upset' =>
          /\ r \in roles \ upset
          /\ \A set : HasMeant(r, set) => HasMeant(r, set)'

\* A step of one request that changes the roles in changed.
LEMMA RoleStepKeeps ==
    ASSUME RolesInv, NEW k \in Clerks, NEW new \in GJob, gjob' = [gjob EXCEPT ![k] = new],
           NEW changed, inUse' = inUse,
           permission' \in Seq(Routes), Len(permission') <= MaxRows,
           Len(permission) <= Len(permission'),
           standing' \subseteq DOMAIN permission',
           made' \in made .. MaxRoles, roles' \subseteq 1 .. made',
           grants' \subseteq roles' \X standing',
           meant' \in [Rows -> SUBSET Rows], upset' \subseteq Rows,
           GJobOK(new), new.about \subseteq gjob[k].about,
           new.alone => gjob[k].alone \/ new.about = {},
           Begun \subseteq Begun' \cup changed,
           \A i \in Clerks : i # k /\ gjob[i].op \in {"update", "drop"} /\ gjob[i].alone
                             => gjob[i].at \notin changed,
           \A r \in Rows : r \notin changed => KeptRole(r),
           \A r \in changed : r \in roles' \ (upset' \cup Begun') => HasMeant(r, {})',
           new.op = "update" /\ new.alone =>
              \E r : r = new.at
                     /\ Granted(r)' \subseteq IF new.phase = "cleared" THEN {} ELSE new.old,
           new.op = "drop" /\ new.alone /\ new.at \in roles' \ upset' =>
              \E r, set : r = new.at /\ set = new.list \ new.old /\ HasMeant(r, set)'
    PROVE  RolesInv'
<1>1. /\ gjob' \in [Clerks -> GJob] /\ gjob'[k] = new
      /\ \A i \in Clerks : i # k => gjob'[i] = gjob[i]
  BY RolesOthersStay
<1>2. made \in Nat /\ made' \in 0 .. MaxRoles /\ made <= made'
  BY RolesFacts, PartiesAssumption, RolesAssumption
<1>3. RolesTypeOK'
  BY <1>1, <1>2 DEF RolesTypeOK
<1>4. DOMAIN permission \subseteq DOMAIN permission'
  <2>1. Len(permission') \in Nat /\ DOMAIN permission' = 1 .. Len(permission')
    BY TableDomain
  <2>2. QED
    BY <2>1, RolesFacts
<1>5. ASSUME NEW i \in Clerks
      PROVE  GJobOK(gjob[i])'
  <2>1. PICK j : j = gjob'[i]
    OBVIOUS
  <2>2. GJobOK(j)
    BY <1>1, <2>1, RolesFacts
  <2>3. QED
    BY <1>2, <1>4, <2>1, <2>2 DEF GJobOK
<1>6. AloneApart'
  <2>1. SUFFICES ASSUME NEW i \in Clerks, NEW l \in Clerks, i # l, gjob'[i].alone
                 PROVE  gjob'[i].about \cap gjob'[l].about = {}
    BY DEF AloneApart
  <2>2. CASE i = k
    BY <1>1, <2>1, <2>2 DEF RolesInv, AloneApart
  <2>3. CASE l = k
    BY <1>1, <2>1, <2>3 DEF RolesInv, AloneApart
  <2>4. CASE i # k /\ l # k
    BY <1>1, <2>1, <2>4 DEF RolesInv, AloneApart
  <2>5. QED
    BY <2>2, <2>3, <2>4
<1>7. ASSUME NEW i \in Clerks, i # k, gjob[i].op \in {"update", "drop"}, gjob[i].alone
      PROVE  gjob[i].at \in Rows
  <2>1. GJobOK(gjob[i])
    BY RolesFacts
  <2>2. gjob[i].at \in 1 .. made
    BY <1>7, <2>1 DEF GJobOK
  <2>3. gjob[i].at \in Rows
    BY <2>2, RolesFacts, PartiesAssumption DEF Rows
  <2>4. QED
    BY <2>3
<1>8. UpdatesClear'
  <2>1. SUFFICES ASSUME NEW i \in Clerks, gjob'[i].op = "update", gjob'[i].alone
                 PROVE  \E r : r = gjob'[i].at
                               /\ Granted(r)' \subseteq IF gjob'[i].phase = "cleared" THEN {}
                                                        ELSE gjob'[i].old
    BY UpdatesClearThen
  <2>2. CASE i = k
    BY <1>1, <2>1, <2>2
  <2>3. CASE i # k
    <3>1. gjob'[i] = gjob[i]
      BY <1>1, <2>3
    <3>2. PICK r : r = gjob[i].at
      OBVIOUS
    <3>3. Granted(r) \subseteq IF gjob[i].phase = "cleared" THEN {} ELSE gjob[i].old
      BY <2>1, <3>1, <3>2 DEF RolesInv, UpdatesClear
    <3>4. r \in Rows /\ r \notin changed
      BY <1>7, <2>1, <2>3, <3>1, <3>2
    <3>5. Granted(r)' \subseteq Granted(r)
      BY <3>4 DEF KeptRole
    <3>6. QED
      BY <3>1, <3>2, <3>3, <3>5
  <2>4. QED
    BY <2>2, <2>3
<1>9. DropsAsAsked'
  <2>1. SUFFICES ASSUME NEW i \in Clerks, gjob'[i].op = "drop", gjob'[i].alone,
                        gjob'[i].at \in roles' \ upset'
                 PROVE  \E r, set : /\ r = gjob'[i].at
                                    /\ set = gjob'[i].list \ gjob'[i].old
                                    /\ HasMeant(r, set)'
    BY DropsAsAskedThen
  <2>2. CASE i = k
    BY <1>1, <2>1, <2>2
  <2>3. CASE i # k
    <3>1. gjob'[i] = gjob[i]
      BY <1>1, <2>3
    <3>2. PICK r, set : r = gjob[i].at /\ set = gjob[i].list \ gjob[i].old
      OBVIOUS
    <3>3. r \in Rows /\ r \notin changed
      BY <1>7, <2>1, <2>3, <3>1, <3>2
    <3>4. r \in roles \ upset /\ (HasMeant(r, set) => HasMeant(r, set)')
      BY <2>1, <3>1, <3>2, <3>3 DEF KeptRole
    <3>5. HasMeant(r, set)
      BY <2>1, <3>1, <3>2, <3>4 DEF RolesInv, DropsAsAsked
    <3>6. QED
      BY <3>1, <3>2, <3>4, <3>5
  <2>4. QED
    BY <2>2, <2>3
<1>10. ASSUME NEW r \in roles' \ (upset' \cup Begun')
       PROVE  HasMeant(r, {})'
  <2>1. r \in Rows
    BY <1>2, <1>10, PartiesAssumption, RolesAssumption DEF Rows
  <2>2. CASE r \in changed
    BY <1>10, <2>2
  <2>3. CASE r \notin changed
    <3>1. KeptRole(r)
      BY <2>1, <2>3
    <3>2. r \notin Begun
      BY <1>10, <2>3
    <3>3. /\ r \in roles \ upset
          /\ HasMeant(r, {}) => HasMeant(r, {})'
      BY <1>10, <3>1 DEF KeptRole
    <3>4. HasMeant(r, {})
      BY <3>2, <3>3 DEF RolesInv
    <3>5. QED
      BY <3>3, <3>4
  <2>4. QED
    BY <2>2, <2>3
<1>11. \A r \in (roles \ (upset \cup Begun))' : HasMeant(r, {})'
  BY <1>10
<1>12. QED
  BY <1>3, <1>5, <1>6, <1>8, <1>9, <1>11 DEF RolesInv

\* A request starts.
LEMMA RoleStarts ==
    ASSUME RolesInv, NEW k \in Clerks, NEW j \in GJob, GStart(k, j), inUse' = inUse,
           GJobOK([j EXCEPT !.phase = "loaded"]), j.op # "none",
           j.op = "update" => Granted(j.at) \subseteq j.old,
           j.op = "drop" => j.list = j.old
    PROVE  RolesInv'
<1>1. PICK rivals : rivals = {i \in GBusy : gjob[i].about \cap j.about # {}}
  OBVIOUS
<1>2. PICK free : free = (rivals = {})
  OBVIOUS
<1>3. free \in BOOLEAN
  BY <1>2
<1>4. PICK new : new = [j EXCEPT !.phase = "loaded", !.alone = free]
  OBVIOUS
<1>5. /\ k \notin GBusy /\ UNCHANGED GDatabase
      /\ gjob' = [i \in Clerks |->
                    IF i = k THEN new
                    ELSE IF i \in rivals THEN [gjob[i] EXCEPT !.alone = FALSE]
                    ELSE gjob[i]]
  BY <1>1, <1>2, <1>4 DEF GStart
<1>6. /\ permission' = permission /\ standing' = standing /\ made' = made /\ roles' = roles
      /\ grants' = grants /\ meant' = meant /\ upset' = upset
  BY <1>5 DEF GDatabase
<1>7. /\ new \in GJob /\ new.phase = "loaded" /\ new.op = j.op /\ new.at = j.at
      /\ new.list = j.list /\ new.old = j.old /\ new.about = j.about /\ new.alone = free
  BY <1>3, <1>4 DEF GJob
<1>8. gjob'[k] = new
  BY <1>5
<1>9. ASSUME NEW i \in Clerks, i # k
      PROVE  /\ gjob'[i] \in GJob /\ gjob'[i].phase = gjob[i].phase
             /\ gjob'[i].op = gjob[i].op /\ gjob'[i].at = gjob[i].at
             /\ gjob'[i].list = gjob[i].list /\ gjob'[i].old = gjob[i].old
             /\ gjob'[i].about = gjob[i].about
             /\ gjob'[i].alone => gjob[i].alone /\ i \notin rivals
  <2>1. gjob[i] \in GJob
    BY RolesFacts
  <2>2. CASE i \in rivals
    <3>1. gjob'[i] = [gjob[i] EXCEPT !.alone = FALSE]
      BY <1>5, <1>9, <2>2
    <3>2. QED
      BY <2>1, <3>1 DEF GJob
  <2>3. CASE i \notin rivals
    <3>1. gjob'[i] = gjob[i]
      BY <1>5, <1>9, <2>3
    <3>2. QED
      BY <2>1, <2>3, <3>1
  <2>4. QED
    BY <2>2, <2>3
\* The slot was idle, and a request that is not a rival is about other roles.
<1>10. gjob[k].phase = "idle" /\ gjob[k].op = "none" /\ gjob[k].about = {}
  <2>1. gjob[k].phase = "idle" /\ GJobOK(gjob[k])
    BY <1>5, RolesFacts DEF GBusy
  <2>2. QED
    BY <2>1 DEF GJobOK
<1>11. ASSUME NEW i \in Clerks, i # k, i \notin rivals
       PROVE  gjob[i].about \cap j.about = {}
  <2>1. CASE i \in GBusy
    BY <1>1, <1>11, <2>1
  <2>2. CASE i \notin GBusy
    <3>1. gjob[i].phase = "idle" /\ GJobOK(gjob[i])
      BY <2>2, RolesFacts DEF GBusy
    <3>2. QED
      BY <3>1 DEF GJobOK
  <2>3. QED
    BY <2>1, <2>2
<1>12. RolesTypeOK'
  <2>1. gjob' \in [Clerks -> GJob]
    BY <1>5, <1>7, <1>8, <1>9
  <2>2. QED
    BY <1>6, <2>1 DEF RolesInv, RolesTypeOK
<1>12a. GJobOK(new)
  <2>1. PICK l : l = [j EXCEPT !.phase = "loaded"]
    OBVIOUS
  <2>2. /\ GJobOK(l) /\ l.phase = "loaded" /\ l.op = j.op /\ l.at = j.at
        /\ l.about = j.about /\ l.old = j.old /\ l.list = j.list
    BY <2>1 DEF GJob
  <2>3. QED
    BY <1>7, <2>2 DEF GJobOK
<1>13. ASSUME NEW i \in Clerks
       PROVE  GJobOK(gjob[i])'
  <2>1. CASE i = k
    BY <1>6, <1>8, <1>12a, <2>1 DEF GJobOK
  <2>2. CASE i # k
    <3>1. GJobOK(gjob[i])
      BY RolesFacts
    <3>2. QED
      BY <1>6, <1>9, <2>2, <3>1 DEF GJobOK
  <2>3. QED
    BY <2>1, <2>2
<1>14. AloneApart'
  <2>1. SUFFICES ASSUME NEW i \in Clerks, NEW l \in Clerks, i # l, gjob'[i].alone
                 PROVE  gjob'[i].about \cap gjob'[l].about = {}
    BY DEF AloneApart
  <2>2. CASE i = k
    <3>1. l \notin rivals
      BY <1>2, <1>7, <1>8, <2>1, <2>2
    <3>2. QED
      BY <1>7, <1>8, <1>9, <1>11, <2>1, <2>2, <3>1
  <2>3. CASE l = k
    BY <1>7, <1>8, <1>9, <1>11, <2>1, <2>3
  <2>4. CASE i # k /\ l # k
    BY <1>9, <2>1, <2>4 DEF RolesInv, AloneApart
  <2>5. QED
    BY <2>2, <2>3, <2>4
<1>15. Unlinked' = Unlinked /\ \A r : Granted(r)' = Granted(r)
  <2>1. \A i \in Clerks : /\ gjob'[i].phase = "unlinked" <=> gjob[i].phase = "unlinked"
                          /\ gjob[i].phase = "unlinked" => gjob'[i].at = gjob[i].at
    BY <1>7, <1>8, <1>9, <1>10
  <2>2. QED
    BY <1>6, <2>1 DEF Unlinked, Granted
<1>16. Begun' = Begun
  <2>1. \A i \in Clerks : i # k => /\ gjob'[i].phase = gjob[i].phase
                                   /\ gjob'[i].op = gjob[i].op
                                   /\ gjob'[i].about = gjob[i].about
    BY <1>9
  <2>2. Begun \subseteq Begun' \cup gjob[k].about
    BY <1>8, <2>1, BegunAfter
  <2>3. Begun' \subseteq Begun
    BY <1>7, <1>8, <2>1 DEF Begun
  <2>4. QED
    BY <1>10, <2>2, <2>3
<1>17. \A r, set : HasMeant(r, set) => HasMeant(r, set)'
  BY <1>6, <1>15 DEF HasMeant
<1>18. UpdatesClear'
  <2>1. SUFFICES ASSUME NEW i \in Clerks, gjob'[i].op = "update", gjob'[i].alone
                 PROVE  \E r : r = gjob'[i].at
                               /\ Granted(r)' \subseteq IF gjob'[i].phase = "cleared" THEN {}
                                                        ELSE gjob'[i].old
    BY UpdatesClearThen
  <2>2. PICK r : r = gjob'[i].at
    OBVIOUS
  <2>3. Granted(r)' = Granted(r)
    BY <1>15
  <2>4. Granted(r) \subseteq IF gjob'[i].phase = "cleared" THEN {} ELSE gjob'[i].old
    <3>1. CASE i = k
      BY <1>7, <1>8, <2>1, <2>2, <3>1
    <3>2. CASE i # k
      BY <1>9, <2>1, <2>2, <3>2 DEF RolesInv, UpdatesClear
    <3>3. QED
      BY <3>1, <3>2
  <2>5. QED
    BY <2>2, <2>3, <2>4
<1>19. DropsAsAsked'
  <2>1. SUFFICES ASSUME NEW i \in Clerks, gjob'[i].op = "drop", gjob'[i].alone,
                        gjob'[i].at \in roles' \ upset'
                 PROVE  \E r, set : /\ r = gjob'[i].at
                                    /\ set = gjob'[i].list \ gjob'[i].old
                                    /\ HasMeant(r, set)'
    BY DropsAsAskedThen
  <2>2. PICK r, set : r = gjob'[i].at /\ set = gjob'[i].list \ gjob'[i].old
    OBVIOUS
  <2>3. HasMeant(r, set)
    <3>1. CASE i = k
      <4>0. j.op = "drop" /\ r = j.at /\ set = j.list \ j.old /\ rivals = {}
        BY <1>2, <1>7, <1>8, <2>1, <2>2, <3>1
      <4>1. set = {} /\ j.about = {r}
        BY <1>7, <1>12a, <4>0 DEF GJobOK
      <4>2. \A l \in Clerks : r \notin gjob[l].about
        BY <1>10, <1>11, <4>0, <4>1
      <4>3. r \notin Begun
        BY <4>2 DEF Begun
      <4>4. r \in roles \ upset
        BY <1>6, <2>1, <2>2
      <4>5. HasMeant(r, {})
        BY <4>3, <4>4 DEF RolesInv
      <4>6. QED
        BY <4>1, <4>5
    <3>2. CASE i # k
      <4>1. /\ gjob[i].op = "drop" /\ gjob[i].alone /\ gjob[i].at \in roles \ upset
            /\ r = gjob[i].at /\ set = gjob[i].list \ gjob[i].old
        BY <1>6, <1>9, <2>1, <2>2, <3>2
      <4>2. QED
        BY <4>1 DEF RolesInv, DropsAsAsked
    <3>3. QED
      BY <3>1, <3>2
  <2>4. QED
    BY <1>17, <2>2, <2>3
<1>20. \A r \in (roles \ (upset \cup Begun))' : HasMeant(r, {})'
  BY <1>6, <1>16, <1>17 DEF RolesInv
<1>21. QED
  BY <1>12, <1>13, <1>14, <1>18, <1>19, <1>20 DEF RolesInv

---------------------------------------------------------------------------
(* Roles: requests start *)

LEMMA PermissionLoadsKeep ==
    ASSUME RolesInv, NEW k \in Clerks, inUse' = inUse,
           \/ \E p \in Routes :
                 CreatePermission(k, p) \/ \E i \in standing : UpdatePermissionLoad(k, i, p)
           \/ \E set \in SUBSET Routes : CreateManyPermissions(k, set)
           \/ \E i \in standing : RemovePermissionLoad(k, i)
    PROVE  RolesInv'
<1>1. ASSUME NEW new \in SUBSET Routes,
             GStart(k, [IdleGJob EXCEPT !.op = "insert", !.routes = new])
      PROVE  RolesInv'
  <2>1. PICK j : j = [IdleGJob EXCEPT !.op = "insert", !.routes = new]
    OBVIOUS
  <2>2. j \in GJob /\ j.op = "insert" /\ j.about = {} /\ GStart(k, j)
    BY <1>1, <2>1, IdleGJobType DEF GJob
  <2>3. GJobOK([j EXCEPT !.phase = "loaded"])
    BY <2>2 DEF GJobOK, GJob
  <2>4. QED
    BY <2>2, <2>3, RoleStarts
<1>2. ASSUME NEW p \in Routes, CreatePermission(k, p)
      PROVE  RolesInv'
  BY <1>1, <1>2 DEF CreatePermission
<1>3. ASSUME NEW set \in SUBSET Routes, CreateManyPermissions(k, set)
      PROVE  RolesInv'
  <2>1. {p \in set : RouteFree(p)} \in SUBSET Routes
    OBVIOUS
  <2>2. QED
    BY <1>1, <1>3, <2>1 DEF CreateManyPermissions
<1>4. ASSUME NEW p \in Routes, NEW i \in standing, UpdatePermissionLoad(k, i, p)
      PROVE  RolesInv'
  <2>1. PICK j : j = [IdleGJob EXCEPT !.op = "edit", !.at = i, !.routes = {p}]
    OBVIOUS
  <2>2. i \in DOMAIN permission /\ i \in 0 .. MaxRows
    BY RolesFacts, PartiesAssumption DEF RolesInv, RolesTypeOK, Rows
  <2>3. j \in GJob /\ j.op = "edit" /\ j.at = i /\ j.about = {} /\ GStart(k, j)
    BY <1>4, <2>1, <2>2, IdleGJobType DEF GJob, UpdatePermissionLoad
  <2>4. GJobOK([j EXCEPT !.phase = "loaded"])
    BY <2>2, <2>3 DEF GJobOK, GJob
  <2>5. QED
    BY <2>3, <2>4, RoleStarts
<1>5. ASSUME NEW i \in standing, RemovePermissionLoad(k, i)
      PROVE  RolesInv'
  <2>1. PICK old : old = {r \in roles : i \in Granted(r)}
    OBVIOUS
  <2>2. PICK j : j = [IdleGJob EXCEPT !.op = "remove", !.at = i,
                         !.routes = {permission[i]}, !.about = roles, !.old = old]
    OBVIOUS
  <2>3. /\ i \in DOMAIN permission /\ i \in 0 .. MaxRows
        /\ permission[i] \in Routes /\ old \in SUBSET Rows /\ roles \in SUBSET Rows
    <3>1. i \in DOMAIN permission
      BY DEF RolesInv, RolesTypeOK
    <3>2. old \in SUBSET Rows /\ roles \in SUBSET Rows
      BY <2>1, RolesFacts
    <3>3. i \in 0 .. MaxRows
      BY <3>1, RolesFacts, PartiesAssumption DEF Rows
    <3>4. QED
      BY <3>1, <3>2, <3>3, RolesFacts
  <2>4. GStart(k, j)
    BY <1>5, <2>1, <2>2 DEF RemovePermissionLoad
  <2>5. j \in GJob /\ j.op = "remove" /\ j.at = i
    BY <2>2, <2>3, IdleGJobType DEF GJob
  <2>6. GJobOK([j EXCEPT !.phase = "loaded"])
    BY <2>3, <2>5 DEF GJobOK, GJob
  <2>7. QED
    BY <2>4, <2>5, <2>6, RoleStarts
<1>6. QED
  BY <1>2, <1>3, <1>4, <1>5

LEMMA RoleLoadsKeep ==
    ASSUME RolesInv, NEW k \in Clerks, inUse' = inUse,
           \/ \E list \in SUBSET standing :
                 CreateRoleLoad(k, list) \/ \E r \in roles : UpdateRoleLoad(k, r, list)
                                                             \/ DropLoad(k, r, list)
           \/ \E r \in roles : DeleteRoleLoad(k, r)
    PROVE  RolesInv'
<1>1. ASSUME NEW list \in SUBSET standing, CreateRoleLoad(k, list)
      PROVE  RolesInv'
  <2>1. PICK j : j = [IdleGJob EXCEPT !.op = "role", !.list = list]
    OBVIOUS
  <2>2. list \in SUBSET Rows
    BY RolesFacts
  <2>3. j \in GJob /\ j.op = "role" /\ j.about = {} /\ GStart(k, j)
    BY <1>1, <2>1, <2>2, IdleGJobType DEF GJob, CreateRoleLoad
  <2>4. GJobOK([j EXCEPT !.phase = "loaded"])
    BY <2>3 DEF GJobOK, GJob
  <2>5. QED
    BY <2>3, <2>4, RoleStarts
<1>2. ASSUME NEW op \in {"update", "drop", "delete"}, NEW r \in roles,
             NEW list \in SUBSET Rows, NEW old \in SUBSET Rows,
             GStart(k, [IdleGJob EXCEPT !.op = op, !.at = r, !.list = list, !.old = old,
                           !.about = {r}]),
             op = "update" => old = Granted(r),
             op = "drop" => list = old
      PROVE  RolesInv'
  <2>1. PICK j : j = [IdleGJob EXCEPT !.op = op, !.at = r, !.list = list, !.old = old,
                         !.about = {r}]
    OBVIOUS
  <2>2. r \in 1 .. made /\ r \in 0 .. MaxRows /\ {r} \in SUBSET Rows
    BY RolesFacts, PartiesAssumption DEF RolesInv, RolesTypeOK, Rows
  <2>3. /\ j \in GJob /\ j.op = op /\ j.at = r /\ j.list = list /\ j.old = old
        /\ j.about = {r} /\ GStart(k, j)
    BY <1>2, <2>1, <2>2, IdleGJobType DEF GJob
  <2>4. GJobOK([j EXCEPT !.phase = "loaded"])
    BY <1>2, <2>2, <2>3 DEF GJobOK, GJob
  <2>5. j.op = "update" => Granted(j.at) \subseteq j.old
    BY <1>2, <2>3
  <2>6. QED
    BY <1>2, <2>3, <2>4, <2>5, RoleStarts
<1>3. ASSUME NEW r \in roles, NEW list \in SUBSET standing, UpdateRoleLoad(k, r, list)
      PROVE  RolesInv'
  <2>1. list \in SUBSET Rows /\ Granted(r) \in SUBSET Rows
    BY RolesFacts
  <2>2. GStart(k, [IdleGJob EXCEPT !.op = "update", !.at = r, !.list = list,
                      !.old = Granted(r), !.about = {r}])
    BY <1>3 DEF UpdateRoleLoad
  <2>3. QED
    BY <1>2, <2>1, <2>2
<1>4. ASSUME NEW r \in roles, NEW list \in SUBSET standing, DropLoad(k, r, list)
      PROVE  RolesInv'
  <2>1. list \in SUBSET Rows
    BY RolesFacts
  <2>2. GStart(k, [IdleGJob EXCEPT !.op = "drop", !.at = r, !.list = list, !.old = list,
                      !.about = {r}])
    BY <1>4 DEF DropLoad
  <2>3. QED
    BY <1>2, <2>1, <2>2
<1>5. ASSUME NEW r \in roles, DeleteRoleLoad(k, r)
      PROVE  RolesInv'
  <2>1. PICK j : j = [IdleGJob EXCEPT !.op = "delete", !.at = r, !.old = Granted(r),
                         !.about = {r}]
    OBVIOUS
  <2>2. Granted(r) \in SUBSET Rows
    BY RolesFacts
  <2>3. r \in 1 .. made /\ r \in 0 .. MaxRows /\ {r} \in SUBSET Rows
    BY RolesFacts, PartiesAssumption DEF RolesInv, RolesTypeOK, Rows
  <2>4. j \in GJob /\ j.op = "delete" /\ j.at = r /\ j.about = {r} /\ GStart(k, j)
    BY <1>5, <2>1, <2>2, <2>3, IdleGJobType DEF GJob, DeleteRoleLoad
  <2>5. GJobOK([j EXCEPT !.phase = "loaded"])
    BY <2>3, <2>4 DEF GJobOK, GJob
  <2>6. QED
    BY <2>4, <2>5, RoleStarts
<1>6. QED
  BY <1>1, <1>3, <1>4, <1>5

---------------------------------------------------------------------------
(* Roles: requests go on and end *)

\* What a role was meant to have, after permissions were taken from it.
LEMMA RoleKept ==
    ASSUME NEW r, Granted(r)' \subseteq Granted(r),
           r \in roles' \ upset' =>
              /\ r \in roles \ upset
              /\ meant'[r] \subseteq meant[r]
              /\ (meant[r] \ meant'[r]) \cap Granted(r)' = {}
              /\ Granted(r) \ Granted(r)' \subseteq Unlinked'
              /\ meant'[r] \cap Unlinked \subseteq Unlinked'
    PROVE  KeptRole(r)
BY DEF KeptRole, HasMeant

\* A request alone about a role has it for itself.
LEMMA AloneElsewhere ==
    ASSUME RolesInv, NEW k \in Clerks, NEW i \in Clerks, i # k, gjob[i].alone,
           gjob[i].op \in {"update", "drop"}
    PROVE  gjob[i].at \notin gjob[k].about
<1>1. GJobOK(gjob[i])
  BY RolesFacts
<1>2. gjob[i].about = {gjob[i].at}
  BY <1>1 DEF GJobOK
<1>3. QED
  BY <1>2 DEF RolesInv, AloneApart

\* A step of request k changes no other role than the one that it is about.
ChangesOnly(k, at) ==
    /\ inUse' = inUse /\ gjob[k].op \in {"update", "drop", "delete"} /\ at = gjob[k].at
    /\ permission' = permission /\ standing' = standing /\ made' = made
    /\ roles' \subseteq roles \cup {at} /\ grants' \subseteq roles' \X standing
    /\ \A r : r # at => Granted(r)' = Granted(r)
    /\ meant' \in [Rows -> SUBSET Rows]
    /\ \A r \in Rows : r # at => meant'[r] = meant[r]
    /\ upset' \subseteq upset \cup {at} /\ upset \subseteq upset' \cup {at}

\* What the request becomes: it is over, or goes on and knows enough.
GoesOn(k, new, at) ==
    /\ new \in GJob /\ GJobOK(new) /\ new.about = {at} /\ new.phase # "loaded"
    /\ new.op # "remove"
    /\ new.alone => gjob[k].alone
    /\ new.op = "update" /\ new.alone =>
          \E r : r = new.at
                 /\ Granted(r)' \subseteq IF new.phase = "cleared" THEN {} ELSE new.old
    /\ new.op = "drop" /\ new.alone /\ new.at \in roles' \ upset' =>
          \E r, set : r = new.at /\ set = new.list \ new.old /\ HasMeant(r, set)'

IsOver(new, at) ==
    /\ new = IdleGJob
    /\ at \in roles' \ upset' => HasMeant(at, {})'

LEMMA RoleStepOn ==
    ASSUME RolesInv, NEW k \in Clerks, NEW at, ChangesOnly(k, at),
           NEW new, gjob' = [gjob EXCEPT ![k] = new],
           GoesOn(k, new, at) \/ IsOver(new, at)
    PROVE  RolesInv'
<1>0a. /\ inUse' = inUse /\ gjob[k].op \in {"update", "drop", "delete"} /\ at = gjob[k].at
       /\ permission' = permission /\ standing' = standing /\ made' = made
       /\ roles' \subseteq roles \cup {at} /\ grants' \subseteq roles' \X standing
       /\ \A r : r # at => Granted(r)' = Granted(r)
       /\ meant' \in [Rows -> SUBSET Rows]
       /\ \A r \in Rows : r # at => meant'[r] = meant[r]
       /\ upset' \subseteq upset \cup {at} /\ upset \subseteq upset' \cup {at}
  BY DEF ChangesOnly
<1>0b. /\ new \in GJob /\ GJobOK(new) /\ (new.about = {at} \/ new.about = {})
       /\ new.alone => gjob[k].alone \/ new.about = {}
  <2>1. CASE GoesOn(k, new, at)
    BY <2>1 DEF GoesOn
  <2>2. CASE IsOver(new, at)
    BY <2>2, IdleGJobType DEF IsOver, GJobOK
  <2>3. QED
    BY <2>1, <2>2
<1>1. /\ gjob'[k] = new
      /\ \A i \in Clerks : i # k => gjob'[i] = gjob[i]
  BY <1>0b, RolesOthersStay
<1>2. /\ GJobOK(gjob[k]) /\ at \in 1 .. made /\ gjob[k].about = {at}
      /\ gjob[k].phase # "unlinked"
  <2>1. GJobOK(gjob[k])
    BY RolesFacts
  <2>2. QED
    BY <1>0a, <2>1 DEF GJobOK
<1>3. at \in Rows
  BY <1>2, RolesFacts, PartiesAssumption DEF Rows
<1>4. \A i \in Clerks : i # k => /\ gjob'[i].phase = gjob[i].phase
                                 /\ gjob'[i].op = gjob[i].op
                                 /\ gjob'[i].at = gjob[i].at
                                 /\ gjob'[i].about = gjob[i].about
  BY <1>1
<1>5. Unlinked \subseteq Unlinked'
  BY <1>1, <1>2, <1>4, UnlinkedAfter
<1>6. Begun \subseteq Begun' \cup {at}
  BY <1>1, <1>2, <1>4, BegunAfter
<1>7. ASSUME NEW r \in Rows, r \notin {at}
      PROVE  KeptRole(r)
  <2>1. Granted(r)' = Granted(r) /\ meant'[r] = meant[r]
    BY <1>0a, <1>7
  <2>2. r \in roles' \ upset' => r \in roles \ upset
    BY <1>0a, <1>7
  <2>3. QED
    BY <1>5, <2>1, <2>2, RoleKept
<1>8. ASSUME at \in roles' \ (upset' \cup Begun')
      PROVE  HasMeant(at, {})'
  <2>1. CASE GoesOn(k, new, at)
    <3>1. new.about = {at} /\ new.phase # "loaded" /\ new.op # "remove"
      BY <2>1 DEF GoesOn
    <3>2. at \in Begun'
      BY <1>1, <1>4, <3>1, BegunAfter
    <3>3. QED
      BY <1>8, <3>2
  <2>2. CASE IsOver(new, at)
    BY <1>8, <2>2 DEF IsOver
  <2>3. QED
    BY <2>1, <2>2
<1>9. /\ permission' \in Seq(Routes) /\ Len(permission') <= MaxRows
      /\ Len(permission) <= Len(permission')
      /\ standing' \subseteq DOMAIN permission'
      /\ grants' \subseteq roles' \X standing' /\ upset' \subseteq Rows
  BY <1>0a, <1>3, RolesFacts DEF RolesInv, RolesTypeOK
<1>10. made' \in made .. MaxRoles /\ roles' \subseteq 1 .. made'
  BY <1>0a, <1>2, RolesFacts, PartiesAssumption, RolesAssumption DEF RolesInv, RolesTypeOK
<1>11. \A i \in Clerks : i # k /\ gjob[i].op \in {"update", "drop"} /\ gjob[i].alone
                        => gjob[i].at \notin {at}
  BY <1>2, AloneElsewhere
<1>12. /\ new.about \subseteq gjob[k].about
       /\ new.alone => gjob[k].alone \/ new.about = {}
  BY <1>0b, <1>2
<1>13. PICK changed : changed = {at}
  OBVIOUS
<1>14. \A r \in changed : r \in roles' \ (upset' \cup Begun') => HasMeant(r, {})'
  BY <1>8, <1>13
<1>15. /\ new.op = "update" /\ new.alone =>
             \E r : r = new.at
                    /\ Granted(r)' \subseteq IF new.phase = "cleared" THEN {} ELSE new.old
       /\ new.op = "drop" /\ new.alone /\ new.at \in roles' \ upset' =>
             \E r, set : r = new.at /\ set = new.list \ new.old /\ HasMeant(r, set)'
  <2>1. CASE GoesOn(k, new, at)
    BY <2>1 DEF GoesOn
  <2>2. CASE IsOver(new, at)
    BY <2>2, IdleGJobType DEF IsOver
  <2>3. QED
    BY <2>1, <2>2
<1>16. QED
  BY <1>0a, <1>0b, <1>6, <1>7, <1>9, <1>10, <1>11, <1>12, <1>13, <1>14, <1>15, RoleStepKeeps

LEMMA GrantsStripped ==
    ASSUME NEW at, NEW set, grants' = Stripped(at, set)
    PROVE  /\ grants' \subseteq grants
           /\ \A r : r # at => Granted(r)' = Granted(r)
           /\ Granted(at)' = Granted(at) \ set
BY DEF Stripped, Granted

LEMMA GrantsReplaced ==
    ASSUME NEW at, NEW set \in SUBSET Rows,
           grants' = {g \in grants : g[1] # at} \cup ({at} \X set)
    PROVE  /\ \A r : r # at => Granted(r)' = Granted(r)
           /\ Granted(at)' = set
<1>1. \A r : r # at => Granted(r)' = Granted(r)
  BY DEF Granted
<1>2. Granted(at)' = set
  BY DEF Granted
<1>3. QED
  BY <1>1, <1>2

LEMMA GrantsAdded ==
    ASSUME NEW at, NEW set \in SUBSET Rows, grants' = grants \cup ({at} \X set)
    PROVE  /\ \A r : r # at => Granted(r)' = Granted(r)
           /\ Granted(at)' = Granted(at) \cup set
<1>1. \A r : r # at => Granted(r)' = Granted(r)
  BY DEF Granted
<1>2. Granted(at)' = Granted(at) \cup set
  BY DEF Granted
<1>3. QED
  BY <1>1, <1>2

\* What a request about one role is like.
LEMMA RoleRequest ==
    ASSUME RolesInv, NEW k \in Clerks, gjob[k].op \in {"update", "drop", "delete"},
           NEW j, j = gjob[k], NEW at, at = gjob[k].at
    PROVE  /\ j \in GJob /\ GJobOK(j) /\ at \in 1 .. made /\ at \in Rows /\ j.about = {at}
           /\ j.at = at /\ j.old \in SUBSET Rows /\ j.list \in SUBSET Rows
           /\ j.phase \notin {"idle", "unlinked"} /\ j.op = gjob[k].op
           /\ grants \subseteq roles \X standing /\ meant \in [Rows -> SUBSET Rows]
<1>1. j \in GJob /\ GJobOK(j)
  BY RolesFacts
<1>2. at \in 1 .. made /\ j.about = {at} /\ j.phase \notin {"idle", "unlinked"} /\ j.at = at
  BY <1>1 DEF GJobOK
<1>3. at \in Rows
  BY <1>2, RolesFacts, PartiesAssumption DEF Rows
<1>4. QED
  BY <1>1, <1>2, <1>3 DEF GJob, RolesInv, RolesTypeOK

LEMMA UpdateRoleSaveKeeps ==
    ASSUME RolesInv, NEW k \in Clerks, UpdateRoleSave(k), inUse' = inUse
    PROVE  RolesInv'
<1>1. PICK j, at : j = gjob[k] /\ at = gjob[k].at
  OBVIOUS
<1>2. /\ j.op = "update" /\ j.phase = "loaded" /\ j.old \subseteq standing
      /\ roles' = roles \cup {at}
      /\ grants' = {g \in grants : g[1] # at} \cup ({at} \X j.old)
      /\ gjob' = [gjob EXCEPT ![k].phase = "renamed"]
      /\ UNCHANGED <<permission, standing, made, meant, upset>>
  BY <1>1 DEF UpdateRoleSave
<1>3. /\ j \in GJob /\ GJobOK(j) /\ at \in Rows /\ j.about = {at} /\ j.at = at
      /\ j.old \in SUBSET Rows /\ grants \subseteq roles \X standing
      /\ meant \in [Rows -> SUBSET Rows]
  BY <1>1, <1>2, RoleRequest
<1>4. PICK new : new = [j EXCEPT !.phase = "renamed"]
  OBVIOUS
<1>5. /\ new \in GJob /\ new.op = "update" /\ new.phase = "renamed" /\ new.about = {at}
      /\ new.at = at /\ new.old = j.old /\ new.alone = j.alone
  BY <1>2, <1>3, <1>4 DEF GJob
<1>6. gjob' = [gjob EXCEPT ![k] = new]
  BY <1>1, <1>2, <1>4 DEF RolesInv, RolesTypeOK
<1>7. GJobOK(new)
  BY <1>2, <1>3, <1>5 DEF GJobOK
<1>8. /\ \A r : r # at => Granted(r)' = Granted(r)
      /\ Granted(at)' = j.old
  <2>1. PICK old \in SUBSET Rows : old = j.old
    BY <1>3
  <2>2. grants' = {g \in grants : g[1] # at} \cup ({at} \X old)
    BY <1>2, <2>1
  <2>3. QED
    BY <2>1, <2>2, GrantsReplaced
<1>9. grants' \subseteq roles' \X standing
  BY <1>2, <1>3
<1>10. \E r : r = new.at
              /\ Granted(r)' \subseteq IF new.phase = "cleared" THEN {} ELSE new.old
  BY <1>5, <1>8
<1>11. /\ gjob[k].op \in {"update", "drop", "delete"} /\ at = gjob[k].at
       /\ permission' = permission /\ standing' = standing /\ made' = made
       /\ meant' = meant /\ upset' = upset /\ gjob[k].alone = j.alone
  BY <1>1, <1>2
<1>12. ChangesOnly(k, at)
  BY <1>2, <1>3, <1>8, <1>9, <1>11 DEF ChangesOnly
<1>13. GoesOn(k, new, at)
  BY <1>5, <1>7, <1>10, <1>11 DEF GoesOn
<1>14. QED
  BY <1>6, <1>12, <1>13, RoleStepOn

LEMMA UpdateRoleFindKeeps ==
    ASSUME RolesInv, NEW k \in Clerks, UpdateRoleFind(k), inUse' = inUse
    PROVE  RolesInv'
<1>1. PICK j, at : j = gjob[k] /\ at = gjob[k].at
  OBVIOUS
<1>2. j.op = "update" /\ j.phase = "renamed" /\ UNCHANGED GDatabase
  BY <1>1 DEF UpdateRoleFind
<1>3. /\ j \in GJob /\ GJobOK(j) /\ at \in Rows /\ j.about = {at} /\ j.at = at
      /\ j.old \in SUBSET Rows /\ grants \subseteq roles \X standing
      /\ meant \in [Rows -> SUBSET Rows]
  BY <1>1, <1>2, RoleRequest
<1>4. PICK found, some : found = Found(j.list) /\ some = (j.alone /\ j.list # {})
  OBVIOUS
<1>5. found \in SUBSET Rows /\ some \in BOOLEAN
  BY <1>3, <1>4, RolesFacts DEF Found
<1>6. PICK new : new = [j EXCEPT !.phase = "listed", !.list = found, !.alone = some]
  OBVIOUS
<1>7. /\ new \in GJob /\ new.op = "update" /\ new.phase = "listed" /\ new.about = {at}
      /\ new.at = at /\ new.old = j.old /\ new.alone = some
  BY <1>2, <1>3, <1>5, <1>6 DEF GJob
<1>8. gjob' = [gjob EXCEPT ![k] = new]
  BY <1>1, <1>4, <1>6 DEF RolesInv, RolesTypeOK, UpdateRoleFind
<1>9. GJobOK(new)
  BY <1>2, <1>3, <1>7 DEF GJobOK
<1>10. /\ permission' = permission /\ standing' = standing /\ made' = made /\ roles' = roles
       /\ grants' = grants /\ meant' = meant /\ upset' = upset
       /\ \A r : Granted(r)' = Granted(r)
  BY <1>2 DEF GDatabase, Granted
<1>11. some => j.alone
  BY <1>4
<1>12. ASSUME new.alone
       PROVE  \E r : r = new.at
                     /\ Granted(r)' \subseteq IF new.phase = "cleared" THEN {} ELSE new.old
  <2>1. Granted(at) \subseteq j.old
    BY <1>1, <1>2, <1>7, <1>11, <1>12 DEF RolesInv, UpdatesClear
  <2>2. QED
    BY <1>7, <1>10, <2>1
<1>13. gjob[k].op \in {"update", "drop", "delete"} /\ (new.alone => gjob[k].alone)
  BY <1>1, <1>2, <1>7, <1>11
<1>14. ChangesOnly(k, at)
  BY <1>1, <1>3, <1>10, <1>13 DEF ChangesOnly
<1>15. GoesOn(k, new, at)
  BY <1>7, <1>9, <1>12, <1>13 DEF GoesOn
<1>16. QED
  BY <1>8, <1>14, <1>15, RoleStepOn

LEMMA UpdateRoleClearKeeps ==
    ASSUME RolesInv, NEW k \in Clerks, UpdateRoleClear(k), inUse' = inUse
    PROVE  RolesInv'
<1>1. PICK j, at : j = gjob[k] /\ at = gjob[k].at
  OBVIOUS
<1>2. /\ j.op = "update" /\ j.phase = "listed" /\ grants' = Stripped(at, j.old)
      /\ gjob' = [gjob EXCEPT ![k].phase = "cleared"]
      /\ UNCHANGED <<permission, standing, made, roles, meant, upset>>
  BY <1>1 DEF UpdateRoleClear
<1>3. /\ j \in GJob /\ GJobOK(j) /\ at \in Rows /\ j.about = {at} /\ j.at = at
      /\ j.old \in SUBSET Rows /\ grants \subseteq roles \X standing
      /\ meant \in [Rows -> SUBSET Rows]
  BY <1>1, <1>2, RoleRequest
<1>4. PICK new : new = [j EXCEPT !.phase = "cleared"]
  OBVIOUS
<1>5. /\ new \in GJob /\ new.op = "update" /\ new.phase = "cleared" /\ new.about = {at}
      /\ new.at = at /\ new.old = j.old /\ new.alone = j.alone
  BY <1>2, <1>3, <1>4 DEF GJob
<1>6. gjob' = [gjob EXCEPT ![k] = new]
  BY <1>1, <1>2, <1>4 DEF RolesInv, RolesTypeOK
<1>7. GJobOK(new)
  BY <1>2, <1>3, <1>5 DEF GJobOK
<1>8. /\ grants' \subseteq grants
      /\ \A r : r # at => Granted(r)' = Granted(r)
      /\ Granted(at)' = Granted(at) \ j.old
  BY <1>2, GrantsStripped
<1>9. grants' \subseteq roles' \X standing
  BY <1>2, <1>3, <1>8
<1>10. ASSUME new.alone
       PROVE  \E r : r = new.at
                     /\ Granted(r)' \subseteq IF new.phase = "cleared" THEN {} ELSE new.old
  <2>1. Granted(at) \subseteq j.old
    BY <1>1, <1>2, <1>5, <1>10 DEF RolesInv, UpdatesClear
  <2>2. Granted(at)' = {}
    BY <1>8, <2>1
  <2>3. QED
    BY <1>5, <2>2
<1>11. /\ gjob[k].op \in {"update", "drop", "delete"} /\ at = gjob[k].at
       /\ permission' = permission /\ standing' = standing /\ made' = made
       /\ roles' = roles /\ meant' = meant /\ upset' = upset /\ gjob[k].alone = j.alone
  BY <1>1, <1>2
<1>12. ChangesOnly(k, at)
  BY <1>3, <1>8, <1>9, <1>11 DEF ChangesOnly
<1>13. GoesOn(k, new, at)
  BY <1>5, <1>7, <1>10, <1>11 DEF GoesOn
<1>14. QED
  BY <1>6, <1>12, <1>13, RoleStepOn

LEMMA UpdateRoleAddKeeps ==
    ASSUME RolesInv, NEW k \in Clerks, UpdateRoleAdd(k), inUse' = inUse
    PROVE  RolesInv'
<1>1. PICK j, at : j = gjob[k] /\ at = gjob[k].at
  OBVIOUS
<1>2. /\ j.op = "update" /\ j.phase = "cleared"
      /\ at \in roles \/ j.list = {}
      /\ j.list \subseteq standing
      /\ grants' = grants \cup ({at} \X j.list)
      /\ meant' = [meant EXCEPT ![at] = j.list]
      /\ upset' = IF j.alone THEN upset \ {at} ELSE upset \cup {at}
      /\ GDone(k)
      /\ UNCHANGED <<permission, standing, made, roles>>
  BY <1>1 DEF UpdateRoleAdd
<1>3. /\ j \in GJob /\ at \in Rows /\ j.about = {at} /\ j.at = at
      /\ j.list \in SUBSET Rows /\ grants \subseteq roles \X standing
      /\ meant \in [Rows -> SUBSET Rows]
  BY <1>1, <1>2, RoleRequest
<1>4. gjob' = [gjob EXCEPT ![k] = IdleGJob]
  BY <1>2 DEF GDone
<1>6. /\ \A r : r # at => Granted(r)' = Granted(r)
      /\ Granted(at)' = Granted(at) \cup j.list
  BY <1>2, <1>3, GrantsAdded
<1>7. grants' \subseteq roles' \X standing
  BY <1>2, <1>3
<1>8. /\ meant' \in [Rows -> SUBSET Rows] /\ meant'[at] = j.list
      /\ \A r \in Rows : r # at => meant'[r] = meant[r]
  BY <1>2, <1>3
<1>9. ASSUME at \in roles' \ upset'
      PROVE  HasMeant(at, {})'
  <2>1. j.alone
    BY <1>2, <1>9
  <2>2. Granted(at) = {}
    BY <1>1, <1>2, <2>1 DEF RolesInv, UpdatesClear
  <2>3. QED
    BY <1>6, <1>8, <2>2 DEF HasMeant
<1>10. upset' \subseteq upset \cup {at} /\ upset \subseteq upset' \cup {at}
  BY <1>2
<1>11. /\ gjob[k].op \in {"update", "drop", "delete"} /\ at = gjob[k].at
       /\ permission' = permission /\ standing' = standing /\ made' = made /\ roles' = roles
  BY <1>1, <1>2
<1>12. ChangesOnly(k, at)
  BY <1>6, <1>7, <1>8, <1>10, <1>11 DEF ChangesOnly
<1>13. IsOver(IdleGJob, at)
  BY <1>9 DEF IsOver
<1>14. QED
  BY <1>4, <1>12, <1>13, RoleStepOn

LEMMA DropOneKeeps ==
    ASSUME RolesInv, NEW k \in Clerks, NEW p \in Rows, DropOne(k, p), inUse' = inUse
    PROVE  RolesInv'
<1>1. PICK j, at : j = gjob[k] /\ at = gjob[k].at
  OBVIOUS
<1>2. /\ j.op = "drop" /\ p \in j.old /\ grants' = Stripped(at, {p})
      /\ UNCHANGED <<permission, standing, made, roles>>
  BY <1>1 DEF DropOne
<1>3. /\ j \in GJob /\ GJobOK(j) /\ at \in Rows /\ j.about = {at} /\ j.at = at
      /\ j.old \in SUBSET Rows /\ j.list \in SUBSET Rows /\ grants \subseteq roles \X standing
      /\ meant \in [Rows -> SUBSET Rows]
  BY <1>1, <1>2, RoleRequest
<1>3a. p \in j.list /\ j.old \subseteq j.list
  BY <1>2, <1>3 DEF GJobOK
<1>4. /\ grants' \subseteq grants
      /\ \A r : r # at => Granted(r)' = Granted(r)
      /\ Granted(at)' = Granted(at) \ {p}
  BY <1>2, GrantsStripped
<1>5. grants' \subseteq roles' \X standing
  BY <1>2, <1>3, <1>4
<1>6. /\ gjob[k].op \in {"update", "drop", "delete"} /\ at = gjob[k].at
      /\ permission' = permission /\ standing' = standing /\ made' = made /\ roles' = roles
      /\ roles' \subseteq roles \cup {at}
  BY <1>1, <1>2
<1>7. PICK gone : gone = j.list \ j.old
  OBVIOUS
<1>8. ASSUME j.alone, at \in roles \ upset
      PROVE  HasMeant(at, gone)
  BY <1>1, <1>2, <1>7, <1>8 DEF RolesInv, DropsAsAsked
<1>9. CASE j.old = {p}
  <2>1. /\ meant' = [meant EXCEPT ![at] = @ \ j.list]
        /\ upset' = IF j.alone THEN upset ELSE upset \cup {at}
        /\ GDone(k)
    BY <1>1, <1>3, <1>9 DEF DropOne, Upset
  <2>2. /\ gjob'[k] = IdleGJob /\ \A i \in Clerks : i # k => gjob'[i] = gjob[i]
    BY <2>1 DEF GDone, RolesInv, RolesTypeOK
  <2>5. /\ meant' \in [Rows -> SUBSET Rows] /\ meant'[at] = meant[at] \ j.list
        /\ \A r \in Rows : r # at => meant'[r] = meant[r]
    BY <1>3, <2>1
  <2>6. Unlinked \subseteq Unlinked'
    <3>2. gjob[k].phase # "unlinked"
      BY <1>1, <1>2, <1>3 DEF GJobOK
    <3>3. QED
      BY <2>2, <3>2, UnlinkedAfter
  <2>7. ASSUME at \in roles' \ upset'
        PROVE  HasMeant(at, {})'
    <3>1. j.alone /\ at \in roles \ upset
      BY <1>6, <2>1, <2>7
    <3>2. HasMeant(at, gone)
      BY <1>8, <3>1
    <3>3. /\ Granted(at) \subseteq meant[at] \ gone
          /\ (meant[at] \ gone) \ Unlinked \subseteq Granted(at)
      BY <3>2 DEF HasMeant
    <3>4. Granted(at)' \subseteq meant'[at]
      BY <1>4, <1>7, <1>9, <2>5, <3>3
    <3>5. meant'[at] \ Unlinked' \subseteq Granted(at)'
      BY <1>3a, <1>4, <1>7, <1>9, <2>5, <2>6, <3>3
    <3>6. QED
      BY <3>4, <3>5 DEF HasMeant
  <2>8. at \in roles' \ upset' => HasMeant(at, {})'
    BY <2>7
  <2>9. upset' \subseteq upset \cup {at} /\ upset \subseteq upset' \cup {at}
    BY <2>1
  <2>10. \A r : r # at => Granted(r)' = Granted(r)
    BY <1>4
  <2>11. ChangesOnly(k, at)
    BY <1>5, <1>6, <2>5, <2>9, <2>10 DEF ChangesOnly
  <2>12. IsOver(IdleGJob, at)
    BY <2>8 DEF IsOver
  <2>13. gjob' = [gjob EXCEPT ![k] = IdleGJob]
    BY <2>1 DEF GDone
  <2>14. QED
    BY <2>11, <2>12, <2>13, RoleStepOn
<1>10. CASE j.old # {p}
  <2>1. /\ gjob' = [gjob EXCEPT ![k].old = @ \ {p}, ![k].phase = "cleared"]
        /\ meant' = meant /\ upset' = upset
    BY <1>1, <1>10 DEF DropOne
  <2>2. PICK new : new = [j EXCEPT !.old = j.old \ {p}, !.phase = "cleared"]
    OBVIOUS
  <2>3. /\ new \in GJob /\ new.op = "drop" /\ new.phase = "cleared" /\ new.about = {at}
        /\ new.at = at /\ new.old = j.old \ {p} /\ new.list = j.list /\ new.alone = j.alone
        /\ new.about # {}
    <3>1. j.old \ {p} \in SUBSET Rows
      BY <1>3
    <3>2. QED
      BY <1>2, <1>3, <2>2, <3>1 DEF GJob
  <2>4. gjob' = [gjob EXCEPT ![k] = new]
    BY <1>1, <2>1, <2>2 DEF RolesInv, RolesTypeOK
  <2>5. GJobOK(new)
    BY <1>2, <1>3, <1>3a, <2>3 DEF GJobOK
  <2>6. Unlinked \subseteq Unlinked'
    <3>1. /\ gjob'[k] = new
          /\ \A i \in Clerks : i # k => gjob'[i] = gjob[i]
      BY <2>3, <2>4, RolesOthersStay
    <3>2. gjob[k].phase # "unlinked"
      BY <1>1, <1>2, <1>3 DEF GJobOK
    <3>3. QED
      BY <3>1, <3>2, UnlinkedAfter
  <2>7. ASSUME new.alone, new.at \in roles' \ upset'
        PROVE  \E r, set : r = new.at /\ set = new.list \ new.old /\ HasMeant(r, set)'
    <3>1. HasMeant(at, gone)
      BY <1>6, <1>8, <2>1, <2>3, <2>7
    <3>2. /\ Granted(at) \subseteq meant[at] \ gone
          /\ (meant[at] \ gone) \ Unlinked \subseteq Granted(at)
      BY <3>1 DEF HasMeant
    <3>3. PICK set : set = new.list \ new.old
      OBVIOUS
    <3>4. set \subseteq gone \cup {p} /\ gone \subseteq set
      BY <1>7, <2>3, <3>3
    <3>5. Granted(at)' \subseteq meant'[at] \ set
      BY <1>4, <2>1, <3>2, <3>4
    <3>6. (meant'[at] \ set) \ Unlinked' \subseteq Granted(at)'
      <4>1. p \in set
        BY <1>3a, <2>3, <3>3
      <4>2. QED
        BY <1>4, <2>1, <2>6, <3>2, <3>4, <4>1
    <3>7. HasMeant(at, set)'
      BY <3>5, <3>6 DEF HasMeant
    <3>8. QED
      BY <2>3, <3>3, <3>7
  <2>8. ChangesOnly(k, at)
    BY <1>3, <1>4, <1>5, <1>6, <2>1 DEF ChangesOnly
  <2>9. new.alone => gjob[k].alone
    BY <1>1, <2>3
  <2>10. GoesOn(k, new, at)
    BY <2>3, <2>5, <2>7, <2>9 DEF GoesOn
  <2>11. QED
    BY <2>4, <2>8, <2>10, RoleStepOn
<1>11. QED
  BY <1>9, <1>10

LEMMA DeleteRoleClearKeeps ==
    ASSUME RolesInv, NEW k \in Clerks, DeleteRoleClear(k), inUse' = inUse
    PROVE  RolesInv'
<1>1. PICK j, at : j = gjob[k] /\ at = gjob[k].at
  OBVIOUS
<1>2. /\ j.op = "delete" /\ j.phase = "loaded" /\ grants' = Stripped(at, j.old)
      /\ gjob' = [gjob EXCEPT ![k].phase = "cleared"]
      /\ UNCHANGED <<permission, standing, made, roles, meant, upset>>
  BY <1>1 DEF DeleteRoleClear
<1>3. /\ j \in GJob /\ GJobOK(j) /\ at \in Rows /\ j.about = {at} /\ j.at = at
      /\ grants \subseteq roles \X standing /\ meant \in [Rows -> SUBSET Rows]
  BY <1>1, <1>2, RoleRequest
<1>4. PICK new : new = [j EXCEPT !.phase = "cleared"]
  OBVIOUS
<1>5. /\ new \in GJob /\ new.op = "delete" /\ new.phase = "cleared" /\ new.about = {at}
      /\ new.at = at /\ new.alone = j.alone
  BY <1>2, <1>3, <1>4 DEF GJob
<1>6. gjob' = [gjob EXCEPT ![k] = new]
  BY <1>1, <1>2, <1>4 DEF RolesInv, RolesTypeOK
<1>7. GJobOK(new)
  BY <1>2, <1>3, <1>5 DEF GJobOK
<1>8. /\ grants' \subseteq grants
      /\ \A r : r # at => Granted(r)' = Granted(r)
  BY <1>2, GrantsStripped
<1>9. grants' \subseteq roles' \X standing
  BY <1>2, <1>3, <1>8
<1>10. /\ gjob[k].op \in {"update", "drop", "delete"} /\ at = gjob[k].at
       /\ gjob[k].alone = j.alone
  BY <1>1, <1>2
<1>11. ChangesOnly(k, at)
  BY <1>2, <1>3, <1>8, <1>9, <1>10 DEF ChangesOnly
<1>12. GoesOn(k, new, at)
  BY <1>5, <1>7, <1>10 DEF GoesOn
<1>13. QED
  BY <1>6, <1>11, <1>12, RoleStepOn

LEMMA DeleteRoleKeeps ==
    ASSUME RolesInv, NEW k \in Clerks, DeleteRole(k), inUse' = inUse
    PROVE  RolesInv'
<1>1. PICK j, at : j = gjob[k] /\ at = gjob[k].at
  OBVIOUS
<1>2. /\ j.op = "delete" /\ roles' = roles \ {at} /\ grants' = Stripped(at, Rows)
      /\ meant' = [meant EXCEPT ![at] = {}]
      /\ upset' = Upset(j) /\ GDone(k)
      /\ UNCHANGED <<permission, standing, made>>
  BY <1>1 DEF DeleteRole
<1>3. /\ at \in Rows /\ j.about = {at}
      /\ grants \subseteq roles \X standing /\ meant \in [Rows -> SUBSET Rows]
  BY <1>1, <1>2, RoleRequest
<1>4. /\ grants' \subseteq grants
      /\ \A r : r # at => Granted(r)' = Granted(r)
  BY <1>2, GrantsStripped
<1>5. grants' \subseteq roles' \X standing
  <2>1. standing \subseteq Rows
    BY RolesFacts
  <2>2. \A g \in grants' : g \in roles \X standing /\ g \notin {at} \X Rows
    BY <1>2, <1>3 DEF Stripped
  <2>3. QED
    BY <1>2, <2>1, <2>2
<1>6. /\ meant' \in [Rows -> SUBSET Rows]
      /\ \A r \in Rows : r # at => meant'[r] = meant[r]
  BY <1>2, <1>3
<1>7. upset' \subseteq upset \cup {at} /\ upset \subseteq upset' \cup {at}
  BY <1>2, <1>3 DEF Upset
<1>8. gjob[k].op \in {"update", "drop", "delete"} /\ at = gjob[k].at
  BY <1>1, <1>2
<1>9. ChangesOnly(k, at)
  BY <1>2, <1>4, <1>5, <1>6, <1>7, <1>8 DEF ChangesOnly
<1>10. IsOver(IdleGJob, at)
  BY <1>2 DEF IsOver
<1>11. gjob' = [gjob EXCEPT ![k] = IdleGJob]
  BY <1>2 DEF GDone
<1>12. QED
  BY <1>9, <1>10, <1>11, RoleStepOn

\* A new role has no permissions but those that it is created with.
LEMMA CreateRoleKeeps ==
    ASSUME RolesInv, NEW k \in Clerks, CreateRoleSave(k), inUse' = inUse
    PROVE  RolesInv'
<1>1. PICK n, list : n = made + 1 /\ list = gjob[k].list
  OBVIOUS
<1>2. /\ gjob[k].op = "role" /\ made < MaxRoles /\ list \subseteq standing
      /\ made' = n /\ roles' = roles \cup {n} /\ grants' = grants \cup ({n} \X list)
      /\ meant' = [meant EXCEPT ![n] = list]
      /\ GDone(k) /\ UNCHANGED <<permission, standing, upset>>
  BY <1>1 DEF CreateRoleSave
<1>3. n \in Rows /\ n \notin roles /\ n \in Nat
  BY <1>1, <1>2, RolesFacts, PartiesAssumption, RolesAssumption
     DEF RolesInv, RolesTypeOK, Rows
<1>4. list \in SUBSET Rows /\ Granted(n) = {}
  BY <1>2, <1>3, RolesFacts
<1>5. /\ \A r : r # n => Granted(r)' = Granted(r)
      /\ Granted(n)' = list
  <2>1. PICK set \in SUBSET Rows : set = list
    BY <1>4
  <2>2. grants' = grants \cup ({n} \X set)
    BY <1>2, <2>1
  <2>3. /\ \A r : r # n => Granted(r)' = Granted(r)
        /\ Granted(n)' = Granted(n) \cup set
    BY <2>2, GrantsAdded
  <2>4. QED
    BY <1>4, <2>1, <2>3
<1>6. PICK new : new = IdleGJob
  OBVIOUS
<1>7. /\ gjob' = [gjob EXCEPT ![k] = new] /\ new \in GJob /\ GJobOK(new)
      /\ new.about = {} /\ new.op = "none" /\ new.phase = "idle"
  BY <1>2, <1>6, IdleGJobType DEF GDone, GJobOK
<1>8. /\ gjob'[k] = new /\ \A i \in Clerks : i # k => gjob'[i] = gjob[i]
  BY <1>7, RolesOthersStay
<1>9. gjob[k].about = {} /\ gjob[k].phase # "unlinked"
  <2>1. GJobOK(gjob[k])
    BY RolesFacts
  <2>2. QED
    BY <1>2, <2>1 DEF GJobOK
<1>10. Unlinked \subseteq Unlinked' /\ Begun \subseteq Begun'
  BY <1>8, <1>9, UnlinkedAfter, BegunAfter
<1>11. /\ permission' \in Seq(Routes) /\ Len(permission') <= MaxRows
       /\ Len(permission) <= Len(permission')
       /\ standing' \subseteq DOMAIN permission' /\ upset' \subseteq Rows
  BY <1>2, RolesFacts DEF RolesInv, RolesTypeOK
<1>12. /\ made' \in made .. MaxRoles /\ roles' \subseteq 1 .. made'
       /\ grants' \subseteq roles' \X standing'
  <2>1. /\ made \in Nat /\ roles \subseteq 1 .. made /\ grants \subseteq roles \X standing
    BY RolesFacts DEF RolesInv, RolesTypeOK
  <2>2. MaxRoles \in Nat /\ made' = made + 1 /\ made < MaxRoles
    BY <1>1, <1>2, PartiesAssumption, RolesAssumption
  <2>3. made' \in made .. MaxRoles
    BY <2>1, <2>2
  <2>4. roles' \subseteq 1 .. made'
    <3>1. roles' = roles \cup {made + 1}
      BY <1>1, <1>2
    <3>2. QED
      BY <2>1, <2>2, <3>1
  <2>5. grants' \subseteq roles' \X standing'
    BY <1>2, <2>1
  <2>6. QED
    BY <2>3, <2>4, <2>5
<1>13. /\ meant' \in [Rows -> SUBSET Rows] /\ meant'[n] = list
       /\ \A r \in Rows : r # n => meant'[r] = meant[r]
  BY <1>2, <1>3, <1>4 DEF RolesInv, RolesTypeOK
<1>14. ASSUME NEW r \in Rows, r \notin {n}
       PROVE  KeptRole(r)
  <2>1. Granted(r)' = Granted(r) /\ meant'[r] = meant[r]
    BY <1>5, <1>13, <1>14
  <2>2. r \in roles' \ upset' => r \in roles \ upset
    BY <1>2, <1>14
  <2>3. QED
    BY <1>10, <2>1, <2>2, RoleKept
<1>15. HasMeant(n, {})'
  BY <1>5, <1>13 DEF HasMeant
<1>16. ASSUME NEW i \in Clerks, gjob[i].op \in {"update", "drop"}
       PROVE  gjob[i].at \notin {n}
  <2>1. GJobOK(gjob[i])
    BY RolesFacts
  <2>2. gjob[i].at \in 1 .. made
    BY <1>16, <2>1 DEF GJobOK
  <2>3. QED
    BY <1>1, <2>2, RolesFacts
<1>17. PICK changed : changed = {n}
  OBVIOUS
<1>18. /\ Begun \subseteq Begun' \cup changed
       /\ \A i \in Clerks : i # k /\ gjob[i].op \in {"update", "drop"} /\ gjob[i].alone
                            => gjob[i].at \notin changed
       /\ \A r \in Rows : r \notin changed => KeptRole(r)
       /\ \A r \in changed : r \in roles' \ (upset' \cup Begun') => HasMeant(r, {})'
  BY <1>10, <1>14, <1>15, <1>16, <1>17
<1>19. new.about \subseteq gjob[k].about /\ (new.alone => gjob[k].alone \/ new.about = {})
  BY <1>7
<1>20. QED
  BY <1>7, <1>11, <1>12, <1>13, <1>18, <1>19, RoleStepKeeps

\* A step that changes permissions, and roles only by taking permissions away.
StepsAside(k, new) ==
    /\ inUse' = inUse
    /\ new \in GJob /\ GJobOK(new) /\ new.op \notin {"update", "drop"}
    /\ new.about \subseteq gjob[k].about
    /\ new.alone => gjob[k].alone \/ new.about = {}
    /\ permission' \in Seq(Routes) /\ Len(permission') <= MaxRows
    /\ Len(permission) <= Len(permission') /\ standing' \subseteq DOMAIN permission'
    /\ made' = made /\ roles' = roles /\ grants' \subseteq roles \X standing'
    /\ meant' \in [Rows -> SUBSET Rows] /\ upset' \subseteq Rows
    /\ Begun \subseteq Begun'

LEMMA RoleStepAside ==
    ASSUME RolesInv, NEW k \in Clerks, NEW new, gjob' = [gjob EXCEPT ![k] = new],
           StepsAside(k, new), \A r \in Rows : KeptRole(r)
    PROVE  RolesInv'
<1>1. PICK changed : changed = {}
  OBVIOUS
<1>2. made' \in made .. MaxRoles /\ roles' \subseteq 1 .. made'
  BY RolesFacts, PartiesAssumption, RolesAssumption DEF RolesInv, RolesTypeOK, StepsAside
<1>3. /\ inUse' = inUse
      /\ new \in GJob /\ GJobOK(new) /\ new.op \notin {"update", "drop"}
      /\ new.about \subseteq gjob[k].about
      /\ new.alone => gjob[k].alone \/ new.about = {}
      /\ permission' \in Seq(Routes) /\ Len(permission') <= MaxRows
      /\ Len(permission) <= Len(permission') /\ standing' \subseteq DOMAIN permission'
      /\ grants' \subseteq roles' \X standing'
      /\ meant' \in [Rows -> SUBSET Rows] /\ upset' \subseteq Rows
  BY DEF StepsAside
<1>4. /\ Begun \subseteq Begun' \cup changed
      /\ \A i \in Clerks : i # k /\ gjob[i].op \in {"update", "drop"} /\ gjob[i].alone
                           => gjob[i].at \notin changed
      /\ \A r \in Rows : r \notin changed => KeptRole(r)
      /\ \A r \in changed : r \in roles' \ (upset' \cup Begun') => HasMeant(r, {})'
  BY <1>1 DEF StepsAside
<1>5. new.op # "update" /\ new.op # "drop"
  BY <1>3
<1>6. QED
  BY <1>2, <1>3, <1>4, <1>5, RoleStepKeeps

\* Rows of permissions are inserted or changed.
LEMMA PermissionsChange ==
    ASSUME RolesInv, NEW k \in Clerks, GDone(k), inUse' = inUse,
           gjob[k].op \in {"insert", "edit"},
           permission' \in Seq(Routes), Len(permission') <= MaxRows,
           Len(permission) <= Len(permission'),
           standing \subseteq standing', standing' \subseteq DOMAIN permission',
           UNCHANGED <<made, roles, grants, meant, upset>>
    PROVE  RolesInv'
<1>1. PICK new : new = IdleGJob
  OBVIOUS
<1>2. /\ gjob' = [gjob EXCEPT ![k] = new] /\ new \in GJob /\ GJobOK(new)
      /\ new.about = {} /\ new.op = "none"
  BY <1>1, IdleGJobType DEF GDone, GJobOK
<1>3. /\ gjob'[k] = new /\ \A i \in Clerks : i # k => gjob'[i] = gjob[i]
  BY <1>2, RolesOthersStay
<1>4. gjob[k].about = {} /\ gjob[k].phase # "unlinked"
  <2>1. GJobOK(gjob[k])
    BY RolesFacts
  <2>2. QED
    BY <2>1 DEF GJobOK
<1>5. Unlinked \subseteq Unlinked' /\ Begun \subseteq Begun'
  BY <1>3, <1>4, UnlinkedAfter, BegunAfter
<1>6. grants' \subseteq roles \X standing' /\ meant' \in [Rows -> SUBSET Rows]
      /\ upset' \subseteq Rows
  BY DEF RolesInv, RolesTypeOK
<1>7. \A r : Granted(r)' = Granted(r)
  BY DEF Granted
<1>8. \A r \in Rows : KeptRole(r)
  BY <1>5, <1>7, RoleKept
<1>9. StepsAside(k, new)
  BY <1>2, <1>5, <1>6 DEF StepsAside
<1>10. QED
  BY <1>2, <1>8, <1>9, RoleStepAside

LEMMA PermissionsInsertKeeps ==
    ASSUME RolesInv, NEW k \in Clerks, PermissionsInsert(k), inUse' = inUse
    PROVE  RolesInv'
<1>1. PICK routes, n : routes = gjob[k].routes /\ n = Cardinality(routes)
  OBVIOUS
<1>2. /\ gjob[k].op = "insert" /\ Len(permission) + n <= inUse.rows
      /\ \E new \in [1 .. n -> routes] : permission' = permission \o new
      /\ standing' = standing \cup (Len(permission) + 1 .. Len(permission) + n)
      /\ GDone(k) /\ UNCHANGED <<made, roles, grants, meant, upset>>
  BY <1>1 DEF PermissionsInsert
<1>3. n \in Nat /\ routes \subseteq Routes
  <2>1. routes \subseteq Routes
    BY <1>1, RolesFacts DEF GJob
  <2>2. QED
    BY <1>1, <2>1, RolesAssumption, FS_Subset, FS_CardinalityType
<1>4. PICK new \in [1 .. n -> routes] : permission' = permission \o new
  BY <1>2
<1>5. new \in Seq(Routes) /\ Len(new) = n
  <2>1. new \in [1 .. n -> Routes]
    BY <1>3
  <2>2. QED
    BY <1>3, <2>1, TableOf
<1>6. permission \in Seq(Routes) /\ standing \subseteq DOMAIN permission
  BY DEF RolesInv, RolesTypeOK
<1>7. /\ permission' \in Seq(Routes) /\ Len(permission') = Len(permission) + n
      /\ DOMAIN permission' = 1 .. (Len(permission) + n)
  <2>1. permission' \in Seq(Routes) /\ Len(permission') = Len(permission) + n
    BY <1>4, <1>5, <1>6, ConcatProperties
  <2>2. QED
    BY <2>1, TableDomain
<1>8. /\ Len(permission') <= MaxRows /\ Len(permission) <= Len(permission')
      /\ standing \subseteq standing' /\ standing' \subseteq DOMAIN permission'
  <2>1. inUse.rows \in 0 .. MaxRows
    BY PartiesAssumption DEF RolesInv
  <2>2. Len(permission') <= MaxRows /\ Len(permission) <= Len(permission')
    BY <1>2, <1>3, <1>7, <2>1, RolesFacts, PartiesAssumption
  <2>3. standing \subseteq 1 .. Len(permission)
    BY <1>6, RolesFacts
  <2>4. standing' \subseteq DOMAIN permission'
    <3>1. Len(permission) \in Nat
      BY RolesFacts
    <3>2. PICK m \in Nat : m = Len(permission)
      BY <3>1
    <3>3. 1 .. m \subseteq 1 .. (m + n) /\ m + 1 .. m + n \subseteq 1 .. (m + n)
      BY <1>3
    <3>4. QED
      BY <1>2, <1>7, <2>3, <3>2, <3>3
  <2>5. QED
    BY <1>2, <2>2, <2>4
<1>9. QED
  BY <1>2, <1>7, <1>8, PermissionsChange

LEMMA UpdatePermissionKeeps ==
    ASSUME RolesInv, NEW k \in Clerks, UpdatePermissionSave(k), inUse' = inUse
    PROVE  RolesInv'
<1>1. PICK routes, at : routes = gjob[k].routes /\ at = gjob[k].at
  OBVIOUS
<1>2. /\ gjob[k].op = "edit"
      /\ \E p \in routes : permission' = [permission EXCEPT ![at] = p]
      /\ standing' = standing \cup {at}
      /\ GDone(k) /\ UNCHANGED <<made, roles, grants, meant, upset>>
  BY <1>1 DEF UpdatePermissionSave
<1>3. at \in DOMAIN permission /\ routes \subseteq Routes
  <2>1. gjob[k] \in GJob /\ GJobOK(gjob[k])
    BY RolesFacts
  <2>2. QED
    BY <1>1, <1>2, <2>1 DEF GJob, GJobOK
<1>4. PICK p \in Routes : permission' = [permission EXCEPT ![at] = p]
  BY <1>2, <1>3
<1>5. permission \in Seq(Routes) /\ standing \subseteq DOMAIN permission
  BY DEF RolesInv, RolesTypeOK
<1>6. /\ permission' \in Seq(Routes) /\ Len(permission') = Len(permission)
      /\ DOMAIN permission' = DOMAIN permission
  BY <1>3, <1>4, <1>5, RolesFacts
<1>7. /\ Len(permission') <= MaxRows /\ Len(permission) <= Len(permission')
  BY <1>6, RolesFacts DEF RolesInv, RolesTypeOK
<1>8. standing \subseteq standing' /\ standing' \subseteq DOMAIN permission'
  BY <1>2, <1>3, <1>5, <1>6
<1>9. QED
  BY <1>2, <1>6, <1>7, <1>8, PermissionsChange

LEMMA UnlinkKeeps ==
    ASSUME RolesInv, NEW k \in Clerks, RemovePermissionUnlink(k), inUse' = inUse
    PROVE  RolesInv'
<1>1. PICK j, at, routes : j = gjob[k] /\ at = gjob[k].at /\ routes = gjob[k].routes
  OBVIOUS
<1>2. /\ j.op = "remove" /\ j.phase = "loaded"
      /\ grants' = {g \in grants : g[2] # at}
      /\ standing' = standing \cup {at}
      /\ \E p \in routes : permission' = [permission EXCEPT ![at] = p]
      /\ gjob' = [gjob EXCEPT ![k].phase = "unlinked"]
      /\ UNCHANGED <<made, roles, meant, upset>>
  BY <1>1 DEF RemovePermissionUnlink
<1>3. /\ j \in GJob /\ GJobOK(j) /\ at \in DOMAIN permission /\ routes \subseteq Routes
  <2>1. j \in GJob /\ GJobOK(j)
    BY <1>1, RolesFacts
  <2>2. QED
    BY <1>1, <1>2, <2>1 DEF GJob, GJobOK
<1>4. PICK p \in Routes : permission' = [permission EXCEPT ![at] = p]
  BY <1>2, <1>3
<1>5. permission \in Seq(Routes) /\ standing \subseteq DOMAIN permission
  BY DEF RolesInv, RolesTypeOK
<1>6. /\ permission' \in Seq(Routes) /\ Len(permission') = Len(permission)
      /\ DOMAIN permission' = DOMAIN permission
  BY <1>3, <1>4, <1>5, RolesFacts
<1>7. /\ Len(permission') <= MaxRows /\ Len(permission) <= Len(permission')
  BY <1>6, RolesFacts DEF RolesInv, RolesTypeOK
<1>8. standing' \subseteq DOMAIN permission'
  BY <1>2, <1>3, <1>5, <1>6
<1>9. PICK new : new = [j EXCEPT !.phase = "unlinked"]
  OBVIOUS
<1>10. /\ new \in GJob /\ new.op = "remove" /\ new.phase = "unlinked" /\ new.at = at
       /\ new.about = j.about /\ new.alone = j.alone
  BY <1>1, <1>2, <1>3, <1>9 DEF GJob
<1>11. gjob' = [gjob EXCEPT ![k] = new]
  BY <1>1, <1>2, <1>9 DEF RolesInv, RolesTypeOK
<1>12. GJobOK(new)
  BY <1>2, <1>3, <1>10 DEF GJobOK
<1>13. /\ gjob'[k] = new /\ \A i \in Clerks : i # k => gjob'[i] = gjob[i]
  BY <1>10, <1>11, RolesOthersStay
<1>14. /\ Unlinked \subseteq Unlinked' /\ at \in Unlinked' /\ Begun \subseteq Begun'
  <2>1. gjob[k].phase # "unlinked" /\ gjob[k].op = "remove"
    BY <1>1, <1>2
  <2>2. QED
    BY <1>10, <1>13, <2>1, UnlinkedAfter, BegunAfter
<1>15. /\ grants' \subseteq roles \X standing' /\ meant' \in [Rows -> SUBSET Rows]
       /\ upset' \subseteq Rows
  BY <1>2 DEF RolesInv, RolesTypeOK
<1>16. \A r : Granted(r)' = Granted(r) \ {at}
  BY <1>2 DEF Granted
<1>17. \A r \in Rows : KeptRole(r)
  BY <1>2, <1>14, <1>16, RoleKept
<1>18. /\ new.about \subseteq gjob[k].about
       /\ new.alone => gjob[k].alone \/ new.about = {}
  BY <1>1, <1>10
<1>19. StepsAside(k, new)
  BY <1>2, <1>6, <1>7, <1>8, <1>10, <1>12, <1>14, <1>15, <1>18 DEF StepsAside
<1>20. QED
  BY <1>11, <1>17, <1>19, RoleStepAside

\* No role has a permission that is deleted.
LEMMA RemovePermissionKeeps ==
    ASSUME RolesInv, NEW k \in Clerks, RemovePermissionDelete(k), inUse' = inUse
    PROVE  RolesInv'
<1>1. PICK j, at : j = gjob[k] /\ at = gjob[k].at
  OBVIOUS
<1>2. /\ j.op = "remove"
      /\ \A r \in roles : at \notin Granted(r)
      /\ standing' = standing \ {at}
      /\ meant' = [r \in Rows |-> meant[r] \ {at}]
      /\ upset' = Upset(j) /\ GDone(k)
      /\ UNCHANGED <<permission, made, roles, grants>>
  BY <1>1 DEF RemovePermissionDelete
<1>3. /\ j \in GJob /\ j.about \subseteq Rows
  BY <1>1, RolesFacts DEF GJob
<1>4. PICK new : new = IdleGJob
  OBVIOUS
<1>5. /\ gjob' = [gjob EXCEPT ![k] = new] /\ new \in GJob /\ GJobOK(new)
      /\ new.about = {} /\ new.op = "none"
  BY <1>2, <1>4, IdleGJobType DEF GDone, GJobOK
<1>6. /\ gjob'[k] = new /\ \A i \in Clerks : i # k => gjob'[i] = gjob[i]
  BY <1>5, RolesOthersStay
<1>7. Unlinked \subseteq Unlinked' \cup {at} /\ Begun \subseteq Begun'
  <2>1. gjob[k].op = "remove"
    BY <1>1, <1>2
  <2>2. QED
    BY <1>1, <1>6, <2>1, UnlinkedAfter, BegunAfter
<1>8. \A r : Granted(r)' = Granted(r)
  BY <1>2 DEF Granted
<1>9. /\ permission' \in Seq(Routes) /\ Len(permission') <= MaxRows
      /\ Len(permission) <= Len(permission') /\ standing' \subseteq DOMAIN permission'
  BY <1>2, RolesFacts DEF RolesInv, RolesTypeOK
<1>10. grants' \subseteq roles \X standing'
  <2>1. grants \subseteq roles \X standing /\ standing \subseteq Rows
    BY RolesFacts DEF RolesInv, RolesTypeOK
  <2>2. \A r \in roles : <<r, at>> \notin grants
    BY <1>2, <2>1 DEF Granted
  <2>3. QED
    BY <1>2, <2>1, <2>2
<1>11. /\ meant' \in [Rows -> SUBSET Rows]
       /\ \A r \in Rows : meant'[r] = meant[r] \ {at}
  BY <1>2, RolesFacts
<1>12. upset' \subseteq Rows /\ upset \subseteq upset'
  BY <1>2, <1>3 DEF Upset, RolesInv, RolesTypeOK
<1>13. ASSUME NEW r \in Rows
       PROVE  KeptRole(r)
  <2>1. r \in roles' \ upset' => r \in roles \ upset /\ at \notin Granted(r)
    BY <1>2, <1>12
  <2>2. QED
    BY <1>7, <1>8, <1>11, <2>1, RoleKept
<1>14. StepsAside(k, new)
  BY <1>2, <1>5, <1>7, <1>9, <1>10, <1>11, <1>12 DEF StepsAside
<1>15. QED
  BY <1>5, <1>13, <1>14, RoleStepAside

\* A request that stops half way leaves its roles upset.
LEMMA GAbortKeeps ==
    ASSUME RolesInv, NEW k \in Clerks, GAbort(k), inUse' = inUse
    PROVE  RolesInv'
<1>1. PICK j, at : j = gjob[k] /\ at = gjob[k].at
  OBVIOUS
<1>2. PICK left : left = IF j.op = "remove" THEN {r \in Rows : at \in meant[r]} ELSE {}
  OBVIOUS
<1>3. /\ upset' = IF j.phase = "loaded" THEN upset ELSE upset \cup j.about \cup left
      /\ GDone(k)
      /\ UNCHANGED <<permission, standing, made, roles, grants, meant>>
  BY <1>1, <1>2 DEF GAbort
<1>4. /\ j \in GJob /\ GJobOK(j) /\ j.about \subseteq Rows /\ left \subseteq Rows
  BY <1>1, <1>2, RolesFacts DEF GJob
<1>5. PICK new : new = IdleGJob
  OBVIOUS
<1>6. /\ gjob' = [gjob EXCEPT ![k] = new] /\ new \in GJob /\ GJobOK(new)
      /\ new.about = {} /\ new.op = "none"
  BY <1>3, <1>5, IdleGJobType DEF GDone, GJobOK
<1>7. /\ gjob'[k] = new /\ \A i \in Clerks : i # k => gjob'[i] = gjob[i]
  BY <1>6, RolesOthersStay
<1>8. /\ Unlinked \subseteq Unlinked' \cup {at}
      /\ j.phase # "unlinked" => Unlinked \subseteq Unlinked'
      /\ Begun \subseteq Begun' \cup j.about
      /\ j.op = "remove" \/ j.phase = "loaded" => Begun \subseteq Begun'
  BY <1>1, <1>7, UnlinkedAfter, BegunAfter
<1>9. \A r : Granted(r)' = Granted(r)
  BY <1>3 DEF Granted
<1>10. /\ permission' \in Seq(Routes) /\ Len(permission') <= MaxRows
       /\ Len(permission) <= Len(permission') /\ standing' \subseteq DOMAIN permission'
       /\ grants' \subseteq roles \X standing' /\ meant' \in [Rows -> SUBSET Rows]
       /\ meant' = meant
  BY <1>3, RolesFacts DEF RolesInv, RolesTypeOK
<1>11. upset' \subseteq Rows /\ upset \subseteq upset'
  BY <1>3, <1>4 DEF RolesInv, RolesTypeOK
<1>12. ASSUME NEW r \in Rows
       PROVE  KeptRole(r)
  <2>1. r \in roles' \ upset' => r \in roles \ upset
    BY <1>3, <1>11
  <2>2. CASE j.phase = "unlinked"
    <3>1. j.op = "remove"
      BY <1>4, <2>2 DEF GJobOK
    <3>2. r \notin upset' => at \notin meant[r]
      BY <1>2, <1>3, <2>2, <3>1
    <3>3. QED
      BY <1>8, <1>9, <1>10, <2>1, <3>2, RoleKept
  <2>3. CASE j.phase # "unlinked"
    BY <1>8, <1>9, <1>10, <2>1, <2>3, RoleKept
  <2>4. QED
    BY <2>2, <2>3
<1>13. CASE j.op = "remove" \/ j.phase = "loaded"
  <2>1. StepsAside(k, new)
    BY <1>3, <1>6, <1>8, <1>10, <1>11, <1>13 DEF StepsAside
  <2>2. QED
    BY <1>6, <1>12, <2>1, RoleStepAside
<1>14. CASE j.op \in {"none", "insert", "edit", "role"}
  <2>1. Begun \subseteq Begun'
    <3>1. j.about = {}
      BY <1>4, <1>14 DEF GJobOK
    <3>2. QED
      BY <1>8, <3>1
  <2>2. StepsAside(k, new)
    BY <1>3, <1>6, <1>10, <1>11, <2>1 DEF StepsAside
  <2>3. QED
    BY <1>6, <1>12, <2>2, RoleStepAside
<1>15. CASE j.op \in {"update", "drop", "delete"} /\ j.phase # "loaded"
  <2>1. /\ j.about = {at} /\ left = {}
    BY <1>1, <1>2, <1>4, <1>15 DEF GJobOK
  <2>2. upset' = upset \cup {at}
    BY <1>3, <1>15, <2>1
  <2>3. ChangesOnly(k, at)
    BY <1>1, <1>3, <1>9, <1>10, <1>15, <2>2 DEF ChangesOnly
  <2>4. IsOver(IdleGJob, at)
    BY <2>2 DEF IsOver
  <2>5. gjob' = [gjob EXCEPT ![k] = IdleGJob]
    BY <1>3 DEF GDone
  <2>6. QED
    BY <2>3, <2>4, <2>5, RoleStepOn
<1>16. QED
  <2>1. j.op \in {"none", "insert", "edit", "remove", "role", "update", "drop", "delete"}
    BY <1>4 DEF GJob
  <2>2. QED
    BY <1>13, <1>14, <1>15, <2>1

\* Every step of roles and permissions keeps the invariant.
LEMMA RolesKept ==
    ASSUME RolesInv, GNext, inUse' = inUse
    PROVE  RolesInv'
<1>1. PICK k \in Clerks : PermissionController(k) \/ RoleController(k) \/ GAbort(k)
  BY DEF GNext
<1>2. CASE PermissionController(k)
  <2>1. \/ \/ \E p \in Routes :
                 CreatePermission(k, p) \/ \E i \in standing : UpdatePermissionLoad(k, i, p)
           \/ \E set \in SUBSET Routes : CreateManyPermissions(k, set)
           \/ \E i \in standing : RemovePermissionLoad(k, i)
        \/ PermissionsInsert(k) \/ UpdatePermissionSave(k)
        \/ RemovePermissionUnlink(k) \/ RemovePermissionDelete(k)
    BY <1>2 DEF PermissionController
  <2>2. CASE \/ \E p \in Routes :
                   CreatePermission(k, p) \/ \E i \in standing : UpdatePermissionLoad(k, i, p)
             \/ \E set \in SUBSET Routes : CreateManyPermissions(k, set)
             \/ \E i \in standing : RemovePermissionLoad(k, i)
    BY <2>2, PermissionLoadsKeep
  <2>3. CASE PermissionsInsert(k)
    BY <2>3, PermissionsInsertKeeps
  <2>4. CASE UpdatePermissionSave(k)
    BY <2>4, UpdatePermissionKeeps
  <2>5. CASE RemovePermissionUnlink(k)
    BY <2>5, UnlinkKeeps
  <2>6. CASE RemovePermissionDelete(k)
    BY <2>6, RemovePermissionKeeps
  <2>7. QED
    BY <2>1, <2>2, <2>3, <2>4, <2>5, <2>6
<1>3. CASE RoleController(k)
  <2>1. \/ \/ \E list \in SUBSET standing :
                 CreateRoleLoad(k, list) \/ \E r \in roles : UpdateRoleLoad(k, r, list)
                                                             \/ DropLoad(k, r, list)
           \/ \E r \in roles : DeleteRoleLoad(k, r)
        \/ \E p \in Rows : DropOne(k, p)
        \/ CreateRoleSave(k) \/ UpdateRoleSave(k) \/ UpdateRoleFind(k)
        \/ UpdateRoleClear(k) \/ UpdateRoleAdd(k) \/ DeleteRoleClear(k) \/ DeleteRole(k)
    BY <1>3 DEF RoleController
  <2>2. CASE \/ \E list \in SUBSET standing :
                   CreateRoleLoad(k, list) \/ \E r \in roles : UpdateRoleLoad(k, r, list)
                                                               \/ DropLoad(k, r, list)
             \/ \E r \in roles : DeleteRoleLoad(k, r)
    BY <2>2, RoleLoadsKeep
  <2>3. CASE \E p \in Rows : DropOne(k, p)
    BY <2>3, DropOneKeeps
  <2>4. CASE CreateRoleSave(k)
    BY <2>4, CreateRoleKeeps
  <2>5. CASE UpdateRoleSave(k)
    BY <2>5, UpdateRoleSaveKeeps
  <2>6. CASE UpdateRoleFind(k)
    BY <2>6, UpdateRoleFindKeeps
  <2>7. CASE UpdateRoleClear(k)
    BY <2>7, UpdateRoleClearKeeps
  <2>8. CASE UpdateRoleAdd(k)
    BY <2>8, UpdateRoleAddKeeps
  <2>9. CASE DeleteRoleClear(k)
    BY <2>9, DeleteRoleClearKeeps
  <2>10. CASE DeleteRole(k)
    BY <2>10, DeleteRoleKeeps
  <2>11. QED
    BY <2>1, <2>2, <2>3, <2>4, <2>5, <2>6, <2>7, <2>8, <2>9, <2>10
<1>4. CASE GAbort(k)
  BY <1>4, GAbortKeeps
<1>5. QED
  BY <1>1, <1>2, <1>3, <1>4

LEMMA RolesBegin == Init => RolesInv
<1>1. SUFFICES ASSUME Init PROVE RolesInv
  OBVIOUS
<1>2. /\ inUse \in Mixes /\ permission = <<>> /\ standing = {} /\ made = 0 /\ roles = {}
      /\ grants = {} /\ gjob = [k \in Clerks |-> IdleGJob]
      /\ meant = [r \in Rows |-> {}] /\ upset = {}
  BY <1>1 DEF Init, GInit
<1>3. RolesTypeOK
  <2>1. gjob \in [Clerks -> GJob] /\ meant \in [Rows -> SUBSET Rows]
    BY <1>2, IdleGJobType
  <2>2. permission \in Seq(Routes) /\ Len(permission) <= MaxRows
    BY <1>2, PartiesAssumption
  <2>3. QED
    BY <1>2, <2>1, <2>2, RolesAssumption, PartiesAssumption DEF RolesTypeOK
<1>4. \A k \in Clerks : GJobOK(gjob[k])
  BY <1>2, IdleGJobType DEF GJobOK
<1>5. AloneApart /\ UpdatesClear /\ DropsAsAsked
  BY <1>2, IdleGJobType DEF AloneApart, UpdatesClear, DropsAsAsked
<1>6. QED
  BY <1>2, <1>3, <1>4, <1>5 DEF RolesInv

\* The invariant of access control: between the statements of a request that is
\* alone about a role, the junction table has what was meant to be there but for
\* what the request has taken already (RoleService, PermissionService).
THEOREM RolesInvariant == Spec => []RolesInv
<1>1. Init => RolesInv
  BY RolesBegin
<1>2. RolesInv /\ inUse \in Mixes /\ [Next]_shopVars => RolesInv'
  <2>1. SUFFICES ASSUME RolesInv, [Next]_shopVars PROVE RolesInv'
    OBVIOUS
  <2>2. CASE GNext /\ UNCHANGED inUse
    BY <2>1, <2>2, RolesKept
  <2>3. CASE UNCHANGED <<inUse, roleVars>>
    BY <2>1, <2>3
       DEF roleVars, RolesInv, RolesTypeOK, GJobOK, AloneApart, UpdatesClear, Unlinked,
           HasMeant, DropsAsAsked, Begun, Granted
  <2>4. QED
    BY <2>1, <2>2, <2>3, RolesStep
<1>3. QED
  BY <1>1, <1>2, MixStays, PTL DEF Spec

\* A role has the permissions that its requests asked for, whatever requests
\* about other roles and permissions do meanwhile (create,
\* updatePermission_of_role, deleteRole_permission_of_role, deleteRole, remove).
THEOREM RolesAsAskedHolds == Spec => []RolesAsAsked
<1>1. RolesInv => RolesAsAsked
  <2>1. SUFFICES ASSUME RolesInv PROVE RolesAsAsked
    OBVIOUS
  <2>2. PICK inFlight, leaving :
           /\ inFlight = UNION {gjob[k].about : k \in {i \in GBusy : gjob[i].op # "remove"}}
           /\ leaving = {gjob[k].at : k \in {i \in GBusy : gjob[i].op = "remove"}}
    OBVIOUS
  <2>3. Begun \subseteq inFlight
    <3>1. ASSUME NEW k \in Clerks, gjob[k].op # "remove", NEW r \in gjob[k].about
          PROVE  r \in inFlight
      <4>1. GJobOK(gjob[k])
        BY <2>1, RolesFacts
      <4>2. k \in GBusy
        BY <3>1, <4>1 DEF GJobOK, GBusy
      <4>3. QED
        BY <2>2, <3>1, <4>2
    <3>2. QED
      BY <3>1 DEF Begun
  <2>4. Unlinked \subseteq leaving
    <3>1. ASSUME NEW k \in Clerks, gjob[k].phase = "unlinked"
          PROVE  gjob[k].at \in leaving
      <4>1. GJobOK(gjob[k])
        BY <2>1, RolesFacts
      <4>2. k \in GBusy /\ gjob[k].op = "remove"
        BY <3>1, <4>1 DEF GJobOK, GBusy
      <4>3. QED
        BY <2>2, <4>2
    <3>2. QED
      BY <3>1 DEF Unlinked
  <2>5. ASSUME NEW r \in roles \ (upset \cup inFlight)
        PROVE  Granted(r) \ leaving = meant[r] \ leaving
    <3>1. HasMeant(r, {})
      BY <2>1, <2>3 DEF RolesInv
    <3>2. QED
      BY <2>4, <3>1 DEF HasMeant
  <2>6. QED
    BY <2>2, <2>5 DEF RolesAsAsked
<1>2. QED
  BY <1>1, RolesInvariant, PTL

===============================================================================
