------------------------------ MODULE Reviews ------------------------------
(***************************************************************************)
(* Reviews and their pictures: ReviewService.                              *)
(*                                                                         *)
(* A picture is a row of ImagesVideo that names a file in the cloud store. *)
(* The file is uploaded first, by a request of its own.  update and        *)
(* removeHardReview go through the pictures that they have read: remove    *)
(* the file, then the row, one picture after the other, without a          *)
(* transaction.  update then inserts the pictures that the request names.  *)
(*                                                                         *)
(* Ratings and comments are left out, as is deletePicture's kind, the      *)
(* removal of an unused upload (removeFileByPublicId).                     *)
(***************************************************************************)
EXTENDS Parties

CONSTANTS
    Files,     \* files that were uploaded
    MaxReviews \* bounds the reviews that are ever inserted

ASSUME ReviewsAssumption == MaxReviews \in Nat

RJob == [phase: {"idle", "loaded", "bare"},
         op: {"none", "create", "updateReview", "removeHardReview"},
         review: 0 .. MaxReviews, todo: SUBSET Rows, at: SUBSET Rows,
         files: SUBSET Files]

IdleRJob == [phase |-> "idle", op |-> "none", review |-> 0, todo |-> {}, at |-> {},
             files |-> {}]

Picture == [review: 0 .. MaxReviews, file: Files]

VARIABLES
    written,  \* how many reviews were inserted
    reviews,  \* the numbers of the reviews that are still there
    shelved,  \* those of them with deletedAt
    picture,  \* the pictures that were inserted; a picture may lose its review
    shown,    \* the numbers of the pictures that are still there
    cloud,    \* the files in the cloud store
    rjob,     \* the requests in flight
    reused,   \* ghost: files that requests named next to a picture with them
    struck    \* ghost: pictures whose removal stopped after their file

reviewVars == <<written, reviews, shelved, picture, shown, cloud, rjob,
                reused, struck>>

---------------------------------------------------------------------------

PicturesOf(r) == {i \in shown : picture[i].review = r}

RDone(k) == rjob' = [rjob EXCEPT ![k] = IdleRJob]

\* A request names these files, others have named some already.
NameFiles(set) ==
    LET named == {picture[i].file : i \in DOMAIN picture} \cup UNION {rjob[k].files : k \in Clerks}
    IN  reused' = reused \cup (named \cap set)

\* createReview: the review, and then its pictures.
CreateReview(k, set) ==
    /\ Uses("createReview")
    /\ rjob[k].phase = "idle"
    /\ written < MaxReviews
    /\ written' = written + 1
    /\ reviews' = reviews \cup {written + 1}
    /\ rjob' = [rjob EXCEPT ![k] = [IdleRJob EXCEPT !.phase = "loaded", !.op = "create",
                                       !.review = written + 1, !.files = set]]
    /\ NameFiles(set)
    /\ UNCHANGED <<shelved, picture, shown, cloud, struck>>

\* updateReview with these files, and removeHardReview with none.
ReviewLoad(k, op, r, set) ==
    /\ Uses(op)
    /\ rjob[k].phase = "idle"
    /\ r \in reviews \ shelved
    /\ op = "removeHardReview" => set = {}
    /\ rjob' = [rjob EXCEPT ![k] = [phase |-> "loaded", op |-> op, review |-> r,
                                    todo |-> PicturesOf(r), at |-> {}, files |-> set]]
    /\ NameFiles(set)
    /\ UNCHANGED <<written, reviews, shelved, picture, shown, cloud, struck>>

\* To remove a file that is gone is no error.
RemoveFile(k, i) ==
    LET j == rjob[k] IN
    /\ j.phase = "loaded"
    /\ i \in j.todo
    /\ cloud' = cloud \ {picture[i].file}
    /\ rjob' = [rjob EXCEPT ![k].phase = "bare", ![k].at = {i}]
    /\ UNCHANGED <<written, reviews, shelved, picture, shown, reused, struck>>

\* Mutant: the row stays.
WithoutMutant(set, rows) == set

\* The rows of set but these.
Without(set, rows) == set \ rows

RemoveRow(k) ==
    LET j == rjob[k] IN
    /\ j.phase = "bare"
    /\ shown' = Without(shown, j.at)
    /\ rjob' = [rjob EXCEPT ![k].phase = "loaded", ![k].at = {}, ![k].todo = @ \ j.at]
    /\ UNCHANGED <<written, reviews, shelved, picture, cloud, reused, struck>>

\* A row names its review with cascade: true, which stores the copy of the
\* review: one that was deleted meanwhile is back.  update holds the review with the pictures it had
\* read, and to store that list as well cuts off the others.
AddPicture(k, f) ==
    LET j == rjob[k]
        others == PicturesOf(j.review)
    IN
    /\ j.phase = "loaded" /\ j.todo = {}
    /\ f \in j.files
    /\ HasRoom(picture)
    /\ \E cut \in IF j.op = "updateReview" THEN {{}, others} ELSE {{}} :
          picture' = Append([i \in DOMAIN picture |->
                                IF i \in cut THEN [picture[i] EXCEPT !.review = 0]
                                             ELSE picture[i]],
                            [review |-> j.review, file |-> f])
    /\ shown' = shown \cup {Len(picture) + 1}
    /\ reviews' = reviews \cup {j.review}
    /\ shelved' = shelved \ {j.review}
    /\ rjob' = [rjob EXCEPT ![k].files = @ \ {f}]
    /\ UNCHANGED <<written, cloud, reused, struck>>

\* The last statement; the pictures of a deleted review go with it.
ReviewDone(k) ==
    LET j == rjob[k] IN
    /\ j.phase = "loaded" /\ j.todo = {} /\ j.files = {}
    /\ IF j.op = "removeHardReview"
         THEN /\ reviews' = reviews \ {j.review}
              /\ shelved' = shelved \ {j.review}
              /\ shown' = Without(shown, PicturesOf(j.review))
         ELSE UNCHANGED <<reviews, shelved, shown>>
    /\ RDone(k)
    /\ UNCHANGED <<written, picture, cloud, reused, struck>>

\* remove: softRemove, which keeps the pictures.
ShelveReview(r) ==
    /\ Uses("removeReview")
    /\ r \in reviews \ shelved
    /\ shelved' = shelved \cup {r}
    /\ UNCHANGED <<written, reviews, picture, shown, cloud, rjob, reused, struck>>

\* The customer, the product or the order of the review is deleted.
CascadeReview(r) ==
    /\ Uses("removeReview")
    /\ r \in reviews
    /\ reviews' = reviews \ {r}
    /\ shelved' = shelved \ {r}
    /\ shown' = Without(shown, PicturesOf(r))
    /\ UNCHANGED <<written, picture, cloud, rjob, reused, struck>>

\* A statement or the removal of a file fails, or the server stops.
RAbort(k) ==
    /\ rjob[k].phase # "idle"
    /\ struck' = struck \cup rjob[k].at
    /\ RDone(k)
    /\ UNCHANGED <<written, reviews, shelved, picture, shown, cloud, reused>>

---------------------------------------------------------------------------

RInit ==
    /\ written = 0 /\ reviews = {} /\ shelved = {}
    /\ picture = <<>> /\ shown = {}
    /\ cloud = Files
    /\ rjob = [k \in Clerks |-> IdleRJob]
    /\ reused = {} /\ struck = {}

RNext ==
    \/ \E r \in reviews : ShelveReview(r) \/ CascadeReview(r)
    \/ \E k \in Clerks :
          \/ \E set \in SUBSET Files : CreateReview(k, set)
          \/ \E r \in reviews, op \in {"updateReview", "removeHardReview"}, set \in SUBSET Files :
                ReviewLoad(k, op, r, set)
          \/ \E i \in rjob[k].todo : RemoveFile(k, i)
          \/ \E f \in rjob[k].files : AddPicture(k, f)
          \/ RemoveRow(k) \/ ReviewDone(k) \/ RAbort(k)

---------------------------------------------------------------------------
(* Properties *)

\* A picture has its file, unless a removal stopped between file and row, or a
\* request named a file that a picture had already: update removes the files
\* of the old pictures, the ones it is told to keep among them (update,
\* removeHardReview).
PicturesHaveFiles ==
    \A i \in shown :
        \/ picture[i].file \in cloud \cup reused
        \/ i \in struck
        \/ \E k \in Clerks : i \in rjob[k].at

---------------------------------------------------------------------------
(* The inductive invariant behind the property *)

ReviewsTypeOK ==
    /\ written \in 0 .. MaxReviews /\ reviews \subseteq 1 .. written
    /\ picture \in Seq(Picture) /\ Len(picture) <= MaxRows
    /\ shown \subseteq DOMAIN picture
    /\ rjob \in [Clerks -> RJob]

\* A request holds pictures and a review that exist; the file of a picture is
\* gone while the request is at it.
RJobOK(k) ==
    /\ rjob[k].todo \cup rjob[k].at \subseteq DOMAIN picture
    /\ rjob[k].phase # "bare" => rjob[k].at = {}
    /\ rjob[k].phase # "idle" => rjob[k].review \in 1 .. written

\* A file that was named once is in one place: a picture or a request.
NamedOnce(f) ==
    /\ \A i, l \in DOMAIN picture : picture[i].file = f /\ picture[l].file = f => i = l
    /\ \A k \in Clerks : f \in rjob[k].files =>
          /\ \A i \in DOMAIN picture : picture[i].file # f
          /\ \A l \in Clerks : f \in rjob[l].files => l = k

\* Only the file of a picture leaves the cloud store.
LeftAsPicture(f) == f \in cloud \/ \E i \in DOMAIN picture : picture[i].file = f

ReviewsInv ==
    /\ ReviewsTypeOK
    /\ \A k \in Clerks : RJobOK(k)
    /\ \A f \in Files : LeftAsPicture(f) /\ (f \in reused \/ NamedOnce(f))
    /\ PicturesHaveFiles

============================================================================
