------------------------------- MODULE Blogs -------------------------------
(***************************************************************************)
(* Blogs and their categories: BlogService and BlogCategoriesService, both *)
(* extend BaseService.                                                     *)
(*                                                                         *)
(* A blog is in one category, or in none, and goes with it (onDelete       *)
(* CASCADE).  To save a category is to store the list of its blogs that    *)
(* was read with it.  A blog keeps the public ids of its pictures; an      *)
(* update with new pictures removes the files of the old ones before it    *)
(* saves.                                                                  *)
(*                                                                         *)
(* An update that leaves out the category looks for one without a          *)
(* condition and finds any.  Texts, authors (found the same way) and       *)
(* slugs, unique by a constraint, are left out; each blog here has at      *)
(* most one picture, which the client has uploaded.                        *)
(***************************************************************************)
EXTENDS Parties

CONSTANTS
    Photos,  \* the files that clients upload
    MaxBlogs \* bounds the blogs that are ever inserted

ASSUME BlogsAssumption == MaxBlogs \in 0 .. MaxRows

Nowhere == 0 \* the category of a blog that was cut off from its own

Blog == [category: 0 .. MaxRows, photos: SUBSET Photos]

BJob == [phase: {"idle", "loaded", "bare"},
         op: {"none", "createBlog", "updateBlog", "updateTopic"},
         at: 0 .. MaxRows, category: 0 .. MaxRows, blogs: SUBSET Rows,
         old: SUBSET Photos, new: SUBSET Photos, named: BOOLEAN, alone: BOOLEAN]

IdleBJob == [phase |-> "idle", op |-> "none", at |-> 0, category |-> Nowhere, blogs |-> {},
             old |-> {}, new |-> {}, named |-> TRUE, alone |-> TRUE]

VARIABLES
    opened,  \* how many categories were inserted
    topics,  \* the numbers of the categories that are still there
    blog,    \* the blogs that were inserted
    posted,  \* the numbers of the blogs that are still there
    stock,   \* the files in the cloud store
    bjob,    \* the requests in flight
    filedAs, \* ghost: the category a blog was last put in, where that is clear
    blurred  \* ghost: blogs that may have lost the files of their pictures

blogVars == <<opened, topics, blog, posted, stock, bjob, filedAs, blurred>>

BDatabase == <<opened, topics, blog, posted, stock, filedAs, blurred>>

---------------------------------------------------------------------------

BlogsOf(t) == {b \in posted : blog[b].category = t}

BBusy == {k \in Clerks : bjob[k].phase # "idle"}

\* A request starts; none that overlaps with it is alone.
BStart(k, j) ==
    /\ k \notin BBusy
    /\ bjob' = [i \in Clerks |->
                   IF i = k THEN [j EXCEPT !.phase = "loaded", !.alone = BBusy = {}]
                            ELSE [bjob[i] EXCEPT !.alone = FALSE]]
    /\ UNCHANGED BDatabase

BDone(k) == bjob' = [i \in Clerks |-> IF i = k THEN IdleBJob ELSE bjob[i]]

\* The file is there, and no blog or request has it.
FreshPhoto(f) ==
    /\ f \in stock
    /\ \A b \in DOMAIN blog : f \notin blog[b].photos
    /\ \A k \in Clerks : f \notin bjob[k].old \cup bjob[k].new

\* What is known after request j to be asked: that the category is t.
Known(j, t) == IF j.alone /\ j.named THEN {t} ELSE {}

---------------------------------------------------------------------------
(* Blogs *)

CreateBlogLoad(k, t, set) ==
    /\ Uses("createBlog")
    /\ t \in topics
    /\ \A f \in set : FreshPhoto(f)
    /\ BStart(k, [IdleBJob EXCEPT !.op = "createBlog", !.category = t, !.new = set])

\* The foreign key asks for the category.
CreateBlogSave(k) ==
    LET j == bjob[k] IN
    /\ j.op = "createBlog"
    /\ j.category \in topics
    /\ Len(blog) < MaxBlogs
    /\ blog' = Append(blog, [category |-> j.category, photos |-> j.new])
    /\ posted' = posted \cup {Len(blog) + 1}
    /\ filedAs' = [filedAs EXCEPT ![Len(blog) + 1] = Known(j, j.category)]
    /\ BDone(k)
    /\ UNCHANGED <<opened, topics, stock, blurred>>

\* With a category that the request names, or whichever is found.
UpdateBlogLoad(k, b, t, named, set) ==
    /\ Uses("updateBlog")
    /\ b \in posted
    /\ t \in topics
    /\ \A f \in set : FreshPhoto(f) \/ f \in blog[b].photos
    /\ BStart(k, [IdleBJob EXCEPT !.op = "updateBlog", !.at = b, !.category = t,
                     !.named = named, !.old = blog[b].photos, !.new = set])

\* The files of the old pictures, those that are named again among them.
UpdateBlogRemove(k) ==
    LET j == bjob[k] IN
    /\ j.op = "updateBlog" /\ j.phase = "loaded"
    /\ j.new # {} /\ j.old # {}
    /\ stock' = stock \ j.old
    /\ bjob' = [bjob EXCEPT ![k].phase = "bare"]
    /\ UNCHANGED <<opened, topics, blog, posted, filedAs, blurred>>

\* Mutant: the new pictures are forgotten.
KeptPhotosMutant(b, j) == blog[b].photos

\* The pictures of blog b after request j: its own if that names none.
KeptPhotos(b, j) == IF j.new = {} /\ b \in posted THEN blog[b].photos ELSE j.new

\* A blog deleted meanwhile is inserted again.
UpdateBlogSave(k) ==
    LET j == bjob[k] IN
    /\ j.op = "updateBlog"
    /\ j.phase = "bare" \/ j.new = {} \/ j.old = {}
    /\ j.category \in topics
    /\ blog' = [blog EXCEPT ![j.at] = [category |-> j.category,
                                       photos |-> KeptPhotos(j.at, j)]]
    /\ posted' = posted \cup {j.at}
    /\ filedAs' = [filedAs EXCEPT ![j.at] = Known(j, j.category)]
    /\ blurred' = IF ~j.alone \/ j.new \cap j.old # {}
                    THEN blurred \cup {j.at} ELSE blurred
    /\ BDone(k)
    /\ UNCHANGED <<opened, topics, stock>>

\* The files stay.
RemoveBlog(b) ==
    /\ Uses("removeBlog")
    /\ b \in posted
    /\ posted' = posted \ {b}
    /\ UNCHANGED <<opened, topics, blog, stock, bjob, filedAs, blurred>>

---------------------------------------------------------------------------
(* Categories of blogs *)

CreateTopic ==
    /\ Uses("createTopic")
    /\ opened < inUse.rows
    /\ opened' = opened + 1
    /\ topics' = topics \cup {opened + 1}
    /\ UNCHANGED <<blog, posted, stock, bjob, filedAs, blurred>>

\* The request names blogs for the category, or the list stays as it was read.
UpdateTopicLoad(k, t, set) ==
    /\ Uses("updateTopic")
    /\ t \in topics
    /\ set \subseteq posted
    /\ BStart(k, [IdleBJob EXCEPT !.op = "updateTopic", !.at = t,
                     !.blogs = IF set = {} THEN BlogsOf(t) ELSE set])

\* Mutant: the list is not stored.
FiledMutant(b, t, list) == blog[b].category

\* The category of blog b once category t has been saved with this list.
Filed(b, t, list) ==
    IF b \in list \cap posted THEN t
    ELSE IF b \in BlogsOf(t) THEN Nowhere
    ELSE blog[b].category

\* The category is inserted again if it was deleted meanwhile; the blogs are not.
UpdateTopicSave(k) ==
    LET j == bjob[k]
        moved == j.blogs \cup BlogsOf(j.at)
    IN
    /\ j.op = "updateTopic"
    /\ topics' = topics \cup {j.at}
    /\ blog' = [b \in DOMAIN blog |-> [blog[b] EXCEPT !.category = Filed(b, j.at, j.blogs)]]
    /\ filedAs' = [b \in Rows |->
                      IF b \notin moved THEN filedAs[b]
                      ELSE Known(j, IF b \in j.blogs THEN j.at ELSE Nowhere)]
    /\ BDone(k)
    /\ UNCHANGED <<opened, posted, stock, blurred>>

\* Its blogs go with it.
RemoveTopic(t) ==
    /\ Uses("removeTopic")
    /\ t \in topics
    /\ topics' = topics \ {t}
    /\ posted' = posted \ BlogsOf(t)
    /\ UNCHANGED <<opened, blog, stock, bjob, filedAs, blurred>>

\* A check refuses, a statement or a removal fails, or the server stops.
BAbort(k) ==
    LET j == bjob[k] IN
    /\ k \in BBusy
    /\ blurred' = IF j.phase = "bare" THEN blurred \cup {j.at} ELSE blurred
    /\ BDone(k)
    /\ UNCHANGED <<opened, topics, blog, posted, stock, filedAs>>

---------------------------------------------------------------------------

BInit ==
    /\ opened = 0 /\ topics = {}
    /\ blog = <<>> /\ posted = {}
    /\ stock = Photos
    /\ bjob = [k \in Clerks |-> IdleBJob]
    /\ filedAs = [b \in Rows |-> {}] /\ blurred = {}

BlogController ==
    \/ \E k \in Clerks, t \in topics, set \in {{}} \cup {{f} : f \in Photos} :
          \/ CreateBlogLoad(k, t, set)
          \/ \E b \in posted, named \in BOOLEAN : UpdateBlogLoad(k, b, t, named, set)
    \/ \E b \in posted : RemoveBlog(b)

BlogCategoriesController ==
    \/ CreateTopic
    \/ \E t \in topics : \/ RemoveTopic(t)
                         \/ \E k \in Clerks, set \in SUBSET posted : UpdateTopicLoad(k, t, set)

BNext ==
    \/ BlogController \/ BlogCategoriesController
    \/ \E k \in Clerks :
          \/ CreateBlogSave(k) \/ UpdateBlogRemove(k) \/ UpdateBlogSave(k)
          \/ UpdateTopicSave(k)
          \/ BAbort(k)

---------------------------------------------------------------------------
(* Properties *)

\* Outside requests in flight, a blog is in the category that it was last put
\* in, by its own request or its category's, unless requests overlapped or one
\* left the category out (create and update of BlogService, update of
\* BlogCategoriesService: a category saved with an old list of blogs cuts off
\* or pulls back those that moved); and its pictures have their files, unless
\* an update named them again, overlapped or stopped after removing them.
BlogsAsAsked ==
    \A b \in posted :
        /\ \A t \in filedAs[b] : blog[b].category = t
        /\ \/ blog[b].photos \subseteq stock
           \/ b \in blurred
           \/ \E k \in BBusy : bjob[k].at = b /\ bjob[k].op = "updateBlog"

---------------------------------------------------------------------------
(* The inductive invariant behind the property *)

BlogsTypeOK ==
    /\ opened \in 0 .. MaxRows /\ topics \subseteq 1 .. opened
    /\ blog \in Seq(Blog) /\ Len(blog) <= MaxBlogs
    /\ posted \subseteq DOMAIN blog
    /\ \A b \in posted : blog[b].category \in {Nowhere} \cup topics
    /\ stock \subseteq Photos /\ bjob \in [Clerks -> BJob]
    /\ filedAs \in [Rows -> SUBSET (0 .. MaxRows)]

\* A request is about a blog or a category that was inserted.  The pictures of
\* a new blog are there, and so are those that a request brings as long as it
\* is alone.
BJobOK(k) ==
    LET j == bjob[k] IN
    IF k \in BBusy
    THEN /\ j.op = "updateBlog" => j.at \in DOMAIN blog
         /\ j.op = "updateTopic" => j.at \in 1 .. opened /\ j.old = {} /\ j.new = {}
         /\ j.op = "createBlog" => j.old = {} /\ j.new \subseteq stock
         /\ j.phase = "bare" => j.op = "updateBlog" /\ j.new # {}
         /\ j.alone => BBusy = {k} /\ j.new \ j.old \subseteq stock
    ELSE j.op = "none" /\ j.old = {} /\ j.new = {}

\* A picture is in one place: a blog with the updates of it, or a request that
\* creates a blog.
PhotoOnce(f) ==
    /\ \A b, c \in DOMAIN blog : f \in blog[b].photos \cap blog[c].photos => b = c
    /\ \A k \in Clerks : f \in bjob[k].old \cup bjob[k].new =>
          /\ \A b \in DOMAIN blog :
                f \in blog[b].photos => bjob[k].op = "updateBlog" /\ bjob[k].at = b
          /\ \A l \in Clerks \ {k} : f \in bjob[l].old \cup bjob[l].new =>
                /\ bjob[k].op = "updateBlog" /\ bjob[l].op = "updateBlog"
                /\ bjob[k].at = bjob[l].at

\* A blog has its pictures unless some update has removed their files.
PhotosThere(b) ==
    \/ blog[b].photos \subseteq stock
    \/ b \in blurred
    \/ \E k \in BBusy : bjob[k].at = b /\ bjob[k].phase = "bare"

BlogsInv ==
    /\ BlogsTypeOK
    /\ \A k \in Clerks : BJobOK(k)
    /\ \A f \in Photos : PhotoOnce(f)
    /\ \A b \in posted : PhotosThere(b) /\ \A t \in filedAs[b] : blog[b].category = t

============================================================================
