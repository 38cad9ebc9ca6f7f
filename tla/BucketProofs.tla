------------------------------ MODULE BucketProofs ------------------------------
(***************************************************************************)
(* Theorems about Bucket, for any number of images, requests and visitors, *)
(* any galleries of them, and any times a copy is kept.                    *)
(***************************************************************************)
EXTENDS Bucket, TLAPS

-----------------------------------------------------------------------------
\* The inductive invariant of the media library.

Places == {"put", "insert", "remove", "delete"}
Works  == [at : Places, images : {{i} : i \in named}]

NamesOK ==
  /\ objects \subseteq named /\ rows \subseteq named /\ named \subseteq Images
  /\ stray \subseteq named /\ unwanted \subseteq named /\ answered \subseteq unwanted

TasksOK == task \in [Tasks -> Works \cup {NoTask}]

\* What is being uploaded is not listed yet and is nobody else's business.
UploadsOK ==
  \A t \in Tasks : \A i \in named : At(t, "put", i) \/ At(t, "insert", i) =>
    /\ i \notin rows /\ i \notin unwanted
    /\ At(t, "insert", i) => i \in objects
    /\ \A u \in Tasks : i \in task[u].images => u = t

\* A deletion was asked for; its second half starts without an object.
DeletionsOK ==
  \A t \in Tasks : \A i \in named :
    /\ At(t, "remove", i) => i \in unwanted
    /\ At(t, "delete", i) => i \in unwanted /\ i \notin objects

\* The row of what somebody asked to delete outlives its object.
UnwantedOK == unwanted \cap objects \subseteq rows

LibraryInv ==
  /\ NamesOK /\ TasksOK
  /\ UploadsOK /\ DeletionsOK /\ UnwantedOK
  /\ LibraryMatchesBucket

-----------------------------------------------------------------------------
\* Tasks.

\* A request works on one image, in one place.
LEMMA AtOne ==
  ASSUME NEW t \in Tasks, NEW at, NEW i, At(t, at, i)
  PROVE  /\ task[t].at = at /\ task[t].images = {i}
         /\ \A b, j : At(t, b, j) => b = at /\ j = i
         /\ at # "none" => task[t] # NoTask
<1>1. task[t].at = at /\ task[t].images = {i}
  BY DEF At
<1>2. ASSUME NEW b, NEW j, At(t, b, j) PROVE b = at /\ j = i
  <2>1. task[t].at = b /\ task[t].images = {j}
    BY <1>2 DEF At
  <2> QED BY <1>1, <2>1
<1>3. at # "none" => task[t] # NoTask
  BY <1>1 DEF NoTask
<1> QED BY <1>1, <1>2, <1>3

\* The other requests stay where they are.
LEMMA ToOne ==
  ASSUME TasksOK, NEW t \in Tasks, NEW at, NEW i, To(t, at, i)
  PROVE  /\ At(t, at, i)' /\ task'[t].images = {i}
         /\ \A b, j : At(t, b, j)' => b = at /\ j = i
         /\ \A u \in Tasks \ {t} : task'[u] = task[u] /\ \A b, j : At(u, b, j)' <=> At(u, b, j)
<1>1. task'[t] = [at |-> at, images |-> {i}]
  BY DEF TasksOK, To
<1>2. ASSUME NEW b, NEW j, At(t, b, j)' PROVE b = at /\ j = i
  <2>1. task'[t].at = b /\ task'[t].images = {j}
    BY <1>2 DEF At
  <2> QED BY <1>1, <2>1
<1> QED BY <1>1, <1>2 DEF TasksOK, To, At

LEMMA EndsOne ==
  ASSUME TasksOK, NEW t \in Tasks, Ends(t)
  PROVE  /\ task'[t] = NoTask /\ task'[t].images = {}
         /\ \A b, j : ~At(t, b, j)'
         /\ \A u \in Tasks \ {t} : task'[u] = task[u] /\ \A b, j : At(u, b, j)' <=> At(u, b, j)
<1>1. task'[t] = NoTask /\ \A u \in Tasks \ {t} : task'[u] = task[u]
  BY DEF TasksOK, Ends
<1>2. task'[t].images = {}
  BY <1>1 DEF NoTask
<1>3. ASSUME NEW b, NEW j PROVE ~At(t, b, j)'
  <2>1. SUFFICES ASSUME At(t, b, j)' PROVE FALSE
    OBVIOUS
  <2>2. task'[t].images = {j}
    BY <2>1 DEF At
  <2> QED BY <1>2, <2>2
<1> QED BY <1>1, <1>2, <1>3 DEF At

LEMMA TasksType ==
  ASSUME TasksOK, named \subseteq named', NEW t \in Tasks,
         \/ Ends(t)
         \/ \E at \in Places : \E i \in named' : To(t, at, i)
  PROVE  TasksOK'
BY DEF TasksOK, Works, Ends, To

\* Who is busy with an image that was named is nobody with one that was not.
LEMMA WorksOnNamed ==
  ASSUME TasksOK, NEW t \in Tasks, NEW i \in task[t].images
  PROVE  i \in named /\ \E at \in Places : At(t, at, i)
<1>1. task[t] # NoTask
  BY DEF NoTask
<1>2. task[t] \in Works
  BY <1>1 DEF TasksOK
<1>3. PICK at \in Places, j \in named : task[t] = [at |-> at, images |-> {j}]
  BY <1>2 DEF Works
<1> QED BY <1>3 DEF At

-----------------------------------------------------------------------------
\* Every step of the library keeps its invariant.

LEMMA LibraryInvInit == LibraryInit => LibraryInv
<1> SUFFICES ASSUME LibraryInit PROVE LibraryInv
  OBVIOUS
<1>1. \A t \in Tasks : task[t] = NoTask
  BY DEF LibraryInit
<1>2. TasksOK
  BY DEF LibraryInit, TasksOK
<1> QED
  BY <1>1, <1>2 DEF LibraryInit, LibraryInv, NamesOK, UploadsOK, DeletionsOK, UnwantedOK,
     LibraryMatchesBucket, RowsHaveObjects, ObjectsHaveRows, DeletedIsGone

LEMMA UploadImageNext ==
  ASSUME LibraryInv, NEW t \in Tasks, NEW i \in Images, UploadImage(t, i)
  PROVE  LibraryInv'
<1> USE DEF LibraryInv, UploadImage
<1>1. /\ At(t, "put", i)'
      /\ \A u \in Tasks \ {t} : task'[u] = task[u] /\ \A b, j : At(u, b, j)' <=> At(u, b, j)
  BY ToOne
<1>2. NamesOK'
  BY DEF NamesOK
<1>3. TasksOK'
  BY TasksType DEF Places
<1>4. \A u \in Tasks : i \notin task[u].images
  BY WorksOnNamed
<1>5. task'[t].images = {i} /\ \A b, j : At(t, b, j)' => b = "put" /\ j = i
  BY <1>1 DEF At
<1>6. UploadsOK'
  <2> SUFFICES ASSUME NEW u \in Tasks, NEW j \in named', (At(u, "put", j) \/ At(u, "insert", j))'
               PROVE  /\ j \notin rows' /\ j \notin unwanted'
                      /\ At(u, "insert", j)' => j \in objects'
                      /\ \A v \in Tasks : j \in task'[v].images => v = u
    BY DEF UploadsOK
  <2>1. CASE u = t
    BY <1>1, <1>4, <1>5, <2>1 DEF NamesOK
  <2>2. CASE u # t
    <3>1. At(u, "put", j) \/ At(u, "insert", j)
      BY <1>1, <2>2
    <3>2. j \in named
      BY <3>1, AtOne, WorksOnNamed
    <3> QED BY <1>1, <1>5, <2>2, <3>1, <3>2 DEF UploadsOK
  <2> QED BY <2>1, <2>2
<1>7. DeletionsOK'
  BY <1>1, <1>5, AtOne, WorksOnNamed DEF DeletionsOK
<1>8. UnwantedOK' /\ RowsHaveObjects' /\ DeletedIsGone'
  BY DEF UnwantedOK, LibraryMatchesBucket, RowsHaveObjects, DeletedIsGone
<1>9. ObjectsHaveRows'
  BY <1>1, AtOne DEF LibraryMatchesBucket, ObjectsHaveRows, NoTask
<1> QED
  BY <1>2, <1>3, <1>6, <1>7, <1>8, <1>9 DEF LibraryMatchesBucket

\* What is at work on one image after a step of t was at work on it before, or is t.
LEMMA OthersAtWork ==
  ASSUME TasksOK, NEW t \in Tasks, Ends(t) \/ \E at, i : To(t, at, i),
         NEW u \in Tasks, u # t
  PROVE  task'[u] = task[u] /\ \A b, j : At(u, b, j)' <=> At(u, b, j)
BY ToOne, EndsOne

LEMMA PutObjectNext ==
  ASSUME LibraryInv, NEW t \in Tasks, NEW i \in Images, PutObject(t, i)
  PROVE  LibraryInv'
<1> USE DEF LibraryInv, PutObject
<1>1. task[t].images = {i} /\ i \in named
  BY AtOne, WorksOnNamed
<1>2. i \notin rows /\ i \notin unwanted /\ i \notin answered
  BY <1>1 DEF UploadsOK, NamesOK
<1>3. \/ To(t, "insert", i) /\ i \in objects'
      \/ Ends(t) /\ i \in stray'
  OBVIOUS
<1>4. objects \subseteq objects' /\ objects' \subseteq objects \cup {i} /\ stray \subseteq stray'
  OBVIOUS
<1>5. \A b, j : At(t, b, j)' => b = "insert" /\ j = i /\ i \in objects'
  BY <1>3, ToOne, EndsOne
<1>6. task'[t].images \subseteq {i}
  BY <1>3, ToOne, EndsOne
<1>7. \A u \in Tasks \ {t} : task'[u] = task[u] /\ \A b, j : At(u, b, j)' <=> At(u, b, j)
  BY OthersAtWork
<1>8. NamesOK'
  BY <1>1 DEF NamesOK
<1>9. TasksOK'
  BY <1>1, TasksType DEF Places
<1>10. UploadsOK'
  <2> SUFFICES ASSUME NEW u \in Tasks, NEW j \in named', (At(u, "put", j) \/ At(u, "insert", j))'
               PROVE  /\ j \notin rows' /\ j \notin unwanted'
                      /\ At(u, "insert", j)' => j \in objects'
                      /\ \A v \in Tasks : j \in task'[v].images => v = u
    BY DEF UploadsOK
  <2>1. CASE u = t
    BY <1>1, <1>2, <1>5, <1>7, <2>1 DEF UploadsOK
  <2>2. CASE u # t
    BY <1>1, <1>4, <1>6, <1>7, <2>2 DEF UploadsOK
  <2> QED BY <2>1, <2>2
<1>11. DeletionsOK'
  BY <1>2, <1>4, <1>5, <1>7 DEF DeletionsOK
<1>12. UnwantedOK' /\ RowsHaveObjects' /\ DeletedIsGone'
  BY <1>2, <1>4 DEF UnwantedOK, LibraryMatchesBucket, RowsHaveObjects, DeletedIsGone
<1>13. ObjectsHaveRows'
  <2> SUFFICES ASSUME NEW j \in objects' \ rows', j \notin stray'
               PROVE  \E u \in Tasks : j \in task'[u].images
    BY DEF ObjectsHaveRows
  <2>1. CASE j = i
    BY <1>3, <2>1, ToOne, EndsOne
  <2>2. CASE j # i
    BY <1>1, <1>4, <1>7, <2>2 DEF LibraryMatchesBucket, ObjectsHaveRows
  <2> QED BY <2>1, <2>2
<1> QED
  BY <1>8, <1>9, <1>10, <1>11, <1>12, <1>13 DEF LibraryMatchesBucket

LEMMA InsertMediaNext ==
  ASSUME LibraryInv, NEW t \in Tasks, NEW i \in Images, InsertMedia(t, i)
  PROVE  LibraryInv'
<1> USE DEF LibraryInv, InsertMedia
<1>1. task[t].images = {i} /\ i \in named
  BY AtOne, WorksOnNamed
<1>2. i \in objects /\ i \notin unwanted /\ \A u \in Tasks : i \in task[u].images => u = t
  BY <1>1 DEF UploadsOK
<1>3. /\ rows \subseteq rows' /\ rows' \subseteq rows \cup {i} /\ stray \subseteq stray'
      /\ i \in rows' \cup stray'
  OBVIOUS
<1>4. /\ \A b, j : ~At(t, b, j)'
      /\ \A u \in Tasks \ {t} : task'[u] = task[u] /\ \A b, j : At(u, b, j)' <=> At(u, b, j)
  BY EndsOne
<1>5. NamesOK'
  BY <1>1 DEF NamesOK
<1>6. TasksOK'
  BY TasksType
<1>7. UploadsOK'
  <2> SUFFICES ASSUME NEW u \in Tasks, NEW j \in named', (At(u, "put", j) \/ At(u, "insert", j))'
               PROVE  /\ j \notin rows' /\ j \notin unwanted'
                      /\ At(u, "insert", j)' => j \in objects'
                      /\ \A v \in Tasks : j \in task'[v].images => v = u
    BY DEF UploadsOK
  <2>1. u # t
    BY <1>4
  <2>2. At(u, "put", j) \/ At(u, "insert", j)
    BY <1>4, <2>1
  <2>3. j # i
    BY <1>2, <2>1, <2>2, AtOne
  <2>4. task'[t].images = {}
    BY EndsOne
  <2> QED BY <1>3, <1>4, <2>1, <2>2, <2>3, <2>4 DEF UploadsOK
<1>8. DeletionsOK'
  BY <1>4 DEF DeletionsOK
<1>9. UnwantedOK' /\ RowsHaveObjects'
  BY <1>2, <1>3 DEF UnwantedOK, LibraryMatchesBucket, RowsHaveObjects
<1>10. DeletedIsGone'
  BY <1>2, <1>3 DEF NamesOK, LibraryMatchesBucket, DeletedIsGone
<1>11. ObjectsHaveRows'
  BY <1>1, <1>3, <1>4 DEF LibraryMatchesBucket, ObjectsHaveRows
<1> QED
  BY <1>5, <1>6, <1>7, <1>8, <1>9, <1>10, <1>11 DEF LibraryMatchesBucket

LEMMA DeleteImageNext ==
  ASSUME LibraryInv, NEW t \in Tasks, NEW i \in Images, DeleteImage(t, i)
  PROVE  LibraryInv'
<1> USE DEF LibraryInv, DeleteImage
<1>1. i \in named
  BY DEF NamesOK
<1>2. \A u \in Tasks : ~At(u, "put", i) /\ ~At(u, "insert", i)
  BY <1>1 DEF UploadsOK
<1>3. \/ i \in rows /\ To(t, "remove", i) /\ UNCHANGED answered
      \/ i \notin rows /\ i \in unwanted /\ UNCHANGED task /\ answered' = answered \cup {i}
  OBVIOUS
<1>4. \A u \in Tasks : \A b, j : At(u, b, j)' => At(u, b, j) \/ (b = "remove" /\ j = i)
  <2>1. CASE To(t, "remove", i)
    BY <2>1, ToOne
  <2>2. CASE UNCHANGED task
    BY <2>2 DEF At
  <2> QED BY <1>3, <2>1, <2>2
<1>5. \A u \in Tasks : task[u].images \subseteq task'[u].images
                       /\ task'[u].images \subseteq task[u].images \cup {i}
  <2>1. CASE To(t, "remove", i)
    BY <2>1, ToOne DEF NoTask
  <2>2. CASE UNCHANGED task
    BY <2>2
  <2> QED BY <1>3, <2>1, <2>2
<1>6. NamesOK'
  BY <1>1, <1>3 DEF NamesOK
<1>7. TasksOK'
  BY <1>1, <1>3, TasksType DEF Places, TasksOK, Works
<1>8. UploadsOK'
  <2> SUFFICES ASSUME NEW u \in Tasks, NEW j \in named', (At(u, "put", j) \/ At(u, "insert", j))'
               PROVE  /\ j \notin rows' /\ j \notin unwanted'
                      /\ At(u, "insert", j)' => j \in objects'
                      /\ \A v \in Tasks : j \in task'[v].images => v = u
    BY DEF UploadsOK
  <2>1. (At(u, "put", j) \/ At(u, "insert", j)) /\ (At(u, "insert", j)' => At(u, "insert", j))
    BY <1>4
  <2>2. j # i
    BY <1>2, <2>1
  <2> QED BY <1>5, <2>1, <2>2 DEF UploadsOK
<1>9. DeletionsOK'
  BY <1>4 DEF DeletionsOK
<1>10. UnwantedOK' /\ RowsHaveObjects' /\ DeletedIsGone'
  BY <1>3 DEF UnwantedOK, LibraryMatchesBucket, RowsHaveObjects, DeletedIsGone
<1>11. ObjectsHaveRows'
  BY <1>5 DEF LibraryMatchesBucket, ObjectsHaveRows
<1> QED
  BY <1>6, <1>7, <1>8, <1>9, <1>10, <1>11 DEF LibraryMatchesBucket

LEMMA DeleteObjectNext ==
  ASSUME LibraryInv, NEW t \in Tasks, NEW i \in Images, DeleteObject(t, i)
  PROVE  LibraryInv'
<1> USE DEF LibraryInv, DeleteObject
<1>1. task[t].images = {i} /\ i \in named
  BY AtOne, WorksOnNamed
<1>2. i \in unwanted
  BY <1>1 DEF DeletionsOK
<1>3. objects' \subseteq objects /\ objects \ {i} \subseteq objects'
  OBVIOUS
<1>4. \/ To(t, "delete", i) /\ i \notin objects'
      \/ Ends(t)
  OBVIOUS
<1>5. \A b, j : At(t, b, j)' => b = "delete" /\ j = i /\ i \notin objects'
  BY <1>4, ToOne, EndsOne
<1>6. task'[t].images \subseteq {i}
  BY <1>4, ToOne, EndsOne
<1>7. \A u \in Tasks \ {t} : task'[u] = task[u] /\ \A b, j : At(u, b, j)' <=> At(u, b, j)
  BY OthersAtWork
<1>8. NamesOK'
  BY <1>3 DEF NamesOK
<1>9. TasksOK'
  BY <1>1, TasksType DEF Places
<1>10. UploadsOK'
  <2> SUFFICES ASSUME NEW u \in Tasks, NEW j \in named', (At(u, "put", j) \/ At(u, "insert", j))'
               PROVE  /\ j \notin rows' /\ j \notin unwanted'
                      /\ At(u, "insert", j)' => j \in objects'
                      /\ \A v \in Tasks : j \in task'[v].images => v = u
    BY DEF UploadsOK
  <2>1. u # t
    BY <1>5
  <2>2. (At(u, "put", j) \/ At(u, "insert", j)) /\ (At(u, "insert", j)' <=> At(u, "insert", j))
    BY <1>7, <2>1
  <2>3. j # i
    BY <1>2, <2>2 DEF UploadsOK
  <2> QED BY <1>1, <1>3, <1>6, <1>7, <2>2, <2>3 DEF UploadsOK
<1>11. DeletionsOK'
  BY <1>2, <1>3, <1>5, <1>7 DEF DeletionsOK
<1>12. UnwantedOK' /\ RowsHaveObjects' /\ DeletedIsGone'
  BY <1>2, <1>3 DEF UnwantedOK, LibraryMatchesBucket, RowsHaveObjects, DeletedIsGone
<1>13. ObjectsHaveRows'
  BY <1>1, <1>2, <1>3, <1>7 DEF UnwantedOK, LibraryMatchesBucket, ObjectsHaveRows
<1> QED
  BY <1>8, <1>9, <1>10, <1>11, <1>12, <1>13 DEF LibraryMatchesBucket

LEMMA DeleteMediaNext ==
  ASSUME LibraryInv, NEW t \in Tasks, NEW i \in Images, DeleteMedia(t, i)
  PROVE  LibraryInv'
<1> USE DEF LibraryInv, DeleteMedia
<1>1. task[t].images = {i} /\ i \in named
  BY AtOne, WorksOnNamed
<1>2. i \in unwanted /\ i \notin objects
  BY <1>1 DEF DeletionsOK
<1>3. /\ rows' \subseteq rows /\ rows \ {i} \subseteq rows'
      /\ answered' \subseteq answered \cup {i}
      /\ i \in answered' => i \notin rows' \/ i \in answered
  OBVIOUS
<1>4. /\ \A b, j : ~At(t, b, j)'
      /\ \A u \in Tasks \ {t} : task'[u] = task[u] /\ \A b, j : At(u, b, j)' <=> At(u, b, j)
  BY EndsOne
<1>5. NamesOK'
  BY <1>2, <1>3 DEF NamesOK
<1>6. TasksOK'
  BY TasksType
<1>7. UploadsOK'
  BY <1>3, <1>4, EndsOne DEF UploadsOK
<1>8. DeletionsOK'
  BY <1>4 DEF DeletionsOK
<1>9. UnwantedOK' /\ RowsHaveObjects' /\ DeletedIsGone'
  BY <1>2, <1>3 DEF UnwantedOK, LibraryMatchesBucket, RowsHaveObjects, DeletedIsGone
<1>10. ObjectsHaveRows'
  BY <1>1, <1>2, <1>3, <1>4 DEF LibraryMatchesBucket, ObjectsHaveRows
<1> QED
  BY <1>5, <1>6, <1>7, <1>8, <1>9, <1>10 DEF LibraryMatchesBucket

LEMMA LibraryRestartNext ==
  ASSUME LibraryInv, LibraryRestart
  PROVE  LibraryInv'
<1> USE DEF LibraryInv, LibraryRestart
<1> DEFINE broken == {q \in Tasks : task[q].at \in {"put", "insert"}}
<1>1. \A t \in Tasks : task'[t] = NoTask /\ task'[t].images = {} /\ \A b, j : ~At(t, b, j)'
  <2> SUFFICES ASSUME NEW t \in Tasks
               PROVE  task'[t] = NoTask /\ task'[t].images = {} /\ \A b, j : ~At(t, b, j)'
    OBVIOUS
  <2>1. task'[t] = NoTask /\ task'[t].images = {}
    BY DEF NoTask
  <2>2. ASSUME NEW b, NEW j, At(t, b, j)' PROVE FALSE
    <3>1. task'[t].images = {j}
      BY <2>2 DEF At
    <3> QED BY <2>1, <3>1
  <2> QED BY <2>1, <2>2
<1>2. stray \subseteq stray' /\ stray' = stray \cup UNION {task[t].images : t \in broken}
  OBVIOUS
<1>3. stray' \subseteq named
  BY <1>2, WorksOnNamed DEF NamesOK
<1>4. ObjectsHaveRows'
  <2> SUFFICES ASSUME NEW i \in objects \ rows, i \notin stray PROVE i \in stray'
    BY DEF ObjectsHaveRows
  <2>1. PICK t \in Tasks : i \in task[t].images
    BY DEF LibraryMatchesBucket, ObjectsHaveRows
  <2>2. PICK at \in Places : At(t, at, i) /\ i \in named
    BY <2>1, WorksOnNamed
  <2>3. i \notin unwanted
    BY DEF UnwantedOK
  <2>4. at \in {"put", "insert"}
    BY <2>2, <2>3 DEF DeletionsOK, Places
  <2>5. t \in broken
    BY <2>2, <2>4, AtOne
  <2> QED BY <1>2, <2>1, <2>5
<1>5. TasksOK'
  BY DEF TasksOK
<1> QED
  BY <1>1, <1>3, <1>4, <1>5 DEF NamesOK, UploadsOK, DeletionsOK, UnwantedOK,
     LibraryMatchesBucket, RowsHaveObjects, DeletedIsGone

LEMMA LibraryUnchanged ==
  ASSUME LibraryInv, UNCHANGED library
  PROVE  LibraryInv'
BY DEF LibraryInv, library, NamesOK, TasksOK, Works, UploadsOK, DeletionsOK, UnwantedOK, At,
       LibraryMatchesBucket, RowsHaveObjects, ObjectsHaveRows, DeletedIsGone

-----------------------------------------------------------------------------
\* The inductive invariant of the gallery.

Visits == [at : {"out", "fetch", "store"}, old : Posts, got : Posts \cup {Failed},
           late : BOOLEAN]

\* A fetch sees a tick pass or none.
Passed(v) == IF visitor[v].late THEN 1 ELSE 0

\* What is stored is as old as the tick that may have passed since it was fetched.
FetchedOK ==
  \A v \in Visitors : visitor[v].at = "store" =>
    \/ visitor[v].got # Failed /\ since[visitor[v].got] <= Passed(v)
    \/ visitor[v].got \in {Failed, Missing} /\ fault <= Passed(v)

\* A copy is at most one tick older than it looks.
CopyOK ==
  \A e \in cache : e.age < CacheTTL =>
    \/ ~e.failed /\ since[e.posts] <= e.age + 1
    \/ (e.failed \/ e.posts = Missing) /\ fault <= e.age + 1

GalleryInv ==
  /\ GalleryTypeOK
  /\ since[manifest] = 0
  /\ FetchedOK
  /\ CopyOK

LEMMA GalleryInvStale == GalleryInv => StaleOnlyForATime
<1> SUFFICES ASSUME GalleryInv, NEW e \in cache, Served(e)
             PROVE  \/ ~e.failed /\ since[e.posts] <= TTL(e)
                    \/ (e.failed \/ e.posts = Missing) /\ fault <= MissTTL
  BY DEF StaleOnlyForATime
<1>1. e \in Entries
  BY DEF GalleryInv, GalleryTypeOK
<1>2. e.posts \in Posts /\ e.age \in Nat /\ e.failed \in BOOLEAN
  BY <1>1, TimesAssumption DEF Entries
<1>3. fault \in Nat /\ since[e.posts] \in Nat
  BY <1>2, TimesAssumption DEF GalleryInv, GalleryTypeOK, Ticks
<1>4. TTL(e) \in Nat /\ TTL(e) <= CacheTTL /\ e.age < TTL(e) /\ (e.failed \/ e.posts = Missing => TTL(e) = MissTTL)
  BY TimesAssumption DEF TTL, Served
<1>5. e.age < CacheTTL /\ e.age + 1 <= TTL(e)
  BY <1>2, <1>4, TimesAssumption
<1>6. \/ ~e.failed /\ since[e.posts] <= e.age + 1
      \/ (e.failed \/ e.posts = Missing) /\ fault <= e.age + 1
  BY <1>5 DEF GalleryInv, CopyOK
<1> QED
  BY <1>2, <1>3, <1>4, <1>5, <1>6

-----------------------------------------------------------------------------
\* Every step of the gallery keeps its invariant.

LEMMA GalleryInvInit == GalleryInit => GalleryInv
<1> SUFFICES ASSUME GalleryInit PROVE GalleryInv
  OBVIOUS
<1>1. GalleryTypeOK
  BY TimesAssumption DEF GalleryInit, GalleryTypeOK, NoVisit, NoPanel, Posts, Ticks
<1>2. since[manifest] = 0
  BY DEF GalleryInit
<1>3. FetchedOK /\ CopyOK
  BY DEF GalleryInit, FetchedOK, CopyOK, NoVisit
<1> QED BY <1>1, <1>2, <1>3 DEF GalleryInv

\* A visitor at work on nothing that the histories measure.
LEMMA LookupNext ==
  ASSUME GalleryInv, NEW v \in Visitors, Lookup(v)
  PROVE  GalleryInv'
<1>1. (IF cache = {} THEN Missing ELSE (CHOOSE e \in cache : TRUE).posts) \in Posts
  BY DEF GalleryInv, GalleryTypeOK, Entries, Posts
<1>2. PICK old \in Posts : visitor' = [visitor EXCEPT ![v] = [NoVisit EXCEPT !.at = "fetch", !.old = old]]
  BY <1>1 DEF Lookup
<1> DEFINE q == [NoVisit EXCEPT !.at = "fetch", !.old = old]
<1>3. q.at = "fetch" /\ q \in Visits
  BY DEF NoVisit, Visits, Posts
<1> HIDE DEF q
<1>4. GalleryTypeOK'
  <2>1. visitor' = [visitor EXCEPT ![v] = q]
    BY <1>2 DEF q
  <2>2. visitor \in [Visitors -> Visits]
    BY DEF GalleryInv, GalleryTypeOK, Visits
  <2>3. visitor' \in [Visitors -> Visits]
    BY <1>3, <2>1, <2>2
  <2> QED BY <2>3 DEF Lookup, GalleryInv, GalleryTypeOK, Visits
<1>5. FetchedOK'
  BY <1>3, <1>2 DEF Lookup, GalleryInv, GalleryTypeOK, FetchedOK, Passed
<1> QED
  BY <1>4, <1>5 DEF Lookup, GalleryInv, CopyOK

LEMMA FetchNext ==
  ASSUME GalleryInv, NEW v \in Visitors, FetchAnswers(v) \/ FetchRefused(v) \/ FetchFails(v)
  PROVE  GalleryInv'
<1>1. PICK c \in Posts \cup {Failed} :
        /\ Fetched(v, c)
        /\ \/ c \in {Failed, Missing} /\ fault' = 0
           \/ c = manifest /\ c \in Posts /\ UNCHANGED fault
  BY DEF FetchAnswers, FetchRefused, FetchFails, GalleryInv, GalleryTypeOK, Posts
<1>2. UNCHANGED <<manifest, late, cache, panel, since>>
  BY DEF FetchAnswers, FetchRefused, FetchFails
<1>3. fault \in Nat /\ fault' \in Ticks /\ fault' <= fault
  BY <1>1, TimesAssumption DEF GalleryInv, GalleryTypeOK, Ticks
<1>4. visitor' = [visitor EXCEPT ![v].at = "store", ![v].got = c]
  BY <1>1 DEF Fetched
<1>5. visitor' \in [Visitors -> Visits]
  <2> DEFINE q == [visitor[v] EXCEPT !.at = "store", !.got = c]
  <2>1. visitor \in [Visitors -> Visits]
    BY DEF GalleryInv, GalleryTypeOK, Visits
  <2>2. visitor[v] \in Visits
    BY <2>1
  <2>3. q \in Visits
    BY <2>2 DEF Visits
  <2>4. visitor' = [visitor EXCEPT ![v] = q]
    BY <1>4
  <2> HIDE DEF q
  <2> QED BY <2>1, <2>3, <2>4
<1>6. GalleryTypeOK'
  BY <1>2, <1>3, <1>5 DEF GalleryInv, GalleryTypeOK, Visits
<1>7. FetchedOK'
  <2> SUFFICES ASSUME NEW u \in Visitors, visitor'[u].at = "store"
               PROVE  \/ visitor'[u].got # Failed /\ since'[visitor'[u].got] <= Passed(u)'
                      \/ visitor'[u].got \in {Failed, Missing} /\ fault' <= Passed(u)'
    BY DEF FetchedOK
  <2>1. CASE u = v
    <3>1. visitor'[u].got = c /\ Passed(u)' \in {0, 1}
      BY <1>4, <2>1 DEF GalleryInv, GalleryTypeOK, Visits, Passed
    <3>2. c = manifest => c # Failed
      BY <1>1, ContentsAssumption DEF GalleryInv, GalleryTypeOK, Posts
    <3> QED
      BY <1>1, <1>2, <3>1, <3>2 DEF GalleryInv
  <2>2. CASE u # v
    <3>1. visitor'[u] = visitor[u] /\ Passed(u)' = Passed(u)
      BY <1>4, <2>2 DEF GalleryInv, GalleryTypeOK, Passed
    <3>2. Passed(u) \in {0, 1}
      BY DEF Passed
    <3> QED
      BY <1>2, <1>3, <3>1, <3>2, TimesAssumption DEF GalleryInv, FetchedOK, GalleryTypeOK, Ticks
  <2> QED BY <2>1, <2>2
<1>8. CopyOK'
  <2> SUFFICES ASSUME NEW e \in cache, e.age < CacheTTL
               PROVE  \/ ~e.failed /\ since[e.posts] <= e.age + 1
                      \/ (e.failed \/ e.posts = Missing) /\ fault' <= e.age + 1
    BY <1>2 DEF CopyOK
  <2>1. e.age \in Nat
    BY TimesAssumption DEF GalleryInv, GalleryTypeOK, Entries
  <2>2. \/ ~e.failed /\ since[e.posts] <= e.age + 1
        \/ (e.failed \/ e.posts = Missing) /\ fault <= e.age + 1
    BY DEF GalleryInv, CopyOK
  <2> QED BY <1>3, <2>1, <2>2, TimesAssumption DEF Ticks
<1> QED
  BY <1>2, <1>6, <1>7, <1>8 DEF GalleryInv

LEMMA StoreNext ==
  ASSUME GalleryInv, NEW v \in Visitors, Store(v)
  PROVE  GalleryInv'
<1> DEFINE q == visitor[v]
           e == IF q.got = Failed THEN [posts |-> q.old, failed |-> TRUE, age |-> 0]
                ELSE [posts |-> q.got, failed |-> FALSE, age |-> 0]
<1>1. UNCHANGED <<manifest, late, panel, since, fault>> /\ q.at = "store"
  BY DEF Store
<1>2. cache' = {e}
  BY DEF Store, Copy
<1>3. q \in Visits
  BY DEF GalleryInv, GalleryTypeOK, Visits
<1>4. e \in Entries
  BY <1>3, TimesAssumption DEF Visits, Entries
<1>5. visitor' = [visitor EXCEPT ![v] = NoVisit]
  BY DEF Store
<1>6. GalleryTypeOK'
  BY <1>1, <1>2, <1>4, <1>5 DEF GalleryInv, GalleryTypeOK, NoVisit, Posts
<1>7. FetchedOK'
  BY <1>1, <1>5 DEF GalleryInv, GalleryTypeOK, FetchedOK, NoVisit, Passed
<1>8. CopyOK'
  <2>1. Passed(v) \in {0, 1}
    BY DEF Passed
  <2>2. \/ q.got # Failed /\ since[q.got] <= Passed(v)
        \/ q.got \in {Failed, Missing} /\ fault <= Passed(v)
    BY <1>1 DEF GalleryInv, FetchedOK
  <2>3. fault \in Nat /\ (q.got # Failed => since[q.got] \in Nat)
    BY <1>3, TimesAssumption DEF GalleryInv, GalleryTypeOK, Ticks, Visits
  <2> QED BY <1>1, <1>2, <2>1, <2>2, <2>3 DEF CopyOK
<1> QED
  BY <1>1, <1>6, <1>7, <1>8 DEF GalleryInv

\* The bucket takes a gallery: what was saved before is no older for it.
Panels == [at : {"closed", "open", "drop", "saved"}, mine : SUBSET UNION Contents,
           saved : SUBSET UNION Contents]

LEMMA PutKeeps ==
  ASSUME GalleryInv, NEW c \in Contents, Put(c), UNCHANGED <<cache, visitor, fault>>,
         late' \subseteq Contents, (panel \in Panels)'
  PROVE  GalleryInv'
<1>1. c \in Posts /\ manifest' = c /\ since' = [since EXCEPT ![c] = 0]
  BY DEF Put, Posts
<1>2. \A p \in Posts : since'[p] \in Ticks /\ since[p] \in Nat /\ since'[p] <= since[p]
  BY <1>1, TimesAssumption DEF GalleryInv, GalleryTypeOK, Ticks
<1>3. GalleryTypeOK'
  BY <1>1, TimesAssumption DEF GalleryInv, GalleryTypeOK, Ticks, Panels
<1>4. FetchedOK'
  <2> SUFFICES ASSUME NEW v \in Visitors, visitor[v].at = "store"
               PROVE  \/ visitor[v].got # Failed /\ since'[visitor[v].got] <= Passed(v)
                      \/ visitor[v].got \in {Failed, Missing} /\ fault <= Passed(v)
    BY DEF FetchedOK, Passed
  <2>1. visitor[v].got \in Posts \cup {Failed} /\ Passed(v) \in {0, 1}
    BY DEF GalleryInv, GalleryTypeOK, Passed
  <2>2. \/ visitor[v].got # Failed /\ since[visitor[v].got] <= Passed(v)
        \/ visitor[v].got \in {Failed, Missing} /\ fault <= Passed(v)
    BY DEF GalleryInv, FetchedOK
  <2> QED BY <1>2, <2>1, <2>2, TimesAssumption DEF Ticks
<1>5. CopyOK'
  <2> SUFFICES ASSUME NEW e \in cache, e.age < CacheTTL
               PROVE  \/ ~e.failed /\ since'[e.posts] <= e.age + 1
                      \/ (e.failed \/ e.posts = Missing) /\ fault <= e.age + 1
    BY DEF CopyOK
  <2>1. e.posts \in Posts /\ e.age \in Nat
    BY TimesAssumption DEF GalleryInv, GalleryTypeOK, Entries
  <2>2. \/ ~e.failed /\ since[e.posts] <= e.age + 1
        \/ (e.failed \/ e.posts = Missing) /\ fault <= e.age + 1
    BY DEF GalleryInv, CopyOK
  <2> QED BY <1>2, <2>1, <2>2, TimesAssumption DEF Ticks
<1>6. since'[manifest'] = 0
  BY <1>1 DEF GalleryInv, GalleryTypeOK
<1> QED
  BY <1>3, <1>4, <1>5, <1>6 DEF GalleryInv

LEMMA PanelNext ==
  ASSUME GalleryInv,
         \/ Editable \/ DropCopy
         \/ \E c \in Contents : Upload(c) \/ UploadFails(c) \/ LandsLate(c)
  PROVE  GalleryInv'
<1>1. panel \in Panels /\ late \subseteq Contents
  BY DEF GalleryInv, GalleryTypeOK, Panels
<1>2. panel' \in Panels
  BY <1>1 DEF Editable, DropCopy, Upload, UploadFails, LandsLate, Panel, Panels
<1>3. late' \subseteq Contents
  BY <1>1 DEF Editable, DropCopy, Upload, UploadFails, LandsLate
<1>4. CASE \E c \in Contents : Put(c) /\ UNCHANGED <<cache, visitor, fault>>
  BY <1>2, <1>3, <1>4, PutKeeps
<1>5. CASE cache' \in {cache, {}} /\ UNCHANGED <<manifest, visitor, since, fault>>
  BY <1>2, <1>3, <1>5 DEF GalleryInv, GalleryTypeOK, FetchedOK, CopyOK, Passed, Panels
<1> QED
  BY <1>4, <1>5 DEF Editable, DropCopy, Upload, UploadFails, LandsLate

\* One tick makes everything one tick older, but what the bucket has.
LEMMA Next1Type ==
  ASSUME NEW n \in Ticks
  PROVE  Next1(n) \in Ticks /\ Next1(n) <= n + 1
BY TimesAssumption DEF Ticks, Next1

LEMMA TickNext ==
  ASSUME GalleryInv, Tick
  PROVE  GalleryInv'
<1>1. UNCHANGED <<manifest, late, panel>> /\ fault' = Next1(fault)
  BY DEF Tick
<1>2. fault \in Ticks /\ fault' \in Ticks /\ fault' <= fault + 1
  BY <1>1, Next1Type DEF GalleryInv, GalleryTypeOK
<1>3. /\ since' \in [Posts -> Ticks] /\ since'[manifest'] = 0
      /\ \A p \in Posts : since[p] \in Ticks /\ since'[p] <= since[p] + 1
  <2> SUFFICES ASSUME NEW p \in Posts
               PROVE  since[p] \in Ticks /\ since'[p] \in Ticks /\ since'[p] <= since[p] + 1
    BY <1>1 DEF Tick, GalleryInv, GalleryTypeOK
  <2>1. since[p] \in Ticks /\ Next1(since[p]) \in Ticks /\ Next1(since[p]) <= since[p] + 1
    BY Next1Type DEF GalleryInv, GalleryTypeOK
  <2>2. since'[p] = IF p = manifest THEN 0 ELSE Next1(since[p])
    BY DEF Tick
  <2> QED BY <2>1, <2>2, TimesAssumption DEF Ticks
<1>4. ASSUME NEW v \in Visitors
      PROVE  /\ ~visitor[v].late /\ visitor'[v] \in Visits
             /\ visitor'[v].at = visitor[v].at /\ visitor'[v].got = visitor[v].got
             /\ visitor'[v].late <=> visitor[v].at # "out"
  <2>1. ~visitor[v].late /\ visitor'[v] = [visitor[v] EXCEPT !.late = visitor[v].at # "out"]
    BY DEF Tick
  <2>2. visitor[v] \in Visits
    BY DEF GalleryInv, GalleryTypeOK, Visits
  <2>3. (visitor[v].at # "out") \in BOOLEAN
    OBVIOUS
  <2> QED BY <2>1, <2>2, <2>3 DEF Visits
<1>5. visitor' \in [Visitors -> Visits]
  BY <1>4 DEF Tick
<1>6. ASSUME NEW f \in cache'
      PROVE  \E e \in cache : /\ f = [e EXCEPT !.age = IF @ = CacheTTL THEN @ ELSE @ + 1]
                              /\ f \in Entries /\ f.failed = e.failed /\ f.posts = e.posts
                              /\ f.age < CacheTTL => e.age < CacheTTL /\ f.age = e.age + 1
  <2>1. PICK e \in cache : f = [e EXCEPT !.age = IF @ = CacheTTL THEN @ ELSE @ + 1]
    BY <1>6 DEF Tick
  <2>2. e \in Entries
    BY DEF GalleryInv, GalleryTypeOK
  <2> QED BY <2>1, <2>2, TimesAssumption DEF Entries
<1>7. \A d, f \in cache' : d = f
  BY <1>6 DEF GalleryInv, GalleryTypeOK
<1>8. GalleryTypeOK'
  BY <1>1, <1>2, <1>3, <1>5, <1>6, <1>7 DEF GalleryInv, GalleryTypeOK, Visits
<1>9. FetchedOK'
  <2> SUFFICES ASSUME NEW v \in Visitors, visitor'[v].at = "store"
               PROVE  \/ visitor'[v].got # Failed /\ since'[visitor'[v].got] <= Passed(v)'
                      \/ visitor'[v].got \in {Failed, Missing} /\ fault' <= Passed(v)'
    BY DEF FetchedOK
  <2>1. /\ visitor[v].at = "store" /\ visitor'[v].got = visitor[v].got
        /\ Passed(v) = 0 /\ Passed(v)' = 1
    BY <1>4 DEF Passed
  <2>2. \/ visitor[v].got # Failed /\ since[visitor[v].got] <= 0
        \/ visitor[v].got \in {Failed, Missing} /\ fault <= 0
    BY <2>1 DEF GalleryInv, FetchedOK
  <2>3. visitor[v].got \in Posts \cup {Failed}
    BY DEF GalleryInv, GalleryTypeOK
  <2> QED BY <1>2, <1>3, <2>1, <2>2, <2>3, TimesAssumption DEF Ticks, GalleryTypeOK
<1>10. CopyOK'
  <2> SUFFICES ASSUME NEW f \in cache', f.age < CacheTTL
               PROVE  \/ ~f.failed /\ since'[f.posts] <= f.age + 1
                      \/ (f.failed \/ f.posts = Missing) /\ fault' <= f.age + 1
    BY DEF CopyOK
  <2>1. PICK e \in cache : /\ f.failed = e.failed /\ f.posts = e.posts
                           /\ e.age < CacheTTL /\ f.age = e.age + 1
    BY <1>6
  <2>2. e.age \in Nat /\ e.posts \in Posts
    BY TimesAssumption DEF GalleryInv, GalleryTypeOK, Entries
  <2>3. \/ ~e.failed /\ since[e.posts] <= e.age + 1
        \/ (e.failed \/ e.posts = Missing) /\ fault <= e.age + 1
    BY <2>1 DEF GalleryInv, CopyOK
  <2>4. fault \in Nat /\ fault' \in Nat /\ since[e.posts] \in Nat /\ since'[e.posts] \in Nat
    BY <1>2, <1>3, <2>2, TimesAssumption DEF Ticks
  <2> QED BY <1>2, <1>3, <2>1, <2>2, <2>3, <2>4
<1> QED
  BY <1>3, <1>8, <1>9, <1>10 DEF GalleryInv

LEMMA GalleryRestartNext ==
  ASSUME GalleryInv, GalleryRestart
  PROVE  GalleryInv'
<1>1. GalleryTypeOK'
  <2>1. panel' \in Panels
    BY DEF GalleryRestart, Panel, GalleryInv, GalleryTypeOK, Panels
  <2> QED BY <2>1 DEF GalleryRestart, GalleryInv, GalleryTypeOK, NoVisit, Posts, Panels
<1>2. FetchedOK' /\ CopyOK'
  BY DEF GalleryRestart, FetchedOK, CopyOK, NoVisit
<1> QED
  BY <1>1, <1>2 DEF GalleryRestart, GalleryInv

LEMMA GalleryUnchanged ==
  ASSUME GalleryInv, UNCHANGED gallery
  PROVE  GalleryInv'
BY DEF GalleryInv, gallery, GalleryTypeOK, FetchedOK, CopyOK, Passed

LEMMA GalleryStep ==
  ASSUME GalleryInv, GalleryNext
  PROVE  GalleryInv'
BY LookupNext, FetchNext, StoreNext, PanelNext, TickNext DEF GalleryNext, VisitorStep

-----------------------------------------------------------------------------
\* The library and the gallery together.

\* What the gallery shows or may come to show, and what the panel counts on, is there
\* unless its deletion was asked for; what the gallery shows in spite of that was
\* deleted while it did.
ShownOK ==
  /\ (Showing \cup panel.mine \cup panel.saved) \ unwanted \subseteq objects
  /\ Showing \cap unwanted \subseteq blind

BlindOK == blind \subseteq unwanted

IInv == LibraryInv /\ GalleryInv /\ ShownOK /\ BlindOK

LEMMA ShownInvInit == Init => IInv
<1> SUFFICES ASSUME Init PROVE IInv
  OBVIOUS
<1>1. LibraryInv /\ GalleryInv
  BY LibraryInvInit, GalleryInvInit DEF Init
<1>2. Showing = {} /\ panel.mine = {} /\ panel.saved = {} /\ blind = {}
  BY DEF Init, GalleryInit, Showing, NoPanel
<1> QED
  BY <1>1, <1>2 DEF IInv, ShownOK, BlindOK

\* The library moves: an image that loses its object was asked to be deleted, and the
\* gallery showed it then or does not show it.
LEMMA LibraryStepShown ==
  ASSUME IInv, LibraryNext, UNCHANGED gallery
  PROVE  LibraryInv' /\ ShownOK' /\ BlindOK'
<1>1. PICK t \in Tasks, i \in Images :
        \/ LibraryStep(t, i) /\ UNCHANGED blind
        \/ Unused(i) /\ DeleteImage(t, i) /\ blind' = blind \cup ({i} \cap Showing)
  BY DEF LibraryNext
<1>2. LibraryInv'
  BY <1>1, UploadImageNext, PutObjectNext, InsertMediaNext, DeleteImageNext,
     DeleteObjectNext, DeleteMediaNext
     DEF LibraryStep, IInv
<1>3. Showing' = Showing /\ panel' = panel
  BY DEF gallery, Showing
<1>4. objects \subseteq objects' \/ \E j \in unwanted : objects \ {j} \subseteq objects'
  <2>1. CASE DeleteObject(t, i)
    <3>1. i \in unwanted
      BY <2>1, AtOne, WorksOnNamed DEF DeleteObject, IInv, LibraryInv, DeletionsOK
    <3> QED BY <2>1, <3>1 DEF DeleteObject
  <2>2. CASE ~DeleteObject(t, i)
    BY <1>1, <2>2 DEF LibraryStep, UploadImage, PutObject, InsertMedia, DeleteMedia, DeleteImage
  <2> QED BY <2>1, <2>2
<1>5. \/ unwanted' = unwanted /\ blind' = blind
      \/ unwanted' = unwanted \cup {i} /\ blind' = blind \cup ({i} \cap Showing)
  BY <1>1 DEF LibraryStep, UploadImage, PutObject, InsertMedia, DeleteObject, DeleteMedia,
     DeleteImage
<1> QED
  BY <1>2, <1>3, <1>4, <1>5 DEF IInv, ShownOK, BlindOK

\* The gallery moves: what the couple composes is in the bucket and stays there.
LEMMA GalleryStepShown ==
  ASSUME IInv, GalleryNext, UNCHANGED <<library, blind>>
  PROVE  ShownOK' /\ BlindOK'
<1>1. UNCHANGED <<objects, rows, unwanted, blind>>
  BY DEF library
<1>2. CASE VisitorStep \/ Tick
  <2>1. UNCHANGED <<manifest, late, panel>>
    BY <1>2 DEF VisitorStep, Lookup, FetchAnswers, FetchRefused, FetchFails, Store, Tick
  <2> QED BY <1>1, <2>1 DEF IInv, ShownOK, BlindOK, Showing
<1>3. CASE Editable \/ DropCopy
  <2>1. UNCHANGED <<manifest, late>> /\ panel'.saved = {}
    BY <1>3 DEF Editable, DropCopy, Panel
  <2>2. panel'.mine \subseteq Showing \cup panel.saved
    BY <1>3, ContentsAssumption DEF Editable, DropCopy, Panel, Showing
  <2> QED BY <1>1, <2>1, <2>2 DEF IInv, ShownOK, BlindOK, Showing
<1>4. CASE \E c \in Contents : LandsLate(c)
  <2>1. UNCHANGED panel /\ Showing' \subseteq Showing
    BY <1>4, ContentsAssumption DEF LandsLate, Put, Showing
  <2> QED BY <1>1, <2>1 DEF IInv, ShownOK, BlindOK
<1>5. CASE \E c \in Contents : Composed(c) /\ (Upload(c) \/ UploadFails(c))
  <2>1. PICK c \in Contents : Composed(c) /\ (Upload(c) \/ UploadFails(c))
    BY <1>5
  <2>2. /\ panel'.mine = panel.mine \cup c /\ panel'.saved \subseteq c
        /\ manifest' \in {manifest, c} /\ late' \subseteq late \cup {c}
    BY <2>1 DEF Upload, UploadFails, Put, Panel
  <2>3. c \subseteq objects /\ c \cap unwanted = {}
    BY <2>1 DEF Composed, IInv, ShownOK, LibraryInv, LibraryMatchesBucket, RowsHaveObjects
  <2>4. Showing' \subseteq Showing \cup c
    BY <2>2 DEF Showing
  <2> QED BY <1>1, <2>2, <2>3, <2>4 DEF IInv, ShownOK, BlindOK
<1> QED
  BY <1>2, <1>3, <1>4, <1>5 DEF GalleryNext

LEMMA RestartShown ==
  ASSUME IInv, Restart, UNCHANGED blind
  PROVE  ShownOK' /\ BlindOK'
<1>1. UNCHANGED <<objects, unwanted, manifest, late>>
  BY DEF Restart, LibraryRestart, GalleryRestart
<1>2. panel'.mine = panel.mine /\ panel'.saved \subseteq panel.saved
  BY DEF Restart, GalleryRestart, Panel
<1> QED
  BY <1>1, <1>2 DEF IInv, ShownOK, BlindOK, Showing

LEMMA InvNext == IInv /\ [Next]_vars => IInv'
<1> SUFFICES ASSUME IInv, [Next]_vars PROVE IInv'
  OBVIOUS
<1>1. CASE LibraryNext /\ UNCHANGED gallery
  BY <1>1, LibraryStepShown, GalleryUnchanged DEF IInv
<1>2. CASE GalleryNext /\ UNCHANGED <<library, blind>>
  BY <1>2, GalleryStepShown, GalleryStep, LibraryUnchanged DEF IInv
<1>3. CASE Restart /\ UNCHANGED blind
  BY <1>3, RestartShown, LibraryRestartNext, GalleryRestartNext DEF IInv, Restart
<1>4. CASE UNCHANGED vars
  <2>1. UNCHANGED library /\ UNCHANGED gallery /\ UNCHANGED blind
    BY <1>4 DEF vars
  <2> QED BY <2>1, LibraryUnchanged, GalleryUnchanged
          DEF IInv, ShownOK, BlindOK, Showing, library, gallery
<1> QED
  BY <1>1, <1>2, <1>3, <1>4 DEF Next

-----------------------------------------------------------------------------
\* The theorems.

\* The inductive invariant holds in every reachable state.
THEOREM SafetyInvariant == Spec => []IInv
BY ShownInvInit, InvNext, PTL DEF Spec

\* Bucket, table, copy and requests have a shape the code can give them.
THEOREM TypeCorrect == Spec => []TypeOK
<1>1. IInv => TypeOK
  BY DEF IInv, BlindOK, LibraryInv, GalleryInv, NamesOK, TasksOK, Works, Places, At, TypeOK
<1> QED
  BY <1>1, SafetyInvariant, PTL

\* cacheTTL and missTTL: in whatever order fetches, saves and ticks fall, visitors are
\* never shown a gallery older than its window unless the bucket failed.
THEOREM StalenessBounded == Spec => []StaleOnlyForATime
<1>1. IInv => StaleOnlyForATime
  BY GalleryInvStale DEF IInv
<1> QED
  BY <1>1, SafetyInvariant, PTL

\* Upload's and Delete's order of bucket and table: whatever fails, and whenever the
\* process dies, no listed image is broken and no answered deletion leaves anything.
THEOREM LibraryMatches == Spec => []LibraryMatchesBucket
<1>1. IInv => LibraryMatchesBucket
  BY DEF IInv, LibraryInv
<1> QED
  BY <1>1, SafetyInvariant, PTL

\* DELETE /media's advice is enough: who takes an image out of the gallery before
\* deleting it never shows a saved gallery with a broken image.
THEOREM GalleryWhole == Spec => []SavedGalleryIsWhole
<1>1. IInv => SavedGalleryIsWhole
  BY ContentsAssumption DEF IInv, ShownOK, Showing, SavedGalleryIsWhole
<1> QED
  BY <1>1, SafetyInvariant, PTL
=============================================================================
