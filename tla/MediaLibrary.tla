----------------------------- MODULE MediaLibrary -----------------------------
(***************************************************************************)
(* The couple's images: an object in the public bucket and a row in the    *)
(* table media, two systems with no transaction in common.  Upload writes  *)
(* the object and then the row, Delete removes them in the same order, and *)
(* each of the calls may fail, before or after it took effect.             *)
(***************************************************************************)
CONSTANTS
  Images, \* the names an upload may be given; uuid never gives one twice
  Tasks   \* requests under way

VARIABLES
  objects,  \* names the bucket has an object of
  rows,     \* names the table has a row of
  task,     \* where each request is
  named,    \* names already given
  stray,    \* history: names of uploads that broke off
  unwanted, \* history: images somebody asked to delete
  answered  \* history: images somebody was told are deleted, or not there

library == <<objects, rows, task, named, stray, unwanted, answered>>

NoTask == [at |-> "none", images |-> {}]

LibraryInit ==
  /\ objects = {} /\ rows = {} /\ named = {}
  /\ task = [t \in Tasks |-> NoTask]
  /\ stray = {} /\ unwanted = {} /\ answered = {}

At(t, at, i) == task[t] = [at |-> at, images |-> {i}]

To(t, at, i) == task' = [task EXCEPT ![t] = [at |-> at, images |-> {i}]]

Ends(t) == task' = [task EXCEPT ![t] = NoTask]

-----------------------------------------------------------------------------
\* Variant: the name is the file's own.
UploadUnnamed(t, i) ==
  /\ task[t] = NoTask
  /\ To(t, "put", i)
  /\ UNCHANGED <<objects, rows, named, stray, unwanted, answered>>

\* Upload of a file of a supported type; others are refused and nothing happens.
UploadImage(t, i) ==
  /\ task[t] = NoTask
  /\ i \notin named
  /\ named' = named \cup {i}
  /\ To(t, "put", i)
  /\ UNCHANGED <<objects, rows, stray, unwanted, answered>>

\* Variant: the image is listed whatever the bucket answered.
PutObjectAnyway(t, i) ==
  /\ At(t, "put", i)
  /\ To(t, "insert", i)
  /\ objects' \in {objects, objects \cup {i}}
  /\ UNCHANGED <<rows, named, stray, unwanted, answered>>

PutObject(t, i) ==
  /\ At(t, "put", i)
  /\ \/ /\ objects' = objects \cup {i} /\ To(t, "insert", i)
        /\ UNCHANGED stray
     \/ /\ objects' \in {objects, objects \cup {i}} /\ Ends(t)
        /\ stray' = stray \cup {i}
  /\ UNCHANGED <<rows, named, unwanted, answered>>

InsertMedia(t, i) ==
  /\ At(t, "insert", i)
  /\ Ends(t)
  /\ \/ rows' = rows \cup {i} /\ UNCHANGED stray
     \/ rows' \in {rows, rows \cup {i}} /\ stray' = stray \cup {i}
  /\ UNCHANGED <<objects, named, unwanted, answered>>

-----------------------------------------------------------------------------
\* Delete of an image that was listed; GetMedia may find it gone, or fail.
DeleteImage(t, i) ==
  /\ task[t] = NoTask
  /\ i \in rows \cup unwanted
  /\ unwanted' = unwanted \cup {i}
  /\ IF i \in rows THEN To(t, "remove", i) /\ UNCHANGED answered
     ELSE answered' = answered \cup {i} /\ UNCHANGED task
  /\ UNCHANGED <<objects, rows, named, stray>>

\* Variant: an object that cannot be removed does not stop the deletion.
DeleteObjectAnyway(t, i) ==
  /\ At(t, "remove", i)
  /\ To(t, "delete", i)
  /\ objects' \in {objects, objects \ {i}}
  /\ UNCHANGED <<rows, named, stray, unwanted, answered>>

\* The bucket's delete succeeds on a name it does not have.
DeleteObject(t, i) ==
  /\ At(t, "remove", i)
  /\ \/ objects' = objects \ {i} /\ To(t, "delete", i)
     \/ objects' \in {objects, objects \ {i}} /\ Ends(t)
  /\ UNCHANGED <<rows, named, stray, unwanted, answered>>

\* Deleted, or found gone: both are told.
DeleteMedia(t, i) ==
  /\ At(t, "delete", i)
  /\ Ends(t)
  /\ \/ rows' = rows \ {i} /\ answered' = answered \cup {i}
     \/ rows' \in {rows, rows \ {i}} /\ UNCHANGED answered
  /\ UNCHANGED <<objects, named, stray, unwanted>>

-----------------------------------------------------------------------------
\* The process starts over, and its requests are gone.
LibraryRestart ==
  /\ task' = [t \in Tasks |-> NoTask]
  /\ stray' = stray \cup UNION {task[t].images : t \in {q \in Tasks : task[q].at \in {"put", "insert"}}}
  /\ UNCHANGED <<objects, rows, named, unwanted, answered>>

LibraryStep(t, i) ==
  \/ UploadImage(t, i) \/ PutObject(t, i) \/ InsertMedia(t, i)
  \/ DeleteObject(t, i) \/ DeleteMedia(t, i)

-----------------------------------------------------------------------------
\* A row whose image is shown to nobody is one that somebody asked to delete.
RowsHaveObjects == rows \ objects \subseteq unwanted

\* An object without a row is left of an upload that broke off or is under way.
ObjectsHaveRows ==
  \A i \in objects \ rows : i \in stray \/ \E t \in Tasks : i \in task[t].images

\* Once a deletion was answered, by success or by not found, nothing of the image
\* is left in either place, now or later.
DeletedIsGone == answered \cap (objects \cup rows) = {}

\* Upload's and Delete's order of two systems: whatever fails and whenever the
\* process dies, an image that was uploaded and listed stays whole until its
\* deletion is asked for, and what an answered deletion leaves is nothing.
LibraryMatchesBucket == RowsHaveObjects /\ ObjectsHaveRows /\ DeletedIsGone
=============================================================================
