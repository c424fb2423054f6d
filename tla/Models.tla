------------------------------- MODULE Models -------------------------------
(***************************************************************************)
(* The parts of models side by side: the life of instances (ModelLife),    *)
(* what classes keep in static fields (ModelBoot), related rows            *)
(* (Relations), and the files of the model File (Files).  They share no    *)
(* state.                                                                  *)
(***************************************************************************)
EXTENDS ModelLife

CONSTANTS Classes, Model, Scopes, Handlers, Uses, Registered, MaxCalls,      \* of ModelBoot
          Users, Posts, Roles, RoleUsers, PivotModel, MaxRelCalls,           \* of Relations
          Requests, Sizes, MaxUploads, MaxAsked, MaxTroubles                 \* of Files
VARIABLES own, listeners, proto, globalScopes, without, applied, used, calls, asked, last,
          side, posts, roles, pivot, relCall, relCalls, syncs,
          files, disk, uploads, links, req, fileAsked, troubles, broken, crossed, rough

Boot == INSTANCE ModelBoot
Rel == INSTANCE Relations WITH MaxCalls <- MaxRelCalls, call <- relCall, calls <- relCalls
F == INSTANCE Files WITH asked <- fileAsked

\* A class finds in its statics what was registered on it and nothing else,
\* and soft-deletes from the start (ModelBoot).
StaticsKept == Boot!StaticsKept

\* A relation read for many parents shows each what it shows alone (Relations).
EagerIsLazy == Rel!EagerIsLazy

\* A call on a relation changes the rows it is about and no others (Relations).
CallsTouchTheirOwn == Rel!CallsTouchTheirOwn

\* Files on the disk, their rows and their thumbnails agree: what a row says is
\* there, what was deleted is gone, and a live file is served (Files).
FilesKept == F!FilesKept
=============================================================================
