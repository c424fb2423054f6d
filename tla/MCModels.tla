------------------------------ MODULE MCModels ------------------------------
(***************************************************************************)
(* Models for TLC: a behaviour is about instances (ModelLife), about the   *)
(* statics of classes (ModelBoot), about related rows (Relations) or about *)
(* files (Files); those it is not about stay as they begin.                *)
(***************************************************************************)
EXTENDS Models, TLC

CONSTANTS User, Role, h1, h2
VARIABLE about

Thumbs == <<"md", "sm">>
TwoClasses == {User, Role}
Traits == User :> <<"Sortable", "SoftDeletes">> @@ Role :> <<"Custom", "SoftDeletes">>

lifeVars == <<rows, inst, call, ops, ghost>>
bootVars == <<own, listeners, proto, globalScopes, without, applied, used, calls, asked, last>>
relVars == <<side, posts, roles, pivot, relCall, relCalls, syncs>>
fileVars == <<files, disk, uploads, links, req, fileAsked, troubles, broken, crossed, rough>>
mcVars == <<about, mongo, rows, inst, call, ops, ghost,
            own, listeners, proto, globalScopes, without, applied, used, calls, asked, last,
            side, posts, roles, pivot, relCall, relCalls, syncs,
            files, disk, uploads, links, req, fileAsked, troubles, broken, crossed, rough>>

MCInit == /\ about \in {"instances", "classes", "relations", "files"}
          /\ Init /\ Boot!Init /\ Rel!Init /\ F!Init
          /\ about = "files" => ~mongo
          /\ about # "relations" => side = "key"
MCNext == /\ UNCHANGED about
          /\ \/ about = "instances" /\ Next /\ UNCHANGED <<bootVars, relVars, fileVars>>
             \/ about = "classes" /\ Boot!Next /\ UNCHANGED <<mongo, lifeVars, relVars, fileVars>>
             \/ about = "relations" /\ Rel!Next /\ UNCHANGED <<lifeVars, bootVars, fileVars>>
             \/ about = "files" /\ F!Next /\ UNCHANGED <<mongo, lifeVars, bootVars, relVars>>
MCSpec == MCInit /\ [][MCNext]_mcVars

Interchangeable == Permutations(Insts) \union Permutations(Callers) \union Permutations(Requests)
=============================================================================
