---------------------------- MODULE TemplateCache ----------------------------
(***************************************************************************)
(* The custom waiting page of a room: resolveTemplate and RenderDefault of *)
(* internal/waitingroom/page.go, one step per lock or file access.  The    *)
(* operator may edit the file meanwhile; a template that cannot be read or *)
(* parsed is not cached, and the built-in one is shown.                    *)
(***************************************************************************)
CONSTANTS
  Handlers,  \* requests in flight
  Templates  \* contents of the file that parse

VARIABLES
  file,      \* what is at the room's CustomPageTemplate now
  tmplCache, \* tmplCache[path]
  render     \* what each handler is doing, with the template it has got

cacheVars == <<file, tmplCache, render>>

NoRender == [pc |-> "idle", tmpl |-> "none"]

CacheInit ==
  /\ file = "missing"
  /\ tmplCache = "none"
  /\ render = [h \in Handlers |-> NoRender]

Rendering(h, pc, tmpl) == render' = [render EXCEPT ![h] = [pc |-> pc, tmpl |-> tmpl]]

(* Without a custom template there is nothing to look up. *)
BeginRender(h, custom) ==
  /\ render[h].pc = "idle"
  /\ IF custom THEN Rendering(h, "lookup", "none") ELSE Rendering(h, "execute", "default")
  /\ UNCHANGED <<file, tmplCache>>

(* A slip: the cache is filled and not asked. *)
LookUpMisses(h) ==
  /\ render[h].pc = "lookup"
  /\ Rendering(h, "read", "none")
  /\ UNCHANGED <<file, tmplCache>>

LookUp(h) ==
  /\ render[h].pc = "lookup"
  /\ IF tmplCache # "none" THEN Rendering(h, "execute", tmplCache) ELSE Rendering(h, "read", "none")
  /\ UNCHANGED <<file, tmplCache>>

(* A slip: the error of the parser is dropped. *)
ReadAndDropError(h) ==
  /\ render[h].pc = "read"
  /\ IF file # "missing" THEN Rendering(h, "store", file) ELSE Rendering(h, "execute", "default")
  /\ UNCHANGED <<file, tmplCache>>

ReadAndParse(h) ==
  /\ render[h].pc = "read"
  /\ IF file \in Templates THEN Rendering(h, "store", file) ELSE Rendering(h, "execute", "default")
  /\ UNCHANGED <<file, tmplCache>>

(* Without a second look: the last of two that missed replaces the other's. *)
StoreParsed(h) ==
  /\ render[h].pc = "store"
  /\ tmplCache' = render[h].tmpl
  /\ Rendering(h, "execute", render[h].tmpl)
  /\ UNCHANGED file

EndRender(h) ==
  /\ render[h].pc = "execute"
  /\ render' = [render EXCEPT ![h] = NoRender]
  /\ UNCHANGED <<file, tmplCache>>

Edit ==
  /\ file' \in Templates \cup {"missing", "broken"}
  /\ UNCHANGED <<tmplCache, render>>

RenderStep(h) == LookUp(h) \/ ReadAndParse(h) \/ StoreParsed(h) \/ EndRender(h)

-----------------------------------------------------------------------------
(* Parsed once and cached (README.md:819): when the first requests, which  *)
(* may race to parse, are done, the template stays whatever becomes of the *)
(* file, and nobody who asks then is shown another (page.go:72-102).       *)
Settled == tmplCache # "none" /\ \A h \in Handlers : render[h].pc \notin {"read", "store"}

CacheSettles ==
  [][Settled =>
       /\ Settled' /\ tmplCache' = tmplCache
       /\ \A h \in Handlers : render[h].pc = "lookup" =>
            render'[h] \in {render[h], NoRender, [pc |-> "execute", tmpl |-> tmplCache]}]_cacheVars
=============================================================================
