----------------------------- MODULE MCScheduler -----------------------------
(***************************************************************************)
(* Small instances of Scheduler: one block of two pages, a header of one   *)
(* byte for everything that has a header, and a handful of requests.       *)
(***************************************************************************)
EXTENDS SchedulerRefinement, TLC

CONSTANTS v1, v2

Req(direction, scope, page, properties, value, size) ==
  [direction |-> direction, address |-> NewAddress(scope, 0, page, 0),
   properties |-> properties, value |-> value, size |-> size]

ReadPage(p) == Req("Read", Page, p, {}, v1, 0)
WritePage(p, properties, v) == Req("Write", Page, p, properties, v, PAGE_SIZE_INCL_HEADER)

(* Pages of one block read and written, for the run about arrays.          *)
PageTemplates ==
  {ReadPage(0), ReadPage(1), WritePage(0, {"Flush"}, v1), WritePage(0, {}, v2)}

(* One write has a payload that is too short, so that the reader throws.   *)
TooShort == Req("Write", Page, 0, {}, v1, PAGE_SIZE_INCL_HEADER - 1)

(* Requests of different extents over the same bytes, with and without a   *)
(* flush, and one the reader throws on.                                    *)
StoreTemplates ==
  {ReadPage(0), TooShort,
   Req("Write", Page, 0, {"OnlyHeader", "Flush"}, v1, 1),
   Req("Write", Page, 1, {"OnlyHeader"}, v2, 1)}

(* The shortest transfers there are, for many clients.                     *)
HeaderTemplates ==
  {Req("Read", Page, 1, {"OnlyHeader"}, v1, 0),
   Req("Write", Page, 1, {"OnlyHeader", "Flush"}, v1, 1)}

(* Clients, ids and arrays are interchangeable; sound in the run that has  *)
(* no liveness property.                                                   *)
Symmetry == Permutations(Client) \cup Permutations(Id) \cup Permutations(Buffer)
=============================================================================
