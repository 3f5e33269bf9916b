---------------------------- MODULE MCMergeDriver ----------------------------
(***************************************************************************)
(* Two invocations, one edit.  The layouts have every path in its own      *)
(* file, the report linked to ours, the output linked to theirs, and ours  *)
(* linked to base.                                                         *)
(***************************************************************************)
EXTENDS MergeDriver

Plain == [p \in Paths |-> p]

MCLayouts ==
  {Plain, [Plain EXCEPT !["report"] = "ours"], [Plain EXCEPT !["out"] = "theirs"],
   [Plain EXCEPT !["ours"] = "base"]}

MCRequests ==
  {r \in [ lane : {"typed"}, complete : {TRUE}, report : {None, "report", "out"},
           output : {"ours", "out"}, checkOnly : BOOLEAN, exitCode : BOOLEAN,
           writeConflict : BOOLEAN, fallback : {FALSE}, json : {FALSE} ] :
     r.writeConflict => ~r.exitCode}
  \cup [ lane : {"legacy"}, complete : {TRUE}, report : {None, "report", "out"},
         output : {"ours", "theirs", "out"}, checkOnly : {FALSE}, exitCode : {FALSE},
         writeConflict : {FALSE}, fallback : BOOLEAN, json : {FALSE} ]
  \cup [ lane : {"legacy"}, complete : {TRUE}, report : {"report"},
         output : {"ours"}, checkOnly : {TRUE}, exitCode : BOOLEAN,
         writeConflict : {FALSE}, fallback : {TRUE}, json : {FALSE} ]
  \cup [ lane : {"diff"}, complete : BOOLEAN, report : {None, "report", "ours"},
         output : {"ours"}, checkOnly : {FALSE}, exitCode : {TRUE},
         writeConflict : {FALSE}, fallback : {FALSE}, json : BOOLEAN ]
=============================================================================
