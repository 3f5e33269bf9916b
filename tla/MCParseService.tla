--------------------------- MODULE MCParseService ---------------------------
(* TLC instance of ParseService: three providers that differ in family,     *)
(* capabilities, languages and priority, one application constraint, and    *)
(* batches that exercise every admission error and every kind of selection. *)
EXTENDS ParseService

MCBackends == 1..3

Desc(family, langs, dialects, caps, priority) ==
  [family |-> family, langs |-> langs, dialects |-> dialects,
   contracts |-> {"result"}, caps |-> caps, priority |-> priority]

MCDescriptor ==
  <<Desc("native", {"rust"}, {"2021"}, {"comments"}, 0),
    Desc("pack", {"rust", "json"}, {}, {"comments"}, 5),
    Desc("banned", {"rust", "json"}, {}, {"comments"}, 9)>>

MCProfile == [rust |-> <<1>>, json |-> <<>>]

MCConstraints ==
  {[allowed |-> {}, forbidden |-> {}, families |-> {},
    forbiddenFamilies |-> {"banned"}, contracts |-> {"result"},
    caps |-> {"comments"}]}

Req(rid, sid, lang, explicit, preference) ==
  [rid |-> rid, sid |-> sid, lang |-> lang, dialect |-> NoId,
   explicit |-> explicit, preference |-> preference, caps |-> {},
   wellformed |-> TRUE, intact |-> TRUE, bytes |-> 1]

Rust == Req("r1", "s1", "rust", NoId, <<>>)
Json == Req("r2", "s2", "json", NoId, <<>>)
RustPack == Req("r2", "s2", "rust", NoId, <<2, 1>>)

MCBatches ==
  {<<>>,
   <<Rust, Json>>, <<Rust, RustPack>>,
   <<[Rust EXCEPT !.dialect = "2021"], [RustPack EXCEPT !.explicit = 2]>>,
   <<Req("r1", "s1", "json", 1, <<>>)>>,            \* explicit, ineligible
   <<Rust, [Json EXCEPT !.rid = "r1"]>>,            \* duplicate request
   <<Rust, [Json EXCEPT !.sid = "s1"]>>,            \* duplicate source
   <<Rust, [Json EXCEPT !.wellformed = FALSE]>>,
   <<Rust, [Json EXCEPT !.intact = FALSE]>>,
   <<Rust, [Json EXCEPT !.bytes = 2]>>,             \* over the byte budget
   <<Rust, Json, Req("r3", "s3", "json", NoId, <<>>)>>}  \* over MaxBatchItems

=============================================================================
