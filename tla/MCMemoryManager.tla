--------------------------- MODULE MCMemoryManager ---------------------------
(* Small instances of MemoryManager: text "b" is alike enough to "a" for an   *)
(* update to find one for the other, not for a deletion or a new memory; "-"  *)
(* makes no key.                                                              *)
EXTENDS MemoryManager, TLC

MCScore == [p \in Text \X Text |-> IF p[1] = p[2] THEN 100 ELSE 72]

MCSlug == [t \in Text |-> IF t = "-" THEN NoKey ELSE t]

Planned(op, id, text, category, importance) ==
    [op |-> op, memory_id |-> id, text |-> text, category |-> category,
     importance |-> importance]

MCOp ==
    {Planned("CREATE", NoMem, "a", "PREFERENCE", 3), Planned("CREATE", NoMem, "b", "FACT", 2),
     Planned("UPDATE", NoMem, "b", "FACT", 4), Planned("CREATE", NoMem, "-", "PREFERENCE", 3),
     Planned("DELETE", "m1", NoText, "FACT", 3)}
=============================================================================
