---------------------------- MODULE MCPhysicalRestore ----------------------------
(* Restores of two InnoDB tables, one of them indexed, and a MyISAM table. *)
EXTENDS PhysicalRestore

CONSTANTS plain, indexed, myisam

Disk(schema, listed) ==
    [schema |-> schema, listed |-> listed, metadata |-> TRUE,
     missing |-> {}, changed |-> {}, damaged |-> {}]

SoundBackups ==
    {Disk(schema, listed) : schema \in SUBSET Tables, listed \in SUBSET Tables \ {{}}}

\* One defect of each kind; both files of the MyISAM table may be missing, and
\* an index file that is damaged may be there or not.
Defective(b) ==
    {[b EXCEPT !.metadata = FALSE]}
    \cup {[b EXCEPT !.changed = {f}] : f \in Files}
    \cup {[b EXCEPT !.missing = m, !.damaged = d] :
             m \in {{f} : f \in Files} \cup {{}, FilesOf(myisam)}, d \in {{}, {myisam}}}

AllBackups ==
    {b \in SoundBackups : b.listed \subseteq b.schema}
    \cup UNION {Defective(Disk(Tables, listed)) : listed \in {Tables, {plain}}}

AllRequests ==
    {[full |-> TRUE, wanted |-> {}]}
    \cup [full : {FALSE}, wanted : {{plain, myisam}, {indexed}}]
=============================================================================
