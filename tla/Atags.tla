-------------------------------- MODULE Atags -------------------------------
(***************************************************************************)
(* atags_detect of arch/arm/atags/atags.c: the walk over the list of tags  *)
(* the boot loader left in memory, one action per round of its loop, and   *)
(* within it the calls of parse_cmdline_int (module Cmdline).              *)
(*                                                                         *)
(* atags.c defines printk(...) as nothing, so what the walk would report   *)
(* is not there: memory that starts elsewhere is taken like any other, and *)
(* a tag it does not know is looked at for ever, as no case steps over it. *)
(***************************************************************************)
EXTENDS Cmdline

CONSTANTS
  Keys,       \* <<"fbwidth", "fbheight", "rev">>, as sequences of characters
  Lists       \* the lists of tags, each with an ATAG_NONE

Skipped == {"CORE", "VIDEOTEXT", "RAMDISK", "INITRD2", "SERIAL", "REVISION",
            "VIDEOLFB"}

Known == Skipped \cup {"MEM", "CMDLINE", "NONE"}

(* A tag, the memory it reports (how much and from where), the line it     *)
(* holds, and whether its size is 0.                                       *)
Tag == [tag : Known \cup {"unknown"}, mem : Nat, start : Nat,
        line : Seq(DOMAIN Ascii), empty : BOOLEAN]

ASSUME AtagsAssumption ==
  /\ Keys \in Seq(Seq(DOMAIN Ascii) \ {<<>>})
  /\ Keys # <<>>
  /\ \A m, n \in DOMAIN Keys : Keys[m] = Keys[n] => m = n
  /\ Lists \subseteq Seq(Tag)
  /\ \A l \in Lists : \E n \in DOMAIN l : l[n].tag = "NONE"

VARIABLES
  list,       \* the tags in memory
  tags,       \* the tag the loop looks at
  ramsize,    \* atag_info.ramsize
  cmdline,    \* atag_info.cmdline: the tag it points into, 0 for NULL
  info,       \* atag_info.framebuffer_x, framebuffer_y and revision
  pc          \* "detect", "parse" or "done"

atags_vars == <<list, tags, ramsize, cmdline, info, pc, parse_vars>>

DetectInit ==
  /\ list \in Lists
  /\ tags = 1
  /\ ramsize = 0 /\ cmdline = 0 /\ info = [n \in DOMAIN Keys |-> 0]   \* memset
  /\ pc = "detect"
  /\ ParseInit

(* The loop looks at a tag of this kind. *)
At(kinds) == pc = "detect" /\ list[tags].tag \in kinds

(* tags += size *)
Advance == tags' = IF list[tags].empty THEN tags ELSE tags + 1

(* ATAG_MEM: where the memory starts changes nothing. *)
Mem ==
  /\ At({"MEM"})
  /\ ramsize' = list[tags].mem
  /\ Advance
  /\ UNCHANGED <<list, cmdline, info, pc, parse_vars>>

(* ATAG_CMDLINE: the first key is looked for, *)
Cmdline ==
  /\ At({"CMDLINE"})
  /\ cmdline' = tags
  /\ ParseCall(list[tags].line, Keys[1])
  /\ pc' = "parse"
  /\ UNCHANGED <<list, tags, ramsize, info>>

Parsing == pc = "parse" /\ Parse /\ UNCHANGED <<list, tags, ramsize, cmdline, info, pc>>

(* and when the n-th key's number is there, the next key. *)
Parsed(n) ==
  /\ pc = "parse" /\ loop = "none" /\ key = Keys[n]
  /\ info' = [info EXCEPT ![n] = result]
  /\ IF n < Len(Keys)
       THEN ParseCall(line, Keys[n + 1]) /\ UNCHANGED <<tags, pc>>
       ELSE Advance /\ pc' = "detect" /\ UNCHANGED parse_vars
  /\ UNCHANGED <<list, ramsize, cmdline>>

(* A faulty Skip: one tag is not stepped over. *)
SkipAllBut ==
  /\ At(Skipped \ {"SERIAL"})
  /\ Advance
  /\ UNCHANGED <<list, ramsize, cmdline, info, pc, parse_vars>>

Skip ==
  /\ At(Skipped)
  /\ Advance
  /\ UNCHANGED <<list, ramsize, cmdline, info, pc, parse_vars>>

(* A faulty None: it is stepped over like any other tag. *)
NoneSteppedOver ==
  /\ At({"NONE"})
  /\ tags' = tags + 1
  /\ UNCHANGED <<list, ramsize, cmdline, info, pc, parse_vars>>

(* ATAG_NONE ends the walk. *)
None ==
  /\ At({"NONE"})
  /\ pc' = "done"
  /\ UNCHANGED <<list, tags, ramsize, cmdline, info, parse_vars>>

(* Any other tag: the loop looks at it again. *)
Unknown == At({"unknown"}) /\ UNCHANGED atags_vars

Detect ==
  \/ Mem \/ Cmdline \/ Parsing \/ (\E n \in DOMAIN Keys : Parsed(n))
  \/ Skip \/ None \/ Unknown

-----------------------------------------------------------------------------
(* The walk stays within the list. *)
DetectTypeOK ==
  /\ tags \in DOMAIN list
  /\ ramsize \in Nat /\ cmdline \in 0 .. Len(list)
  /\ info \in [DOMAIN Keys -> Int]
  /\ ParseTypeOK
=============================================================================
