----------------------------- MODULE InputHashes -----------------------------
(***************************************************************************)
(* The cache of input checksums of bench/quick.py (InputHashes.verify): a  *)
(* verdict on a file is kept under the file's identity (path, size, mtime, *)
(* inode), and several processes verify the same file while it may change. *)
(*                                                                         *)
(* The file's versions are numbered; Content says what each holds.  Its    *)
(* identity is the number: every change shows in the size, mtime or inode. *)
(* A checksum is taken in two reads, so a change may fall between them.    *)
(***************************************************************************)
EXTENDS Naturals, Sequences

CONSTANTS
    Hashers,    \* processes that verify the file
    Content,    \* version -> what the file holds
    Pin,        \* the content whose checksum the manifest expects
    MaxVersion  \* bound: the file's last version

ASSUME ContentAssumption == MaxVersion \in Nat /\ DOMAIN Content = 0..MaxVersion

VARIABLES
    file,       \* the file's version now
    cache,      \* the entry under the file's key
    h           \* hasher -> where its verify stands

hashVars == <<file, cache, h>>

\* No entry, or one that does not parse or is another host's.
NoEntry == [valid |-> FALSE, version |-> 0, sum |-> <<>>]

\* What both reads of an unchanging version give.
SumOf(version) == <<Content[version], Content[version]>>

Unstarted == [pc |-> "off", seen |-> 0, sum |-> <<>>]

HashInit ==
    /\ file = 0
    /\ cache = NoEntry
    /\ h = [p \in Hashers |-> Unstarted]

\* The identity, before anything else (quick.py:92-94).
Stat(p) ==
    /\ h[p].pc = "off"
    /\ h' = [h EXCEPT ![p] = [pc |-> "lookup", seen |-> file, sum |-> <<>>]]
    /\ UNCHANGED <<file, cache>>

\* An entry counts only for the identity it was taken of (quick.py:101-103).
Hit(entry, seen) == entry.valid /\ entry.version = seen

Lookup(p) ==
    /\ h[p].pc = "lookup"
    /\ h' = [h EXCEPT ![p] =
                IF Hit(cache, @.seen) THEN [pc |-> "recheck", seen |-> @.seen, sum |-> cache.sum]
                ELSE [pc |-> "hash", seen |-> @.seen, sum |-> <<>>]]
    /\ UNCHANGED <<file, cache>>

\* digest reads block after block of whatever the file holds then.
ReadBlock(p) ==
    /\ h[p].pc = "hash" /\ Len(h[p].sum) < 2
    /\ h' = [h EXCEPT ![p].sum = Append(@, Content[file])]
    /\ UNCHANGED <<file, cache>>

\* MUTANT: the identity is not looked at again.
SameFile_Assumed(seen) == TRUE

SameFile(seen) == file = seen

\* The checksum stands only if the identity is still the one seen first.
Confirm(p) ==
    /\ h[p].pc = "hash" /\ Len(h[p].sum) = 2
    /\ h' = [h EXCEPT ![p].pc = IF SameFile(h[p].seen) THEN "publish" ELSE "mismatch"]
    /\ UNCHANGED <<file, cache>>

\* A file of its own, renamed over the entry: the last writer's stays.
Publish(p) ==
    /\ h[p].pc = "publish"
    /\ cache' = [valid |-> TRUE, version |-> h[p].seen, sum |-> h[p].sum]
    /\ h' = [h EXCEPT ![p].pc = "recheck"]
    /\ UNCHANGED file

\* The identity once more, then the checksum against the manifest's.
Recheck(p) ==
    /\ h[p].pc = "recheck"
    /\ h' = [h EXCEPT ![p].pc =
                IF SameFile(h[p].seen) /\ h[p].sum = <<Pin, Pin>> THEN "ok" ELSE "mismatch"]
    /\ UNCHANGED <<file, cache>>

HashSteps(p) ==
    Lookup(p) \/ ReadBlock(p) \/ Confirm(p) \/ Publish(p) \/ Recheck(p)

\* A check finds the deadline passed, a signal comes, or the process dies: the
\* verify is over and at most an unnamed partial file is left.
HashStop(p) ==
    /\ h[p].pc \in {"lookup", "hash", "publish", "recheck"}
    /\ h' = [h EXCEPT ![p].pc = "stopped"]
    /\ UNCHANGED <<file, cache>>

\* Somebody rewrites the file, which gives it another identity.
Rewrite ==
    /\ file < MaxVersion
    /\ file' = file + 1
    /\ UNCHANGED <<cache, h>>

HashNext == Rewrite \/ \E p \in Hashers : Stat(p) \/ HashSteps(p) \/ HashStop(p)

HashSpec == HashInit /\ [][HashNext]_hashVars

-----------------------------------------------------------------------------

\* What a verdict rests on is true: an entry holds the checksum of the version
\* it names, whoever wrote it and whatever changed meanwhile, and a hasher that
\* says ok saw a version that holds the manifest's content (quick.py:91-127).
VerdictsAreTrue ==
    /\ cache.valid => cache.sum = SumOf(cache.version)
    /\ \A p \in Hashers : h[p].pc = "ok" => Content[h[p].seen] = Pin
=============================================================================
