------------------------------- MODULE Cache -------------------------------
(***************************************************************************)
(* The artifact cache (core/cachestore.py) under its one user, the policy  *)
(* text at the head of every prompt (core/context/compose.py _policy_text):*)
(* hash the policy files, look the hashes up, and on a miss read the files *)
(* and store their text under the hashes.  The callers are the processes   *)
(* that assemble prompts; the cache has no lock, and the temporary file of *)
(* an entry has one name for all of them.                                  *)
(***************************************************************************)
EXTENDS Naturals, Sequences

CONSTANTS
    Caller,
    Version,      \* contents of a policy file
    Sensitive,    \* texts that look like a secret
    Env,          \* subset of {"edit_during", "parallel"}
    None

VARIABLES
    files,        \* the policy files: a sequence of versions, None for an absent one
    entries,      \* key -> the text stored under it, or None
    tmp,          \* key -> the text in its temporary file, or None
    pc,           \* caller -> "idle", "hash", "get", "read", "put", "replace", "served", "raised"
    hashes,       \* caller -> hash_file of each file so far
    text          \* caller -> the text so far, later the one that is served

xvars == <<files, entries, tmp, pc, hashes, text>>

\* compute_cache_key over the hashes is one to one, and so is a hash.
Key == [1..Len(files) -> Version \cup {None}]

\* Mutant: the key leaves the last file out.
KeyWithoutLast(h) == [h EXCEPT ![Len(h)] = None]

KeyOf(h) == h

Goes(c, step) == pc' = [pc EXCEPT ![c] = step]

\* Without the environment's "parallel" processes assemble their prompts in turn.
Call(c) ==
    /\ pc[c] = "idle"
    /\ "parallel" \in Env \/ \A d \in Caller : pc[d] \in {"idle", "raised"}
    /\ Goes(c, "hash")
    /\ hashes' = [hashes EXCEPT ![c] = <<>>] /\ text' = [text EXCEPT ![c] = <<>>]
    /\ UNCHANGED <<files, entries, tmp>>

Hash(c) ==
    /\ pc[c] = "hash"
    /\ hashes' = [hashes EXCEPT ![c] = Append(@, files[Len(@) + 1])]
    /\ Goes(c, IF Len(hashes'[c]) = Len(files) THEN "get" ELSE "hash")
    /\ UNCHANGED <<files, entries, tmp, text>>

Get(c) ==
    /\ pc[c] = "get"
    /\ LET found == entries[KeyOf(hashes[c])] IN
       IF found # None THEN text' = [text EXCEPT ![c] = found] /\ Goes(c, "served")
       ELSE Goes(c, "read") /\ UNCHANGED text
    /\ UNCHANGED <<files, entries, tmp, hashes>>

Read(c) ==
    /\ pc[c] = "read"
    /\ text' = [text EXCEPT ![c] = Append(@, files[Len(@) + 1])]
    /\ Goes(c, IF Len(text'[c]) = Len(files) THEN "put" ELSE "read")
    /\ UNCHANGED <<files, entries, tmp, hashes>>

\* put_artifact: a refusal is caught; _write opens and fills the temporary file.
Put(c) ==
    /\ pc[c] = "put"
    /\ IF text[c] \in Sensitive THEN Goes(c, "served") /\ UNCHANGED tmp
       ELSE Goes(c, "replace") /\ tmp' = [tmp EXCEPT ![KeyOf(hashes[c])] = text[c]]
    /\ UNCHANGED <<files, entries, hashes, text>>

\* os.replace; when the file is gone the error is no CacheError and ends the caller.
Replace(c) == LET k == KeyOf(hashes[c]) IN
    /\ pc[c] = "replace"
    /\ IF tmp[k] = None THEN Goes(c, "raised") /\ UNCHANGED <<entries, tmp>>
       ELSE /\ entries' = [entries EXCEPT ![k] = tmp[k]]
            /\ tmp' = [tmp EXCEPT ![k] = None]
            /\ Goes(c, "served")
    /\ UNCHANGED <<files, hashes, text>>

Return(c) ==
    /\ pc[c] = "served" /\ Goes(c, "idle")
    /\ UNCHANGED <<files, entries, tmp, hashes, text>>

\* invalidate, by the operator's `cache clear'.
Invalidate(k) ==
    /\ entries[k] # None /\ entries' = [entries EXCEPT ![k] = None]
    /\ UNCHANGED <<files, tmp, pc, hashes, text>>

\* A policy file is edited, added or deleted.
EditPolicy(i, v) ==
    /\ "edit_during" \in Env \/ \A c \in Caller : pc[c] \in {"idle", "raised"}
    /\ files[i] # v /\ files' = [files EXCEPT ![i] = v]
    /\ UNCHANGED <<entries, tmp, pc, hashes, text>>

Init ==
    /\ files = <<CHOOSE v \in Version : TRUE, None>>
    /\ entries = [k \in Key |-> None] /\ tmp = [k \in Key |-> None]
    /\ pc = [c \in Caller |-> "idle"]
    /\ hashes = [c \in Caller |-> <<>>] /\ text = [c \in Caller |-> <<>>]

Next ==
    \/ \E c \in Caller : \/ Call(c) \/ Hash(c) \/ Get(c) \/ Read(c) \/ Put(c) \/ Replace(c)
                         \/ Return(c)
    \/ \E k \in Key : Invalidate(k)
    \/ \E i \in DOMAIN files, v \in Version \cup {None} : EditPolicy(i, v)

Spec == Init /\ [][Next]_xvars

-----------------------------------------------------------------------------
TypeOK == /\ \A c \in Caller : Len(hashes[c]) <= Len(files) /\ Len(text[c]) <= Len(files)
          /\ \A c \in Caller : pc[c] \in {"get", "read", "put", "replace"} => hashes[c] \in Key

\* compose.py 49-51: "keyed by the policy files' OWN content hashes, so a policy edit
\* invalidates it automatically".  A prompt has the policy of the files it was keyed by.
ServedIsCurrent == \A c \in Caller : pc[c] = "served" => text[c] = hashes[c]

\* Nothing sensitive is in the store.
NothingSensitive == \A k \in Key : entries[k] \notin Sensitive

(***************************************************************************)
(* What does not hold: with "edit_during" ServedIsCurrent, with "parallel" *)
(* compose.py 79, by which the cache "must never break prompt assembly".   *)
(***************************************************************************)
NeverRaises == \A c \in Caller : pc[c] # "raised"
=============================================================================
