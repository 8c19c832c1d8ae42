------------------------------ MODULE Verification -----------------------------
(***************************************************************************)
(* How UCP3 decides, in secure mode, whether a file may be used: the        *)
(* signature of a file (security/Signature.h), the hash of an archive       *)
(* (security/Hash.h), the list of hashes in the extension store             *)
(* (security/Store.h) and their use for an archive (verifyZipFile of        *)
(* io/modules/ModuleManager.h).                                             *)
(*                                                                         *)
(* The two functions of Windows' crypto API are sequences of calls; each    *)
(* may fail, some acquire something, and all leave by way of main_exit.     *)
(* A file is described by its .sig and, for an archive, by whether the      *)
(* store lists its name with its hash.                                      *)
(***************************************************************************)
EXTENDS Naturals, Sequences

VARIABLE check     \* what is verified, how far, what it holds, the verdict

Sigs == {"absent", "short", "forged", "genuine"}

Files == [sig : Sigs, listed : BOOLEAN]

Calls ==
  [signature |-> <<"size", "buffer", "decode", "parsed size", "blob", "parse",
                   "context", "key", "hash", "data", "verify">>,
   hash      |-> <<"context", "hash", "data", "value">>]

Resources == {"buffer", "blob", "context", "key", "hash"}

\* Mutant: the key is forgotten.
FreedWithoutKey == [signature |-> {"buffer", "blob", "context", "hash"}, hash |-> {"hash", "context"}]

\* What is freed behind main_exit if it was acquired.
Freed == [signature |-> {"buffer", "blob", "hash", "key", "context"}, hash |-> {"hash", "context"}]

Unchecked == [doing |-> "nothing", call |-> 1, held |-> {}, verdict |-> "none"]

Begun(what) == [Unchecked EXCEPT !.doing = what]

Ruled(verdict) == [Unchecked EXCEPT !.verdict = verdict]

\* verifyFile: without a .sig of the right length nothing is verified.
VerifyFile(f) == IF f.sig \in {"absent", "short"} THEN Ruled("refused") ELSE Begun("signature")

Current == Calls[check.doing][check.call]

InCalls == check.doing \in DOMAIN Calls /\ check.call <= Len(Calls[check.doing])

\* One call of the API, which may fail; the last one of verify() does unless the
\* signature is one of these bytes.
CallApi(f) ==
  /\ InCalls
  /\ \/ /\ Current = "verify" => f.sig = "genuine"
        /\ check' = [check EXCEPT !.call = @ + 1, !.held = @ \cup ({Current} \cap Resources)]
     \/ check' = [check EXCEPT !.call = Len(Calls[check.doing]) + 1, !.verdict = "failed"]

\* verifyZipFile: a hash that could not be computed raises; an archive the store
\* does not list needs a signature of its own.
HashVerdict(f) ==
  IF check.verdict = "failed" THEN Ruled("raised")
  ELSE IF f.listed THEN Ruled("accepted")
  ELSE VerifyFile(f)

SignatureVerdict == Ruled(IF check.verdict = "failed" THEN "refused" ELSE "accepted")

\* main_exit, and what the caller does with the status.
MainExit(f) ==
  /\ check.doing \in DOMAIN Calls /\ ~InCalls
  /\ check' = [(IF check.doing = "hash" THEN HashVerdict(f) ELSE SignatureVerdict)
                 EXCEPT !.held = check.held \ Freed[check.doing]]

Verifying(f) == CallApi(f) \/ MainExit(f)

Vouched(f) == f.listed \/ f.sig = "genuine"
=============================================================================
