------------------------ MODULE MCCapabilityFallback ------------------------
(***************************************************************************)
(* A TLC instance of CapabilityFallback.  GPT requests share no cache      *)
(* entry with the others; thinking and Qwen requests use the same one.     *)
(***************************************************************************)
EXTENDS CapabilityFallback

ByEntry == {{"gpt"}, {"thinking", "qwen"}}
=============================================================================
