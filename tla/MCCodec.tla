------------------------------- MODULE MCCodec -------------------------------
(***************************************************************************)
(* Instances of Codec for TLC: which requests are made.                    *)
(***************************************************************************)
EXTENDS Codec

CONSTANTS a, b, c

Of(x, y, z) == [r \in Plays |-> CASE r = a -> x [] r = b -> y [] r = c -> z]

Sounds      == Of("SOUND", "SOUND", "SOUND")
KeytonesAndSound == Of("KEYTONE", "KEYTONE", "SOUND")

Files       == Of("file", "file", "file")
Memories    == Of("memory", "memory", "memory")
MemoryAndTones == Of("memory", "dtmf", "dtmf")
=============================================================================
