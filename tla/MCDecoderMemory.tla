-------------------------- MODULE MCDecoderMemory --------------------------
EXTENDS DecoderMemory

AllInterfaces == {"c", "std", "rust", "prealloc"}
=============================================================================
