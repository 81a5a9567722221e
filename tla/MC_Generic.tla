------------------------------ MODULE MC_Generic ------------------------------
(* Two generic devices over four ports. g1 ignores 0x60-0x61 and passes    *)
(* 0x64 through; g2 passes through a range written "0x10080" to "0x80",    *)
(* which the 16-bit narrowing makes 0x80-0x80, and then has an entry with  *)
(* an invalid mode, so its init fails after recording one range.          *)
EXTENDS Generic

MCPorts == {96, 97, 100, 128}

MCCfg == [d \in Devs |->
            IF d = "g1"
              THEN << [start |-> 96, end |-> 97, mode |-> "print_and_ignore"],
                      [start |-> 100, end |-> 100, mode |-> "print_and_passthrough"] >>
              ELSE << [start |-> 65664, end |-> 128, mode |-> "print_and_passthrough"],
                      [start |-> 1, end |-> 1, mode |-> "bogus"] >>]

\* No port hooked by another device.
MCOthersNone == [p \in MCPorts |-> "none"]

\* The keyboard controller has hooked 0x61 (as the PS/2 device does) before
\* g1 is initialised.
MCOthersKbd == [p \in MCPorts |-> IF p = 97 THEN "keyboard" ELSE "none"]
=============================================================================
