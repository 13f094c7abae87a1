------------------------------ MODULE MCBacnet ------------------------------
(* The start of the driver on small instances.                             *)
EXTENDS Bacnet

\* A WhoIs without a range, as in NewSlave.
Unlimited == NoLimit

Slave(name, dev) == [name |-> name, custom |-> dev]

\* A slave that may be found by its scan, one whose device is never found, one
\* that the device context has forgotten since, and a second one for the first
\* device, which is then in the cache; and a device without configuration.
FourSlaves == << Slave("s1", 1), Slave("s0", NoCustom), Slave("s2", 2),
                 Slave("sx", 1), Slave("s3", 1) >>
\* Of two slaves, the second one's device is never found, so that it always scans.
MissingSlave == << Slave("s1", 1), Slave("s2", 2) >>
=============================================================================
