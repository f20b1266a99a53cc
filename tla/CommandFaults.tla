---- MODULE CommandFaults ----
\* What Drivers, RemoteHost and DisplayParser share when Process composes
\* them: None, and what goes wrong while a command runs.  A behaviour has the
\* faults of its command line, which are set in its first state; each is a
\* permission: the step it names may fail, and need not.

CONSTANT NULL    \* None

VARIABLE faults  \* what may fail in this behaviour

\* Of the host: a connection breaks in a remote command, taskkill has no
\* effect, a server comes up late or never, a command does not exit.
HostFaults == {"break", "kill", "start", "hang"}

\* Of the database: a statement before the run, or the release after it.
DatabaseFaults == {"database", "release"}

\* "left": a client died earlier and left its servers and files on the host;
\* "quota": the bitfile is refused; "silent": an exception has no message.
FaultKinds == HostFaults \cup DatabaseFaults \cup {"left", "quota", "silent"}
====
