--------------------------- MODULE MCEngineProcess ---------------------------
EXTENDS EngineProcess

Config(on) == [o \in {"profiler", "metrics", "obd", "dds", "json"} |-> o \in on]

\* One configuration per optional part, so that each meets every failure of the others.
MCConfigurations == {Config({"profiler", "metrics"}), Config({"profiler"}), Config({"obd"}),
                     Config({"dds"}), Config({"json"})}
=============================================================================
