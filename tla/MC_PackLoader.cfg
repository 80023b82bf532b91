\* The loader and the doctor (strict security, --smoke) over two
\* directories of up to two threads each.
SPECIFICATION Spec
CONSTANTS
    NDirs = 2
    ThreadIds = {"t1", "t2", ""}
    MaxThreads = 2
    Security = "strict"
    Smoke = TRUE
    Scripts = {"clean", "deny", "unreadable"}
INVARIANT LoadVerdict
INVARIANT DoctorRejectsUnloadable
\* The walk ends, and main's transform is resolved at most once.
CHECK_DEADLOCK FALSE
