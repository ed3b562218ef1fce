CONSTANTS
    Programs = {"gdb", "clang"}
    Libs = {"libc", "loader", "zstd", "prefix/zstd", "libpython", "libclang", "liblldb", "libresolv", "libc++"}
    Lines <- MCLines
    Loaders = {"loader"}
    Name <- MCName
    Zstd = "prefix/zstd"
    Extras = {"libresolv"}
    Late = {"libc++"}
    Bare = {"libc", "loader"}
    Lister = TRUE
    MaxRuns = 2
SPECIFICATION Spec
INVARIANTS Closed RightLibs Behind Delivered
PROPERTY Ends
CHECK_DEADLOCK FALSE
