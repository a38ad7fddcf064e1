---------------------------- MODULE MCActionCall ----------------------------
(***************************************************************************)
(* Builds of the plugin: one has the rename by address; the others have an *)
(* endpoint whose name is what /import_file is renamed to, and either one  *)
(* that ghidra_help takes for ghidra_find or one with the name that the    *)
(* rename by address has in the first.                                     *)
(***************************************************************************)
EXTENDS ActionCall

MCEndpoints == {"rename", "renameAt", "renameBy", "xrefs", "import", "import2", "listing", "diff", "find"}

MCSchemas ==
    {<<"rename", "renameAt", "import", "xrefs", "listing", "diff">>,
     <<"import2", "import", "rename", "find">>,
     <<"import", "import2", "rename", "renameBy">>}

MCBase ==
    [rename |-> <<"rename_function">>, renameAt |-> <<"rename_function_by_address">>,
     renameBy |-> <<"rename_function_by_address">>,
     xrefs |-> <<"get_xrefs_to">>, listing |-> <<"disassemble_function">>,
     diff |-> <<"diff_functions">>, find |-> <<"find">>, import |-> <<"import_file">>, import2 |-> <<"import_file", 2>>]

MCStatic == {<<"import_file">>, <<"ghidra_", "find">>}
MCRoute  == [k \in MCStatic |-> IF k = <<"import_file">> THEN {"import"} ELSE {}]

MCCategory ==
    [rename |-> "symbol", renameAt |-> "symbol", renameBy |-> "symbol", xrefs |-> "xref",
     listing |-> "listing", diff |-> "listing", find |-> "program", import |-> "program", import2 |-> "plugin"]

MCByTool == [n \in {<<"rename_function">>, <<"rename_function_by_address">>} |-> "symbols"]

MCByCategory == [xref |-> "analysis", listing |-> "analysis", program |-> "programs"]

MCValues ==
    [program |-> {"absent", "blank", "value"}, dry_run |-> {"absent", "blank", "yes", "no"},
     address |-> {"absent", "blank", "value"}, new |-> {"absent", "value"},
     program_b |-> {"absent", "value"}, limit |-> {"absent", "value"}]

MCParams ==
    [rename |-> {"new", "program"}, renameAt |-> {"address", "new", "program"},
     renameBy |-> {"address", "new", "program"},
     xrefs |-> {"address", "limit", "program"}, listing |-> {"address", "program"},
     diff |-> {"program", "program_b"}, find |-> {},
     import |-> {"dry_run"}, import2 |-> {"address"}]

MCRequired ==
    [rename |-> {"new"}, renameAt |-> {"address", "new"}, renameBy |-> {"new"}, xrefs |-> {"address"},
     listing |-> {"address"}, diff |-> {"program", "program_b"}, find |-> {}, import |-> {}, import2 |-> {}]

MCWrites == {"rename", "renameAt", "renameBy", "import", "import2"}
\* Defaults that are nothing to send, and one that is.
MCDefault ==
    [e \in MCEndpoints |->
        CASE e = "xrefs"  -> [limit |-> "value"]
          [] e = "rename" -> [program |-> "blank"]
          [] OTHER        -> <<>>]
MCImportArgs == {}
MCExpose == {<<"rename_function">>, <<"get_xrefs_to">>}
MCRename == <<"rename_function">>
MCPaged  == {"xrefs"}
MCSelectors == {"program", "program_b"}
MCBulk   == [e \in MCEndpoints |-> IF e = "rename" THEN {"hashes"} ELSE {}]
MCLimits == {1, 2, 4}

Plain(fs)   == [wrapped |-> FALSE, fields |-> fs]
Wrapped(fs) == [wrapped |-> TRUE, fields |-> fs]
Records(n)  == Value("records", n, 0)
Nested      == Value("nested", 2, 0)
Code        == Value("code", 1, 0)

MCAnswers ==
    {Plain([success |-> Flat, items |-> Records(2)]),
     Plain([name |-> Flat, items |-> Records(1), warnings |-> Value("messages", 2, 2)]),
     Plain([name |-> Flat, items |-> Records(1), more |-> Nested]),
     Plain([items |-> Records(1), more |-> Records(1)]),
     Plain([items |-> Records(1), hashes |-> Nested]),
     Plain([f |-> Code, g |-> Code]),
     Plain([f |-> Code, name |-> Flat]),
     Plain([name |-> Flat, errors |-> Value("messages", 2, 1)]),
     Plain([items |-> Value("ragged", 2, 0), name |-> Flat]),
     Wrapped([items |-> Records(5)]),
     Wrapped([name |-> Flat, warnings |-> Value("messages", 1, 1)])}
=============================================================================
