---------------------------- MODULE MCDeployment ----------------------------
(* Deployment with a few files.                                            *)
EXTENDS Deployment

Domain == <<"BASE_DOMAIN", "=", Quote, "example", Quote>>
Path(mark) == <<"BACKUP_FILE_RUN", "=", mark, "/run", "=", "a", mark>>
Bare(path) == <<"BACKUP_FILE_RUN", "=", path>>

Configs == {<<Path(Quote), Domain>>, <<Domain, <<"#">>, Bare("/run")>>, <<Path("'"), Domain>>,
            <<Bare("/run"), Domain, Bare("/tmp")>>, <<Path(Quote), Domain, Path(Quote)>>,
            <<Bare("/run")>>, <<Path(Quote), <<>>, <<"BASE_DOMAIN", "=">>>>}

Quad == {"1.1.1.1", "8.8.8.8", "300.1.1.1"}
Address == {"1.1.1.1", "8.8.8.8"}

Lists == {<<<<"#">>, <<"nameserver", " ", "::1">>, <<"nameserver", " ", "8.8.8.8">>>>,
          <<<<"nameserver", " ", "300.1.1.1">>, <<"nameserver", " ", "1.1.1.1", " ">>, <<"nameserver", " ", "8.8.8.8">>>>,
          <<<<"nameserver", "\t", "::1">>, <<"nameserver", " ", "::1">>>>}
=============================================================================
