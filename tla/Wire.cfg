SPECIFICATION Spec
CONSTANTS
    Called = {
        "JS_CLOSE", "JS_VERSION", "JS_KILL", "JS_CONNECT", "JS_ENV_EXIST", "JS_ENV_STICKY",
        "JS_ENV_UN_STICKY", "JS_DISCONNECT", "JS_PARAM_SET", "JS_PARAM_GET", "JS_MKDIR",
        "JS_ACCESS", "JS_FILE_STAT", "JS_FILE_LIST_ALL", "JS_FILE_LIST", "JS_FILE_INFO",
        "JS_FILE_LOADED", "JS_FILE_LOADED_LOCAL", "JS_HINDO_FILE_CREATE",
        "JS_HINDO_FILE_CREATE_CLIENT", "JS_DIC_FILE_CREATE", "JS_FILE_DISCARD", "JS_FILE_READ",
        "JS_FILE_WRITE", "JS_FILE_REMOVE", "JS_FILE_COMMENT_SET", "JS_FILE_PASSWORD_SET",
        "JS_DIC_ADD", "JS_DIC_DELETE", "JS_DIC_USE", "JS_FUZOKUGO_SET", "JS_FUZOKUGO_GET",
        "JS_DIC_LIST_ALL", "JS_DIC_LIST", "JS_DIC_INFO", "JS_WORD_ADD", "JS_WORD_DELETE",
        "JS_WORD_COMMENT_SET", "JS_WORD_SEARCH", "JS_WORD_SEARCH_BY_ENV", "JS_WORD_INFO",
        "JS_HINDO_SET", "JS_WHO", "JS_ENV_LIST", "JS_HINSI_NAME", "JS_HINSI_NUMBER",
        "JS_HINSI_LIST", "JS_HINSI_DICTS", "JS_HINSI_TABLE_SET", "JS_KANREN", "JS_KANTAN_DAI",
        "JS_KANTAN_SHO", "JS_KANZEN_DAI", "JS_KANZEN_SHO", "JS_FILE_SEND", "JS_FILE_RECEIVE"}
    MaxCalls = 3
    MaxItems = 2
    MaxContents = 3
    MaxEnvOfClient = 2
    MaxJishoOfEnv = 2
    MaxFileOfEnv = 3
INVARIANTS
    ClientInStep
    AnswerReadWhole
    AnswerFits
    ServerInStep
PROPERTY
    CallReturns
CHECK_DEADLOCK FALSE
